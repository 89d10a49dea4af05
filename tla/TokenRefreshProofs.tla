------------------------- MODULE TokenRefreshProofs -------------------------
(***************************************************************************)
(* Proofs about TokenRefresh, for any number of starts and any period,     *)
(* life, margin and request timeout that TokenTimes allows.                *)
(***************************************************************************)
EXTENDS TokenRefresh, TLAPS

(***************************************************************************)
(* What a request brings is as old as the time it has used up, so that the *)
(* margin covers it, whichever loop stores it over whatever token.         *)
(***************************************************************************)
Granted ==
    /\ \A s \in Starts :
         tokLoop[s] \in {"first", "fetch"} /\ tokFetch[s].good >= 0 =>
           tokFetch[s].good >= tokFetch[s].expire - MaxFetch + tokFetch[s].left
    /\ tokStored.left > 0 => tokStored.good >= tokStored.left
    /\ \A s \in Starts :
         tokLoop[s] = "store" => tokStored.left = Lasts(tokStored.expire)

\* A refresh ends long before the next tick.
Ticking ==
    \A s \in Starts :
      tokLoop[s] = "fetch" => tokTick[s] >= tokFetch[s].left + Period - MaxFetch

\* Starts take their number, their context and Channel.cancel in turn.
Numbered ==
    /\ tokCancel = tokStarts
    /\ \A s \in Starts :
         s > tokStarts => tokLoop[s] = "none" /\ tokCtx[s] /\ s \notin tokGone

(***************************************************************************)
(* If no Starts have overlapped, the one that is under way is the last and *)
(* can still be cancelled; and the loop of a running channel is the last   *)
(* Start's, if its caller has not left, and will have renewed the token    *)
(* before it runs out, if enough was granted.                              *)
(***************************************************************************)
LastStartRuns ==
    ~tokOverlap =>
      /\ \A s \in Starts :
           InStart(s) => /\ s = tokStarts /\ tokStatus # "running" /\ ~tokStopping
                         /\ tokCtx[s] \/ s \in tokGone
      /\ tokStatus = "running" /\ ~tokStopping =>
           tokStarts \in Starts /\ tokStored.left >= 0
      /\ tokStatus = "running" /\ ~tokStopping /\ tokStarts \notin tokGone =>
           /\ tokCtx[tokStarts] /\ Alive(tokStarts)
           /\ LongEnough(tokStored.expire) =>
                /\ tokLoop[tokStarts] = "wait" =>
                     tokStored.left > tokTick[tokStarts] + MaxFetch
                /\ tokLoop[tokStarts] = "fetch" =>
                     tokStored.left > tokFetch[tokStarts].left

TokenInv == TokenTypeOK /\ Granted /\ Ticking /\ Numbered /\ LastStartRuns

LEMMA TimesAreNat ==
  /\ MaxStarts \in Nat /\ MaxStarts > 0
  /\ Period \in Nat /\ Margin \in Nat /\ MaxFetch \in Nat
  /\ MaxFetch < Period /\ MaxFetch <= Margin
  /\ \A life \in Lives \cup {0} : life \in Nat /\ Lasts(life) \in Nat
<1>1. \A n \in {Period, Margin, MaxFetch} : n \in Nat  BY TokenTimes
<1>2. \A life \in Lives \cup {0} : life \in Nat  BY TokenTimes
<1>3. \A life \in Lives \cup {0} : Lasts(life) \in Nat  BY <1>1, <1>2 DEF Lasts
<1> QED  BY <1>1, <1>2, <1>3, TokenTimes

(* The type of each piece, without the functions around it.                *)
LEMMA Pieces ==
  ASSUME TokenTypeOK
  PROVE  /\ tokStarts \in Int /\ 0 <= tokStarts /\ tokStarts <= MaxStarts
         /\ \A s \in Starts :
              /\ tokTick[s] \in Int /\ 0 <= tokTick[s] /\ tokTick[s] <= Period
              /\ tokFetch[s].left \in Int /\ 0 <= tokFetch[s].left
              /\ tokFetch[s].left <= MaxFetch
              /\ tokFetch[s].good \in Int /\ -1 <= tokFetch[s].good
              /\ tokFetch[s].expire \in Lives \cup {0} /\ tokFetch[s].expire \in Nat
         /\ tokStored.left \in Int /\ -1 <= tokStored.left
         /\ tokStored.good \in Int /\ -1 <= tokStored.good
         /\ tokStored.expire \in Lives \cup {0} /\ tokStored.expire \in Nat
BY TimesAreNat DEF TokenTypeOK

USE TimesAreNat DEF Starts, InStart, Alive, LoopStates, NoRequest

LEMMA TokenInitInv == TokenInit => TokenInv
<1> SUFFICES ASSUME TokenInit PROVE TokenInv  OBVIOUS
<1>1. {tokStopping, tokOverlap} \subseteq BOOLEAN  BY Zenon DEF TokenInit
<1>2. TokenTypeOK
  <2>1. NoRequest \in [left : 0 .. MaxFetch, expire : Lives \cup {0}, good : Nat \cup {-1}]
    OBVIOUS
  <2> QED  BY <1>1, <2>1 DEF TokenInit, TokenTypeOK
<1>3. Granted /\ Ticking /\ Numbered
  BY DEF TokenInit, Granted, Ticking, Numbered
<1>4. LastStartRuns  BY DEF TokenInit, LastStartRuns
<1> QED  BY <1>2, <1>3, <1>4 DEF TokenInv

(* Start and Stop.                                                         *)
LEMMA StartChannelInv == TokenInv /\ StartChannel => TokenInv'
<1> SUFFICES ASSUME TokenInv, StartChannel PROVE TokenInv'  OBVIOUS
<1> USE DEF TokenInv, TokenTypeOK, StartChannel, Asking
<1>1. tokOverlap' \in BOOLEAN
  <2>1. tokOverlap' = (tokOverlap \/ tokStopping \/ \E s \in Starts : InStart(s))
    BY Zenon
  <2> QED  BY <2>1, Zenon
<1>2. tokStarts + 1 \in Starts  OBVIOUS
<1>3. TokenTypeOK'  BY <1>1, <1>2
<1>p. \A s \in Starts :
        \/ tokLoop'[s] = tokLoop[s] /\ tokFetch'[s] = tokFetch[s]
        \/ /\ s = tokStarts + 1 /\ tokLoop'[s] = "first"
           /\ tokFetch'[s].left = MaxFetch /\ tokFetch'[s].good = -1
  BY <1>2
<1>4. Granted'
  <2> HIDE DEF TokenTypeOK, StartChannel
  <2>1. tokStored' = tokStored  BY DEF StartChannel
  <2> QED  BY <1>p, <2>1 DEF Granted
<1>5. Ticking' /\ Numbered'
  <2>1. /\ tokTick' = tokTick /\ tokCtx' = tokCtx /\ tokGone' = tokGone
        /\ tokCancel' = tokStarts + 1 /\ tokStarts' = tokStarts + 1
    OBVIOUS
  <2>2. \A s \in Starts : s > tokStarts' => tokLoop'[s] = tokLoop[s]
    BY <1>p, <1>2
  <2> HIDE DEF TokenTypeOK, StartChannel
  <2>3. Ticking'  BY <1>p, <2>1 DEF Ticking
  <2>4. Numbered'  BY <2>1, <2>2, <1>2, Pieces DEF Numbered
  <2> QED  BY <2>3, <2>4
<1>6. LastStartRuns'
  <2>1. ~tokOverlap' => ~tokOverlap /\ ~tokStopping /\ \A s \in Starts : ~InStart(s)
    BY Zenon
  <2> QED  BY <1>2, <2>1 DEF LastStartRuns, Numbered
<1> QED  BY <1>3, <1>4, <1>5, <1>6

LEMMA StopInv == TokenInv /\ (StopCancels \/ StopSets) => TokenInv'
<1> SUFFICES ASSUME TokenInv, StopCancels \/ StopSets PROVE TokenInv'  OBVIOUS
<1> USE DEF TokenInv, TokenTypeOK
<1>1. CASE StopCancels
  <2> USE <1>1 DEF StopCancels
  <2>1. tokOverlap' \in BOOLEAN /\ (~tokOverlap' => ~tokOverlap /\ \A s \in Starts : ~InStart(s))
    <3>1. tokOverlap' = (tokOverlap \/ \E s \in Starts : InStart(s))  BY Zenon
    <3> QED  BY <3>1, Zenon
  <2>2. TokenTypeOK'  BY <2>1
  <2>3. Granted' /\ Ticking'  BY DEF Granted, Ticking
  <2>4. Numbered'  BY DEF Numbered
  <2>5. LastStartRuns'  BY <2>1 DEF LastStartRuns
  <2> QED  BY <2>2, <2>3, <2>4, <2>5
<1>2. CASE StopSets
  <2> USE <1>2 DEF StopSets
  <2>1. TokenTypeOK'  OBVIOUS
  <2>2. Granted' /\ Ticking' /\ Numbered'  BY DEF Granted, Ticking, Numbered
  <2>3. LastStartRuns'  BY DEF LastStartRuns
  <2> QED  BY <2>1, <2>2, <2>3
<1> QED  BY <1>1, <1>2

(* The margin covers the time a request took.                              *)
LEMMA StoreGrants ==
  ASSUME TokenTypeOK, Granted, NEW s \in Starts, tokLoop[s] \in {"first", "fetch"},
         tokFetch[s].good >= 0
  PROVE  Lasts(tokFetch[s].expire) > 0 => tokFetch[s].good >= Lasts(tokFetch[s].expire)
BY Pieces DEF Granted, Lasts

(* What is long enough lasts over the next tick and its request.           *)
LEMMA LongLasts ==
  \A life \in Lives \cup {0} :
    Lasts(life) >= 0 /\ (LongEnough(life) => Lasts(life) > Period + MaxFetch)
BY DEF Lasts, LongEnough

LEMMA StartStepInv ==
  ASSUME TokenInv, NEW s \in Starts, StartFails(s) \/ StartStores(s) \/ StartRuns(s)
  PROVE  TokenInv'
<1> USE DEF TokenInv, TokenTypeOK
<1>n. NoRequest \in [left : 0 .. MaxFetch, expire : Lives \cup {0}, good : Nat \cup {-1}]
  OBVIOUS
<1>1. CASE StartFails(s)
  <2> USE <1>1, <1>n DEF StartFails, Ended
  <2>1. TokenTypeOK'  OBVIOUS
  <2>2. Granted' /\ Ticking' /\ Numbered'  BY DEF Granted, Ticking, Numbered
  <2>3. LastStartRuns'  BY DEF LastStartRuns
  <2> QED  BY <2>1, <2>2, <2>3
<1>2. CASE StartStores(s)
  <2> USE <1>2, <1>n DEF StartStores, StoredNow, Ended
  <2>1. TokenTypeOK'
    <3>1. tokStored' \in [left : Nat \cup {-1}, expire : Lives \cup {0}, good : Nat \cup {-1}]
      BY Pieces
    <3> QED  BY <3>1
  <2>2. Granted'
    <3>1. /\ tokStored'.left = Lasts(tokFetch[s].expire)
          /\ tokStored'.expire = tokFetch[s].expire
          /\ tokStored'.good = tokFetch[s].good
          /\ tokLoop[s] = "first" /\ tokFetch[s].good >= 0
          /\ \A t \in Starts : t # s => tokLoop'[t] = tokLoop[t] /\ tokFetch'[t] = tokFetch[t]
          /\ tokLoop'[s] = "store"
      OBVIOUS
    <3> QED  BY <3>1, StoreGrants DEF Granted
  <2>3. Ticking' /\ Numbered'  BY DEF Ticking, Numbered
  <2>4. LastStartRuns'  BY DEF LastStartRuns
  <2> QED  BY <2>1, <2>2, <2>3, <2>4
<1>3. CASE StartRuns(s)
  <2> USE <1>3 DEF StartRuns
  <2>1. TokenTypeOK'  OBVIOUS
  <2>2. Granted' /\ Ticking' /\ Numbered'  BY DEF Granted, Ticking, Numbered
  <2>3. LastStartRuns'
    <3>1. /\ tokLoop[s] = "store" /\ tokLoop'[s] = "wait" /\ tokTick'[s] = Period
          /\ tokStatus' = "running" /\ \A t \in Starts : t # s => tokLoop'[t] = tokLoop[t]
          /\ UNCHANGED <<tokStarts, tokCtx, tokStored, tokGone, tokStopping, tokOverlap>>
      OBVIOUS
    <3>2. /\ tokStored.left = Lasts(tokStored.expire) /\ tokStored.left >= 0
          /\ LongEnough(tokStored.expire) => tokStored.left > Period + MaxFetch
      <4> HIDE DEF TokenTypeOK, StartRuns
      <4>1. tokStored.expire \in Lives \cup {0} /\ tokStored.left = Lasts(tokStored.expire)
        BY <3>1, Pieces DEF Granted
      <4> QED  BY <4>1, LongLasts
    <3> HIDE DEF TokenTypeOK, StartRuns
    <3> QED  BY <3>1, <3>2 DEF LastStartRuns
  <2> QED  BY <2>1, <2>2, <2>3
<1> QED  BY <1>1, <1>2, <1>3

(* The refresh loop.                                                       *)
LEMMA LoopStepInv ==
  ASSUME TokenInv, NEW s \in Starts,
         LoopTicks(s) \/ LoopStores(s) \/ LoopFails(s) \/ LoopEnds(s) \/ TokenIssued(s)
  PROVE  TokenInv'
<1> USE DEF TokenInv, TokenTypeOK
<1>n. NoRequest \in [left : 0 .. MaxFetch, expire : Lives \cup {0}, good : Nat \cup {-1}]
  OBVIOUS
<1>1. CASE LoopTicks(s)
  <2> USE <1>1 DEF LoopTicks, Asking
  <2>1. TokenTypeOK'  OBVIOUS
  <2>p. /\ tokLoop[s] = "wait" /\ tokTick[s] = 0
        /\ tokLoop'[s] = "fetch" /\ tokTick'[s] = Period
        /\ tokFetch'[s].left = MaxFetch /\ tokFetch'[s].good = -1
        /\ \A t \in Starts : t # s =>
             /\ tokLoop'[t] = tokLoop[t] /\ tokTick'[t] = tokTick[t]
             /\ tokFetch'[t] = tokFetch[t]
        /\ UNCHANGED <<tokStatus, tokStarts, tokCancel, tokCtx, tokStored, tokGone,
                       tokStopping, tokOverlap>>
    OBVIOUS
  <2> HIDE DEF TokenTypeOK, LoopTicks
  <2>2. Granted'  BY <2>p DEF Granted
  <2>3. Ticking'  BY <2>p, Pieces DEF Ticking
  <2>4. Numbered'  BY <2>p DEF Numbered
  <2>5. LastStartRuns'  BY <2>p, Pieces DEF LastStartRuns
  <2> QED  BY <2>1, <2>2, <2>3, <2>4, <2>5
<1>2. CASE LoopStores(s)
  <2> USE <1>2, <1>n DEF LoopStores, StoredNow, Ended
  <2>1. TokenTypeOK'
    <3>1. tokStored' \in [left : Nat \cup {-1}, expire : Lives \cup {0}, good : Nat \cup {-1}]
      BY Pieces
    <3> QED  BY <3>1
  <2>p. /\ tokStored'.left = Lasts(tokFetch[s].expire)
        /\ tokStored'.expire = tokFetch[s].expire
        /\ tokStored'.good = tokFetch[s].good
        /\ tokLoop[s] = "fetch" /\ tokFetch[s].good >= 0 /\ tokLoop'[s] = "wait"
        /\ \A t \in Starts : t # s => tokLoop'[t] = tokLoop[t] /\ tokFetch'[t] = tokFetch[t]
        /\ UNCHANGED <<tokStatus, tokStarts, tokCancel, tokCtx, tokTick,
                       tokGone, tokStopping, tokOverlap>>
    OBVIOUS
  <2>2. Granted'
    <3> HIDE DEF TokenTypeOK, LoopStores
    <3> QED  BY <2>p, StoreGrants DEF Granted
  <2>3. Ticking' /\ Numbered'  BY DEF Ticking, Numbered
  <2>4. LastStartRuns'
    <3>1. /\ tokStored'.left >= 0 /\ tokTick[s] <= Period
          /\ \A t \in Starts : tokTick[t] <= Period /\ tokFetch[t].left <= MaxFetch
          /\ LongEnough(tokStored'.expire) => tokStored'.left > Period + MaxFetch
      <4> HIDE DEF TokenTypeOK, LoopStores
      <4>1. /\ tokStored'.expire \in Lives \cup {0}
            /\ tokStored'.left = Lasts(tokStored'.expire)
        BY <2>p, Pieces
      <4>2. tokStored'.left >= 0
            /\ (LongEnough(tokStored'.expire) => tokStored'.left > Period + MaxFetch)
        BY <4>1, LongLasts
      <4> QED  BY <4>2, Pieces
    <3> HIDE DEF TokenTypeOK, LoopStores
    <3> QED  BY <2>p, <3>1, Pieces DEF LastStartRuns
  <2> QED  BY <2>1, <2>2, <2>3, <2>4
<1>3. CASE LoopFails(s)
  <2> USE <1>3, <1>n DEF LoopFails, Ended
  <2>1. TokenTypeOK'  OBVIOUS
  <2>2. Granted' /\ Ticking' /\ Numbered'  BY DEF Granted, Ticking, Numbered
  <2>3. LastStartRuns'  BY DEF LastStartRuns
  <2> QED  BY <2>1, <2>2, <2>3
<1>4. CASE LoopEnds(s)
  <2> USE <1>4 DEF LoopEnds
  <2>1. TokenTypeOK'  OBVIOUS
  <2>2. Granted' /\ Ticking' /\ Numbered'  BY DEF Granted, Ticking, Numbered
  <2>3. LastStartRuns'  BY DEF LastStartRuns
  <2> QED  BY <2>1, <2>2, <2>3
<1>5. CASE TokenIssued(s)
  <2> USE <1>5 DEF TokenIssued
  <2>0. PICK life \in Lives :
          tokFetch' = [tokFetch EXCEPT ![s].expire = life, ![s].good = life]
    OBVIOUS
  <2>p. /\ tokFetch'[s].left = tokFetch[s].left /\ tokFetch'[s].good = life
        /\ tokFetch'[s].expire = life /\ life \in Nat
        /\ \A t \in Starts : t # s => tokFetch'[t] = tokFetch[t]
    BY <2>0
  <2>1. TokenTypeOK'
    <3>1. tokFetch'[s] \in [left : 0 .. MaxFetch, expire : Lives \cup {0}, good : Nat \cup {-1}]
      BY <2>0, <2>p
    <3>2. tokFetch' \in [Starts -> [left : 0 .. MaxFetch, expire : Lives \cup {0},
                                    good : Nat \cup {-1}]]
      BY <2>0, <3>1
    <3> QED  BY <3>2
  <2>2. Granted'
    <3>1. tokStored' = tokStored /\ tokLoop' = tokLoop  OBVIOUS
    <3> HIDE DEF TokenTypeOK, TokenIssued
    <3> QED  BY <2>p, <3>1, Pieces DEF Granted
  <2>u. UNCHANGED <<tokStatus, tokStarts, tokCancel, tokLoop, tokCtx, tokTick, tokStored,
                   tokGone, tokStopping, tokOverlap>>
    OBVIOUS
  <2>f. \A t \in Starts : tokFetch'[t].left = tokFetch[t].left  BY <2>p
  <2> HIDE DEF TokenTypeOK, TokenIssued
  <2>3. Ticking' /\ Numbered'  BY <2>u, <2>f DEF Ticking, Numbered
  <2>4. LastStartRuns'  BY <2>u, <2>f DEF LastStartRuns
  <2> QED  BY <2>1, <2>2, <2>3, <2>4
<1> QED  BY <1>1, <1>2, <1>3, <1>4, <1>5

LEMMA ClockInv == TokenInv /\ TokenClock => TokenInv'
<1> SUFFICES ASSUME TokenInv, TokenClock PROVE TokenInv'  OBVIOUS
<1> USE DEF TokenInv
<1>g. \A s \in Starts :
        /\ tokLoop[s] # "store"
        /\ tokLoop[s] = "wait" => tokTick[s] > 0
        /\ tokLoop[s] \in {"first", "fetch"} => tokFetch[s].left > 0
  BY DEF TokenClock
<1>t. \A s \in Starts :
        tokTick'[s] = IF tokLoop[s] \in {"wait", "fetch"} THEN tokTick[s] - 1 ELSE tokTick[s]
  BY DEF TokenClock
<1>f. \A s \in Starts :
        /\ tokLoop[s] \in {"first", "fetch"} =>
             /\ tokFetch'[s].left = tokFetch[s].left - 1
             /\ tokFetch'[s].expire = tokFetch[s].expire
             /\ tokFetch[s].good > 0 => tokFetch'[s].good = tokFetch[s].good - 1
             /\ tokFetch[s].good <= 0 => tokFetch'[s].good = tokFetch[s].good
        /\ tokLoop[s] \notin {"first", "fetch"} => tokFetch'[s] = tokFetch[s]
  <2> SUFFICES ASSUME NEW s \in Starts
               PROVE  /\ tokLoop[s] \in {"first", "fetch"} =>
                           /\ tokFetch'[s].left = tokFetch[s].left - 1
                           /\ tokFetch'[s].expire = tokFetch[s].expire
                           /\ tokFetch[s].good > 0 =>
                                tokFetch'[s].good = tokFetch[s].good - 1
                           /\ tokFetch[s].good <= 0 => tokFetch'[s].good = tokFetch[s].good
                      /\ tokLoop[s] \notin {"first", "fetch"} => tokFetch'[s] = tokFetch[s]
    OBVIOUS
  <2>1. tokFetch'[s] = IF tokLoop[s] \in {"first", "fetch"}
                         THEN [tokFetch[s] EXCEPT !.left = @ - 1, !.good = Elapsed(@)]
                         ELSE tokFetch[s]
    BY DEF TokenClock
  <2>2. tokFetch[s] \in [left : 0 .. MaxFetch, expire : Lives \cup {0}, good : Nat \cup {-1}]
    BY DEF TokenTypeOK
  <2> QED  BY <2>1, <2>2, Pieces DEF Elapsed
<1>s. /\ tokStored' = [left |-> Elapsed(tokStored.left), expire |-> tokStored.expire,
                        good |-> Elapsed(tokStored.good)]
      /\ tokStored'.left = Elapsed(tokStored.left)
      /\ tokStored'.expire = tokStored.expire
      /\ tokStored'.good = Elapsed(tokStored.good)
  BY DEF TokenClock, TokenTypeOK
<1>u. UNCHANGED <<tokStatus, tokStarts, tokCancel, tokLoop, tokCtx, tokGone, tokStopping,
                 tokOverlap>>
  BY DEF TokenClock
<1>1. tokTick' \in [Starts -> 0 .. Period]
  <2>1. \A s \in Starts : tokTick'[s] \in 0 .. Period  BY <1>g, <1>t, Pieces DEF Ticking
  <2>2. tokTick' = [s \in Starts |-> tokTick'[s]]  BY DEF TokenClock
  <2> QED  BY <2>1, <2>2
<1>2. tokFetch' \in [Starts -> [left : 0 .. MaxFetch, expire : Lives \cup {0}, good : Nat \cup {-1}]]
  <2>1. \A s \in Starts : tokFetch'[s] \in [left : 0 .. MaxFetch, expire : Lives \cup {0}, good : Nat \cup {-1}]
    <3> SUFFICES ASSUME NEW s \in Starts
                 PROVE  tokFetch'[s] \in [left : 0 .. MaxFetch, expire : Lives \cup {0}, good : Nat \cup {-1}]
      OBVIOUS
    <3>1. CASE tokLoop[s] \in {"first", "fetch"}
      <4>1. tokFetch[s].left - 1 \in 0 .. MaxFetch  BY <3>1, <1>g, Pieces
      <4>2. Elapsed(tokFetch[s].good) \in Nat \cup {-1}  BY Pieces DEF Elapsed
      <4>3. tokFetch'[s] = [left |-> tokFetch[s].left - 1, expire |-> tokFetch[s].expire,
                            good |-> Elapsed(tokFetch[s].good)]
        BY <3>1 DEF TokenClock, TokenTypeOK
      <4> QED  BY <4>1, <4>2, <4>3, Pieces
    <3>2. CASE tokLoop[s] \notin {"first", "fetch"}  BY <3>2 DEF TokenTypeOK, TokenClock
    <3> QED  BY <3>1, <3>2
  <2>2. tokFetch' = [s \in Starts |-> tokFetch'[s]]  BY DEF TokenClock
  <2> QED  BY <2>1, <2>2
<1>3. tokStored' \in [left : Nat \cup {-1}, expire : Lives \cup {0}, good : Nat \cup {-1}]
  BY <1>s, Pieces DEF Elapsed
<1>4. TokenTypeOK'  BY <1>1, <1>2, <1>3, <1>u DEF TokenTypeOK
<1>5. Granted'
  <2>1. \A s \in Starts :
          tokLoop[s] \in {"first", "fetch"} /\ tokFetch'[s].good >= 0 =>
            tokFetch'[s].good >= tokFetch'[s].expire - MaxFetch + tokFetch'[s].left
    BY <1>g, <1>f, Pieces DEF Granted
  <2>2. tokStored'.left > 0 => tokStored'.good >= tokStored'.left
    BY <1>s, Pieces DEF Granted, Elapsed
  <2> QED  BY <2>1, <2>2, <1>g, <1>u DEF Granted
<1>6. Ticking'  BY <1>g, <1>t, <1>f, <1>u, Pieces DEF Ticking
<1>7. Numbered'  BY <1>u DEF Numbered
<1>8. LastStartRuns'
  BY <1>g, <1>t, <1>f, <1>s, <1>u, Pieces DEF LastStartRuns, Elapsed
<1> QED  BY <1>4, <1>5, <1>6, <1>7, <1>8

(* The caller of a Start leaves.                                           *)
LEMMA CallerInv == ASSUME TokenInv, NEW s \in Starts, CallerEnds(s) PROVE TokenInv'
<1> USE DEF TokenInv, TokenTypeOK, CallerEnds
<1>1. TokenTypeOK'  OBVIOUS
<1>2. Granted' /\ Ticking'  BY DEF Granted, Ticking
<1>3. Numbered'  BY DEF Numbered
<1>4. LastStartRuns'
  <2>1. /\ tokGone' = tokGone \cup {s} /\ s \in tokGone'
        /\ \A t \in Starts : t # s => tokCtx'[t] = tokCtx[t]
        /\ UNCHANGED <<tokStatus, tokStarts, tokLoop, tokTick, tokFetch, tokStored,
                       tokStopping, tokOverlap>>
    OBVIOUS
  <2> HIDE DEF TokenTypeOK, CallerEnds
  <2> QED  BY <2>1 DEF LastStartRuns
<1> QED  BY <1>1, <1>2, <1>3, <1>4

LEMMA TokenStutters == TokenInv /\ UNCHANGED tokVars => TokenInv'
BY DEF tokVars, TokenInv, TokenTypeOK, Granted, Ticking, Numbered, LastStartRuns

LEMMA TokenStepInv == TokenInv /\ [TokenNext]_tokVars => TokenInv'
BY StartChannelInv, StopInv, StartStepInv, LoopStepInv, ClockInv, CallerInv, TokenStutters
   DEF TokenNext, TokenStep

(* While calls do not overlap a running channel has a live loop, and its   *)
(* token lasts beyond the loop's next tick and request.                    *)
THEOREM TokenInductive == TokenSpec => []TokenInv
<1> QED  BY TokenInitInv, TokenStepInv, PTL DEF TokenSpec

(* Timers, requests and tokens stay within their bounds.                   *)
THEOREM TokenTypeCorrect == TokenSpec => []TokenTypeOK
<1>1. TokenInv => TokenTypeOK  BY DEF TokenInv
<1> QED  BY <1>1, TokenInductive, PTL

(* For any number of restarts and failures: a running channel has a token  *)
(* that getToken hands out, and the platform accepts what it hands out.    *)
THEOREM TokenIsGood == TokenSpec => []TokenHolds
<1>1. TokenInv => TokenHolds
  BY DEF TokenInv, TokenTypeOK, Granted, LastStartRuns, TokenHolds, RunningTokenIsFresh,
         StoredTokenIsGood
<1> QED  BY <1>1, TokenInductive, PTL
=============================================================================
