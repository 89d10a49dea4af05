---------------------------- MODULE TokenRefresh ----------------------------
(***************************************************************************)
(* The life cycle of the Feishu and WeChat channels, which are the same in *)
(* this respect: Start fetches an access token and starts a loop that      *)
(* fetches a new one every Period; Stop cancels the context of the last    *)
(* Start. That context is a child of the caller's, so the loop also ends   *)
(* when the caller's does. A failed refresh puts the channel into the      *)
(* status "error", in which Stop refuses and Start does not, so the old    *)
(* loop lives on beside the new one.                                       *)
(*                                                                         *)
(* Time is counted down: how long the stored token is taken to last, how   *)
(* long the platform still accepts it, when a ticker fires, and when the   *)
(* timeout of a request (30 s in both files) ends it.                      *)
(***************************************************************************)
EXTENDS Integers, FiniteSets

CONSTANTS
    MaxStarts,   \* bound: calls of Start that get past the status test
    Period,      \* tokenRefreshInterval, 90 minutes
    Lives,       \* what expires_in may say; 0 when the answer has no token
    Margin,      \* the 300 seconds taken off it
    MaxFetch     \* the timeout of a request, 30 seconds

ASSUME TokenTimes ==
    /\ MaxStarts \in Nat \ {0}
    /\ {Period, Margin, MaxFetch} \subseteq Nat /\ Lives \subseteq Nat
    /\ MaxFetch < Period
    /\ MaxFetch <= Margin

VARIABLES
    tokStatus,   \* BaseChannel.status
    tokStarts,   \* starts so far; each has its context and its loop
    tokCancel,   \* the start whose cancel function Channel.cancel holds
    tokLoop,     \* per start: what Start or its loop is doing
    tokCtx,      \* per start: its context is alive
    tokTick,     \* per start: time to the next tick of its ticker
    tokFetch,    \* per start: time left to its request, and the answer it gets
    tokStored,   \* Channel.token: what it is taken to last, what it really lasts
    tokGone,     \* history: the starts whose caller's context has ended
    tokStopping, \* Stop has cancelled and not yet set the status
    tokOverlap   \* history: two Starts, or a Start and a Stop, overlapped

tokVars == <<tokStatus, tokStarts, tokCancel, tokLoop, tokCtx, tokTick,
             tokFetch, tokStored, tokGone, tokStopping, tokOverlap>>

Starts == 1 .. MaxStarts

\* "first" and "store" are inside Start, the others in tokenRefreshLoop.
LoopStates == {"none", "first", "store", "wait", "fetch", "done"}

InStart(s) == tokLoop[s] \in {"first", "store"}
Alive(s)   == tokLoop[s] \in {"wait", "fetch"}

\* Between two requests there is none; what the last one brought is forgotten.
NoRequest == [left |-> 0, expire |-> 0, good |-> -1]

Ended(s) == tokFetch' = [tokFetch EXCEPT ![s] = NoRequest]

TokenInit ==
    /\ tokStatus = "stopped" /\ tokStarts = 0 /\ tokCancel = 0
    /\ tokLoop = [s \in Starts |-> "none"]
    /\ tokCtx = [s \in Starts |-> TRUE]
    /\ tokTick = [s \in Starts |-> Period]
    /\ tokFetch = [s \in Starts |-> NoRequest]
    /\ tokStored = [left |-> -1, expire |-> 0, good |-> -1]
    /\ tokGone = {}
    /\ tokStopping = FALSE /\ tokOverlap = FALSE

(***************************************************************************)
(* Start and Stop.                                                         *)
(***************************************************************************)
Asking == [left |-> MaxFetch, expire |-> 0, good |-> -1]

StartChannel ==
    /\ tokStatus # "running"
    /\ tokStarts < MaxStarts
    /\ LET s == tokStarts + 1 IN
         /\ tokStarts' = s /\ tokCancel' = s
         /\ tokLoop' = [tokLoop EXCEPT ![s] = "first"]
         /\ tokFetch' = [tokFetch EXCEPT ![s] = Asking]
    /\ tokOverlap' = (tokOverlap \/ tokStopping \/ \E s \in Starts : InStart(s))
    /\ UNCHANGED <<tokStatus, tokCtx, tokTick, tokStored, tokGone, tokStopping>>

\* The first request fails: Start returns the error and cancels nothing.
StartFails(s) ==
    /\ tokLoop[s] = "first"
    /\ tokLoop' = [tokLoop EXCEPT ![s] = "done"]
    /\ Ended(s)
    /\ UNCHANGED <<tokStatus, tokStarts, tokCancel, tokCtx, tokTick,
                   tokStored, tokGone, tokStopping, tokOverlap>>

\* The token is stored; what it lasts is counted from now, not from its issue.
\* An answer that grants less than the margin is stored as expired; so is one
\* with neither a code nor a token, which is no error (feishu.go:394).
Lasts(life) == IF life > Margin THEN life - Margin ELSE 0

StoredNow(s) == [left   |-> Lasts(tokFetch[s].expire),
                 expire |-> tokFetch[s].expire, good |-> tokFetch[s].good]

StartStores(s) ==
    /\ tokLoop[s] = "first"
    /\ tokFetch[s].good >= 0
    /\ tokStored' = StoredNow(s)
    /\ tokLoop' = [tokLoop EXCEPT ![s] = "store"]
    /\ Ended(s)
    /\ UNCHANGED <<tokStatus, tokStarts, tokCancel, tokCtx, tokTick,
                   tokGone, tokStopping, tokOverlap>>

\* go tokenRefreshLoop(ctx), then SetStatus(running).
StartRuns(s) ==
    /\ tokLoop[s] = "store"
    /\ tokLoop' = [tokLoop EXCEPT ![s] = "wait"]
    /\ tokTick' = [tokTick EXCEPT ![s] = Period]
    /\ tokStatus' = "running"
    /\ UNCHANGED <<tokStarts, tokCancel, tokCtx, tokFetch, tokStored,
                   tokGone, tokStopping, tokOverlap>>

StopCancels ==
    /\ tokStatus = "running" /\ ~tokStopping
    /\ tokCtx' = [tokCtx EXCEPT ![tokCancel] = FALSE]
    /\ tokStopping' = TRUE
    /\ tokOverlap' = (tokOverlap \/ \E s \in Starts : InStart(s))
    /\ UNCHANGED <<tokStatus, tokStarts, tokCancel, tokLoop, tokTick, tokFetch,
                   tokStored, tokGone>>

StopSets ==
    /\ tokStopping
    /\ tokStopping' = FALSE
    /\ tokStatus' = "stopped"
    /\ UNCHANGED <<tokStarts, tokCancel, tokLoop, tokCtx, tokTick, tokFetch,
                   tokStored, tokGone, tokOverlap>>

\* The context the caller gave to Start is cancelled or times out.  Start's
\* own request and its loop hang on it; the status does not.
CallerEnds(s) ==
    /\ s <= tokStarts /\ tokCtx[s] /\ tokLoop[s] # "done"
    /\ tokCtx' = [tokCtx EXCEPT ![s] = FALSE]
    /\ tokGone' = tokGone \cup {s}
    /\ UNCHANGED <<tokStatus, tokStarts, tokCancel, tokLoop, tokTick, tokFetch,
                   tokStored, tokStopping, tokOverlap>>

(***************************************************************************)
(* The loop.  A refresh in flight does not watch the loop's context.       *)
(***************************************************************************)
LoopTicks(s) ==
    /\ tokLoop[s] = "wait" /\ tokTick[s] = 0
    /\ tokTick' = [tokTick EXCEPT ![s] = Period]
    /\ tokFetch' = [tokFetch EXCEPT ![s] = Asking]
    /\ tokLoop' = [tokLoop EXCEPT ![s] = "fetch"]
    /\ UNCHANGED <<tokStatus, tokStarts, tokCancel, tokCtx, tokStored,
                   tokGone, tokStopping, tokOverlap>>

LoopStores(s) ==
    /\ tokLoop[s] = "fetch" /\ tokFetch[s].good >= 0
    /\ tokStored' = StoredNow(s)
    /\ tokLoop' = [tokLoop EXCEPT ![s] = "wait"]
    /\ Ended(s)
    /\ UNCHANGED <<tokStatus, tokStarts, tokCancel, tokCtx, tokTick,
                   tokGone, tokStopping, tokOverlap>>

\* Mutant: a refresh that failed leaves the channel running.
LoopFailsSilently(s) ==
    /\ tokLoop[s] = "fetch"
    /\ tokLoop' = [tokLoop EXCEPT ![s] = "wait"]
    /\ Ended(s)
    /\ UNCHANGED <<tokStatus, tokStarts, tokCancel, tokCtx, tokTick,
                   tokStored, tokGone, tokStopping, tokOverlap>>

LoopFails(s) ==
    /\ tokLoop[s] = "fetch"
    /\ tokStatus' = "error"
    /\ tokLoop' = [tokLoop EXCEPT ![s] = "wait"]
    /\ Ended(s)
    /\ UNCHANGED <<tokStarts, tokCancel, tokCtx, tokTick, tokStored,
                   tokGone, tokStopping, tokOverlap>>

LoopEnds(s) ==
    /\ tokLoop[s] = "wait" /\ ~tokCtx[s]
    /\ tokLoop' = [tokLoop EXCEPT ![s] = "done"]
    /\ UNCHANGED <<tokStatus, tokStarts, tokCancel, tokCtx, tokTick, tokFetch,
                   tokStored, tokGone, tokStopping, tokOverlap>>

(***************************************************************************)
(* The platform grants a token, or another server answers with an object   *)
(* that has none, some time before the answer is stored.                   *)
(***************************************************************************)
TokenIssued(s) ==
    /\ tokLoop[s] \in {"first", "fetch"} /\ tokFetch[s].good < 0
    /\ \E life \in Lives :
         tokFetch' = [tokFetch EXCEPT ![s].expire = life, ![s].good = life]
    /\ UNCHANGED <<tokStatus, tokStarts, tokCancel, tokLoop, tokCtx, tokTick,
                   tokStored, tokGone, tokStopping, tokOverlap>>

\* One unit of time.  A ticker fires when it is due, a request that has used
\* up its time has ended, and what Start and Stop do between two of their
\* steps takes no time.
Elapsed(n) == IF n > 0 THEN n - 1 ELSE n

TokenClock ==
    /\ ~tokStopping
    /\ \A s \in Starts :
         /\ tokLoop[s] # "store"
         /\ tokLoop[s] = "wait" => tokTick[s] > 0
         /\ tokLoop[s] \in {"first", "fetch"} => tokFetch[s].left > 0
    /\ tokTick' = [s \in Starts |-> IF Alive(s) THEN tokTick[s] - 1 ELSE tokTick[s]]
    /\ tokFetch' = [s \in Starts |->
         IF tokLoop[s] \in {"first", "fetch"}
         THEN [tokFetch[s] EXCEPT !.left = @ - 1, !.good = Elapsed(@)]
         ELSE tokFetch[s]]
    /\ tokStored' = [tokStored EXCEPT !.left = Elapsed(@), !.good = Elapsed(@)]
    /\ UNCHANGED <<tokStatus, tokStarts, tokCancel, tokLoop, tokCtx,
                   tokGone, tokStopping, tokOverlap>>

TokenStep(s) ==
    \/ StartFails(s) \/ StartStores(s) \/ StartRuns(s)
    \/ LoopTicks(s) \/ LoopStores(s) \/ LoopFails(s) \/ LoopEnds(s)
    \/ TokenIssued(s) \/ CallerEnds(s)

TokenNext ==
    \/ StartChannel \/ StopCancels \/ StopSets \/ TokenClock
    \/ \E s \in Starts : TokenStep(s)

TokenSpec == TokenInit /\ [][TokenNext]_tokVars

-----------------------------------------------------------------------------
TokenTypeOK ==
    /\ tokStatus \in {"stopped", "running", "error"}
    /\ tokStarts \in 0 .. MaxStarts /\ tokCancel \in 0 .. MaxStarts
    /\ tokLoop \in [Starts -> LoopStates]
    /\ tokCtx \in [Starts -> BOOLEAN]
    /\ tokTick \in [Starts -> 0 .. Period]
    /\ tokFetch \in [Starts -> [left : 0 .. MaxFetch, expire : Lives \cup {0},
                                good : Nat \cup {-1}]]
    /\ tokStored \in [left : Nat \cup {-1}, expire : Lives \cup {0},
                      good : Nat \cup {-1}]
    /\ tokGone \subseteq Starts
    /\ {tokStopping, tokOverlap} \subseteq BOOLEAN

\* What was granted lasts, less the margin, until the next refresh has ended.
LongEnough(life) == life - Margin > Period + MaxFetch

\* A running channel whose caller still wants it and whose last answer granted
\* enough never refuses to send for want of a token.
RunningTokenIsFresh ==
    (/\ tokStatus = "running" /\ ~tokStopping /\ ~tokOverlap
     /\ tokStarts \notin tokGone
     /\ tokStored.left >= 0 => LongEnough(tokStored.expire))
      => tokStored.left > 0

\* A token getToken hands out is one the platform still accepts.
StoredTokenIsGood == tokStored.left > 0 => tokStored.good > 0

(***************************************************************************)
(* The loop renews the token before getToken takes it for expired,         *)
(* whatever failed earlier and however often the channel was stopped and   *)
(* started; and getToken takes it for expired before the platform does,    *)
(* whatever it was granted for, although its life is counted from the      *)
(* moment it is stored and a leaked loop may store an older token over a   *)
(* newer one.  Three things void the first half: overlapping Starts, one   *)
(* of which may be stopped through the other's cancel function; the end of *)
(* the context the last Start was given, which ends its loop; and an       *)
(* answer that grants less than a period, or nothing.                      *)
(***************************************************************************)
TokenHolds == RunningTokenIsFresh /\ StoredTokenIsGood
=============================================================================
