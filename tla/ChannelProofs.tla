---------------------------- MODULE ChannelProofs ----------------------------
(***************************************************************************)
(* Proofs about the channel registry, for any channels and names; about    *)
(* the life cycle of the iMessage channel, for any number of calls; about  *)
(* the Telegram poller, for any updates and pollers; about the adapters,   *)
(* for whatever comes in; and about all of them and the token refresh side *)
(* by side, as MCChannels runs them.                                       *)
(***************************************************************************)
EXTENDS MCChannels, TokenRefreshProofs, FiniteSetTheorems, SequenceTheorems, TLAPS

(***************************************************************************)
(* ChannelRegistry.  What the last StopAll has not come to yet is in       *)
(* rgTodo; whatever else of its copy runs could not be stopped or was      *)
(* started by somebody else.                                               *)
(***************************************************************************)
WalkedOver ==
    /\ rgCopy \cap rgUp \subseteq rgTodo["StopAll"] \cup rgStuck \cup rgTouched
    /\ ~rgWalk["StopAll"] => rgTodo["StopAll"] = {}
    /\ rgResult["StopAll"] \in {"none", "nil"} => rgStuck = {}

RegistryInv == RegistryTypeOK /\ WalkedOver

LEMMA RegistryInitInv == RegistryInit => RegistryInv
<1> SUFFICES ASSUME RegistryInit PROVE RegistryInv  OBVIOUS
<1>1. RegistryTypeOK  BY DEF RegistryInit, RegistryTypeOK, AllOps
<1>2. WalkedOver  BY DEF RegistryInit, WalkedOver, AllOps
<1> QED  BY <1>1, <1>2 DEF RegistryInv

(* A Start or a Stop moves its own channel only; a Stop that worked has    *)
(* left it stopped.                                                        *)
LEMMA OneChannelMoves ==
  ASSUME NEW c \in Chans, rgUp \subseteq Chans, NEW r \in StartOf(c) \cup StopOf(c)
  PROVE  /\ r.up \subseteq Chans
         /\ r.up \ {c} = rgUp \ {c}
         /\ r.ok \in BOOLEAN
         /\ r \in StopOf(c) /\ r.ok => c \notin r.up
<1>1. CASE r = [up |-> rgUp, ok |-> FALSE]  BY <1>1
<1>2. CASE r = [up |-> rgUp \cup {c}, ok |-> TRUE] /\ c \notin rgUp
  <2>1. r \notin StopOf(c)
    <3>1. r.up = rgUp \cup {c}  BY <1>2
    <3>2. r.up # rgUp /\ r.up # rgUp \ {c}  BY <1>2, <3>1
    <3>3. \A q \in StopOf(c) : q.up \in {rgUp, rgUp \ {c}}  BY DEF StopOf
    <3> QED  BY <3>2, <3>3
  <2> QED  BY <1>2, <2>1
<1>3. CASE r = [up |-> rgUp \ {c}, ok |-> TRUE]  BY <1>3
<1> QED  BY <1>1, <1>2, <1>3 DEF StartOf, StopOf

LEMMA TableInv ==
  ASSUME RegistryInv, NEW c \in Chans, Register(c) \/ Unregister(c)
  PROVE  RegistryInv'
BY DEF RegistryInv, RegistryTypeOK, WalkedOver, Register, Unregister

LEMMA ByHandInv ==
  ASSUME RegistryInv, NEW c \in Chans, ByHand(c)
  PROVE  RegistryInv'
<1>1. PICK r \in StartOf(c) \cup StopOf(c) : rgUp' = r.up  BY DEF ByHand
<1>2. rgUp' \subseteq Chans /\ rgUp' \ {c} = rgUp \ {c}
  BY <1>1, OneChannelMoves DEF RegistryInv, RegistryTypeOK
<1>3. rgTouched' = rgTouched \cup ({c} \cap rgCopy)
      /\ UNCHANGED <<rgTable, rgWalk, rgTodo, rgResult, rgCopy, rgStuck>>
  BY DEF ByHand
<1> QED  BY <1>2, <1>3 DEF RegistryInv, RegistryTypeOK, WalkedOver

LEMMA CopiesInv ==
  ASSUME RegistryInv, NEW o \in AllOps, Copies(o)
  PROVE  RegistryInv'
<1> USE DEF AllOps
<1>1. CASE o = "StopAll"
  BY <1>1 DEF Copies, RegistryInv, RegistryTypeOK, WalkedOver
<1>2. CASE o = "StartAll"
  BY <1>2 DEF Copies, RegistryInv, RegistryTypeOK, WalkedOver
<1> QED  BY <1>1, <1>2

LEMMA StartNextInv ==
  ASSUME RegistryInv, NEW c \in Chans, StartNext(c)
  PROVE  RegistryInv'
<1> USE DEF AllOps
<1>1. PICK r \in StartOf(c) :
        /\ rgUp' = r.up
        /\ rgWalk' = [rgWalk EXCEPT !["StartAll"] = r.ok]
        /\ rgResult' = [rgResult EXCEPT !["StartAll"] = IF r.ok THEN @ ELSE "error"]
  BY DEF StartNext
<1>2. rgUp' \subseteq Chans /\ rgUp' \ {c} = rgUp \ {c} /\ r.ok \in BOOLEAN
  BY <1>1, OneChannelMoves DEF RegistryInv, RegistryTypeOK
<1>3. /\ rgTodo' = [rgTodo EXCEPT !["StartAll"] = @ \ {c}]
      /\ rgTouched' = rgTouched \cup ({c} \cap rgCopy)
      /\ UNCHANGED <<rgTable, rgCopy, rgStuck>>
  BY DEF StartNext
<1>4. RegistryTypeOK'  BY <1>1, <1>2, <1>3 DEF RegistryInv, RegistryTypeOK
<1>5. WalkedOver'
  BY <1>1, <1>2, <1>3 DEF RegistryInv, RegistryTypeOK, WalkedOver
<1> QED  BY <1>4, <1>5 DEF RegistryInv

LEMMA StopNextInv ==
  ASSUME RegistryInv, NEW c \in Chans, StopNext(c)
  PROVE  RegistryInv'
<1> USE DEF AllOps
<1>1. PICK r \in StopOf(c) :
        /\ rgUp' = r.up
        /\ rgResult' = [rgResult EXCEPT !["StopAll"] = IF r.ok THEN @ ELSE "error"]
        /\ rgStuck' = IF r.ok THEN rgStuck ELSE rgStuck \cup {c}
  BY DEF StopNext
<1>2. /\ rgUp' \subseteq Chans /\ rgUp' \ {c} = rgUp \ {c} /\ r.ok \in BOOLEAN
      /\ r.ok => c \notin rgUp'
  BY <1>1, OneChannelMoves DEF RegistryInv, RegistryTypeOK
<1>3. /\ rgTodo' = [rgTodo EXCEPT !["StopAll"] = @ \ {c}]
      /\ rgWalk["StopAll"]
      /\ UNCHANGED <<rgTable, rgWalk, rgCopy, rgTouched>>
  BY DEF StopNext
<1>4. RegistryTypeOK'  BY <1>1, <1>2, <1>3 DEF RegistryInv, RegistryTypeOK
<1>5. WalkedOver'
  BY <1>1, <1>2, <1>3 DEF RegistryInv, RegistryTypeOK, WalkedOver
<1> QED  BY <1>4, <1>5 DEF RegistryInv

LEMMA WalkEndsInv ==
  ASSUME RegistryInv, NEW o \in AllOps, WalkEnds(o)
  PROVE  RegistryInv'
<1> USE DEF AllOps
<1>1. CASE o = "StopAll"
  BY <1>1 DEF WalkEnds, RegistryInv, RegistryTypeOK, WalkedOver
<1>2. CASE o = "StartAll"
  BY <1>2 DEF WalkEnds, RegistryInv, RegistryTypeOK, WalkedOver
<1> QED  BY <1>1, <1>2

LEMMA RegistryStepInv == RegistryInv /\ [RegistryNext]_rgVars => RegistryInv'
<1>1. RegistryInv /\ UNCHANGED rgVars => RegistryInv'
  BY DEF rgVars, RegistryInv, RegistryTypeOK, WalkedOver
<1> QED
  BY <1>1, TableInv, ByHandInv, CopiesInv, StartNextInv, StopNextInv, WalkEndsInv
     DEF RegistryNext

(* The table has one channel per name, and what StopAll has passed is      *)
(* stopped, touched by somebody else, or could not be stopped.             *)
THEOREM RegistryInductive == RegistrySpec => []RegistryInv
<1> QED  BY RegistryInitInv, RegistryStepInv, PTL DEF RegistrySpec

(* Whatever is registered meanwhile, no two channels share a name.         *)
THEOREM RegistryTypeCorrect == RegistrySpec => []RegistryTypeOK
<1>1. RegistryInv => RegistryTypeOK  BY DEF RegistryInv
<1> QED  BY <1>1, RegistryInductive, PTL

(* StopAll leaves running only what could not be stopped or was started by *)
(* somebody else, for any number of channels and any interleaving of calls.*)
THEOREM StopAllIsThorough == RegistrySpec => []StopAllStopsTheRest
<1>1. RegistryInv => StopAllStopsTheRest
  BY DEF RegistryInv, WalkedOver, StopAllStopsTheRest
<1> QED  BY <1>1, RegistryInductive, PTL

-----------------------------------------------------------------------------
(***************************************************************************)
(* IMessageLife.  Without an overlap a Start has the channel to itself, so *)
(* what it has done so far stays done.                                     *)
(***************************************************************************)
StartUndisturbed ==
    ~imOverlap =>
      /\ imStart = "idle" \/ imStop = "idle"
      /\ imStart # "idle" => imHandler
      /\ imStart \in {"watch", "status"} => imClient
      /\ imStatus = "running" /\ imStop = "idle" => imClient /\ imHandler

IMessageInv == IMessageTypeOK /\ StartUndisturbed

LEMMA IMessageStepInv == IMessageInv /\ [IMessageNext]_imVars => IMessageInv'
<1> SUFFICES ASSUME IMessageInv, [IMessageNext]_imVars PROVE IMessageInv'  OBVIOUS
<1> USE IMessageBounds DEF IMessageInv, IMessageTypeOK, StartUndisturbed
<1>1. CASE IMessageStarts
  <2>1. imOverlap' \in BOOLEAN /\ (~imOverlap' => ~imOverlap /\ imStop = "idle")
    BY <1>1, Zenon DEF IMessageStarts
  <2> QED  BY <1>1, <2>1 DEF IMessageStarts
<1>2. CASE ClientStarts  BY <1>2 DEF ClientStarts
<1>3. CASE ClientRefuses  BY <1>3 DEF ClientRefuses
<1>4. CASE StartWatches  BY <1>4 DEF StartWatches
<1>5. CASE IMessageRuns  BY <1>5 DEF IMessageRuns
<1>6. CASE WatcherEnds  BY <1>6 DEF WatcherEnds
<1>7. CASE IMessageStops
  <2>1. imOverlap' \in BOOLEAN /\ (~imOverlap' => ~imOverlap /\ imStart = "idle")
    BY <1>7, Zenon DEF IMessageStops
  <2>2. imPanic' \in BOOLEAN  BY <1>7, Zenon DEF IMessageStops
  <2>3. /\ imCalls < MaxCalls /\ imCalls' = imCalls + 1
        /\ imStopCh' = FALSE /\ imStop' = "waits"
        /\ UNCHANGED <<imStatus, imHandler, imClient, imClientCh, imWatch, imStart>>
    BY <1>7 DEF IMessageStops
  <2>4. imStopCh' \in BOOLEAN  BY <2>3, Zenon
  <2>5. IMessageTypeOK'  BY <2>1, <2>2, <2>3, <2>4
  <2>6. StartUndisturbed'  BY <2>1, <2>3
  <2> QED  BY <2>5, <2>6
<1>8. CASE ClientStops
  <2>1. imPanic' \in BOOLEAN /\ imClientCh' \in BOOLEAN  BY <1>8, Zenon DEF ClientStops
  <2> QED  BY <1>8, <2>1 DEF ClientStops
<1>9. CASE StopEnds  BY <1>9 DEF StopEnds
<1>10. CASE UNCHANGED imVars  BY <1>10 DEF imVars
<1> QED
  BY <1>1, <1>2, <1>3, <1>4, <1>5, <1>6, <1>7, <1>8, <1>9, <1>10 DEF IMessageNext

LEMMA IMessageInitInv == IMessageInit => IMessageInv
<1> SUFFICES ASSUME IMessageInit PROVE IMessageInv  OBVIOUS
<1>1. {imHandler, imStopCh, imClient, imClientCh, imWatch, imOverlap, imPanic}
        \subseteq BOOLEAN
  BY Zenon DEF IMessageInit
<1> QED
  BY <1>1, IMessageBounds DEF IMessageInit, IMessageInv, IMessageTypeOK, StartUndisturbed

(* In every step of Start and Stop the client, the handler and the status  *)
(* are what the calls so far have made of them.                            *)
THEOREM IMessageInductive == IMessageSpec => []IMessageInv
<1> QED  BY IMessageInitInv, IMessageStepInv, PTL DEF IMessageSpec

(* A running channel has its client and its handler, however often it was  *)
(* started and stopped and whichever Start failed.                         *)
THEOREM RunningIsServed == IMessageSpec => []RunningHasClient
<1>1. IMessageInv => RunningHasClient
  BY DEF IMessageInv, StartUndisturbed, RunningHasClient
<1> QED  BY <1>1, IMessageInductive, PTL

-----------------------------------------------------------------------------
(***************************************************************************)
(* TelegramPoll.  Telegram and the pollers forget only what is settled: an *)
(* update below an offset, and one that a batch has left out, is no longer *)
(* due, so that whichever poller asks next may confirm it.                 *)
(***************************************************************************)
Settled(u) == tgGiven[u] > 0 \/ u \in Unparsable \cup tgNoHandler

ForgottenIsSettled ==
    /\ tgQueue \subseteq 1 .. tgSent
    /\ \A u \in 1 .. tgSent : u \notin tgQueue => Settled(u)

OffsetIsSettled ==
    \A p \in Pollers :
      /\ tgOffset[p] <= tgSent + 1
      /\ \A u \in 1 .. tgSent : u < tgOffset[p] => Settled(u)

\* A batch goes up, and what it leaves out below one of its updates is settled.
Orderly(b) ==
    /\ InOrder(b)
    /\ \A i \in DOMAIN b :
         /\ b[i] \in 1 .. tgSent
         /\ \A u \in 1 .. tgSent :
              u < b[i] => Settled(u) \/ \E j \in DOMAIN b : b[j] = u

BatchIsSettled == \A p \in Pollers : Orderly(tgBatch[p])

TelegramInv == TelegramTypeOK /\ ForgottenIsSettled /\ OffsetIsSettled /\ BatchIsSettled

LEMMA TelegramInitInv == TelegramInit => TelegramInv
<1> SUFFICES ASSUME TelegramInit PROVE TelegramInv  OBVIOUS
<1> USE TelegramBounds
<1>1. {tgHandler, tgOverlap} \subseteq BOOLEAN  BY Zenon DEF TelegramInit
<1>2. TelegramTypeOK  BY <1>1 DEF TelegramInit, TelegramTypeOK, Pollers, Updates
<1>3. ForgottenIsSettled /\ OffsetIsSettled
  BY DEF TelegramInit, ForgottenIsSettled, OffsetIsSettled
<1>4. BatchIsSettled  BY DEF TelegramInit, BatchIsSettled, Orderly, InOrder
<1> QED  BY <1>2, <1>3, <1>4 DEF TelegramInv

(* An enumeration of a finite set leaves none of its elements out.         *)
LEMMA ListsAll ==
  ASSUME NEW S \in SUBSET Updates, NEW b \in SetToSeqs(S)
  PROVE  b \in Seq(S) /\ \A u \in S : \E j \in DOMAIN b : b[j] = u
<1> DEFINE D == 1 .. Cardinality(S)
<1>1. IsFiniteSet(S) /\ Cardinality(S) \in Nat
  <2>1. IsFiniteSet(Updates)  BY TelegramBounds, FS_Interval DEF Updates
  <2> QED  BY <2>1, FS_Subset, FS_CardinalityType
<1>2. b \in [D -> S] /\ \A i, j \in D : i # j => b[i] # b[j]  BY DEF SetToSeqs
<1>3. b \in Injection(D, S)  BY <1>2 DEF Injection, IsInjective
<1>4. IsFiniteSet(D) /\ Cardinality(D) = Cardinality(S)
  <2>1. /\ IsFiniteSet(1 .. Cardinality(S))
        /\ Cardinality(1 .. Cardinality(S)) =
             IF 1 > Cardinality(S) THEN 0 ELSE Cardinality(S) - 1 + 1
    BY <1>1, FS_Interval
  <2> QED  BY <1>1, <2>1
<1>5. b \in Surjection(D, S)
  BY <1>1, <1>3, <1>4, FS_Injection
<1> QED  BY <1>1, <1>2, <1>5 DEF Surjection

(* What is settled stays settled.                                          *)
LEMMA SettledStays ==
  ASSUME TelegramInv, TelegramTypeOK',
         \A u \in Updates : Settled(u) => Settled(u)',
         tgSent' = tgSent, tgQueue' = tgQueue, tgOffset' = tgOffset, tgBatch' = tgBatch
  PROVE  TelegramInv'
<1>1. \A u \in 1 .. tgSent : u \in Updates
  BY TelegramBounds DEF TelegramInv, TelegramTypeOK, Updates
<1>2. ForgottenIsSettled' /\ OffsetIsSettled'
  BY <1>1 DEF TelegramInv, ForgottenIsSettled, OffsetIsSettled
<1>3. BatchIsSettled'
  BY <1>1 DEF TelegramInv, BatchIsSettled, Orderly, InOrder
<1> QED  BY <1>2, <1>3 DEF TelegramInv

(* Start and Stop touch neither the updates nor the pollers' offsets.      *)
LEMMA LifeStepInv ==
  ASSUME TelegramInv,
         \/ StartHook \/ StopHook \/ TelegramStarts \/ TelegramStops \/ StopWaited
         \/ \E p \in Pollers : StartSetsHandler(p) \/ TelegramRuns(p) \/ CallerLeaves(p)
         \/ UNCHANGED tgVars
  PROVE  TelegramInv'
<1>1. /\ tgSent' = tgSent /\ tgQueue' = tgQueue /\ tgOffset' = tgOffset
      /\ tgBatch' = tgBatch /\ tgGiven' = tgGiven /\ tgNoHandler' = tgNoHandler
  BY DEF StartHook, StopHook, TelegramStarts, TelegramStops, StopWaited,
         StartSetsHandler, TelegramRuns, CallerLeaves, tgVars
<1>2. \A u \in Updates : Settled(u) => Settled(u)'  BY <1>1 DEF Settled
<1>3. TelegramTypeOK'
  <2> USE DEF TelegramInv, TelegramTypeOK
  <2>1. tgHandler' \in BOOLEAN /\ tgOverlap' \in BOOLEAN
    <3>1. tgHandler \in BOOLEAN /\ tgOverlap \in BOOLEAN  OBVIOUS
    <3> QED
      BY <3>1, Zenon DEF StartHook, StopHook, TelegramStarts, TelegramStops, StopWaited,
         StartSetsHandler, TelegramRuns, CallerLeaves, tgVars
  <2>2. tgHook' \in {"unused", "unset", "set"} /\ tgStatus' \in {"stopped", "running"}
        /\ tgStop' \in {"idle", "waits"}
    BY DEF StartHook, StopHook, TelegramStarts, TelegramStops, StopWaited,
         StartSetsHandler, TelegramRuns, CallerLeaves, tgVars
  <2>3. /\ tgStarted' \in Pollers \cup {0}
        /\ tgStart' \in [Pollers -> {"none", "spawned", "handler", "done"}]
        /\ tgPoller' \in [Pollers -> {"none", "loop", "asked", "batch", "done"}]
        /\ tgCtx' \in [Pollers -> BOOLEAN]
        /\ tgGone' \subseteq Pollers /\ tgBad' = tgBad
    BY DEF StartHook, StopHook, TelegramStarts, TelegramStops, StopWaited,
         StartSetsHandler, TelegramRuns, CallerLeaves, tgVars
  <2> QED  BY <1>1, <2>1, <2>2, <2>3
<1> QED  BY <1>1, <1>2, <1>3, SettledStays

(* A poller at the head of its loop changes what it does only; a request   *)
(* that fails may have been heard.                                         *)
LEMMA AskStepInv ==
  ASSUME TelegramInv, NEW p \in Pollers, PollAsks(p) \/ PollFails(p) \/ PollBatchDone(p)
  PROVE  TelegramInv'
<1>1. /\ UNCHANGED <<tgHook, tgStatus, tgHandler, tgStarted, tgStart, tgCtx, tgOffset,
                     tgBatch, tgStop, tgSent, tgBad, tgGiven, tgNoHandler, tgGone, tgOverlap>>
      /\ tgQueue' \in {tgQueue, Kept(p)}
      /\ tgPoller' \in [Pollers -> {"none", "loop", "asked", "batch", "done"}]
  BY DEF PollAsks, PollFails, PollBatchDone, TelegramInv, TelegramTypeOK
<1>2. TelegramTypeOK'
  <2>1. tgHandler' \in BOOLEAN /\ tgOverlap' \in BOOLEAN
    BY <1>1, Zenon DEF TelegramInv, TelegramTypeOK
  <2> QED  BY <1>1, <2>1 DEF TelegramInv, TelegramTypeOK, Kept
<1>3. ForgottenIsSettled'
  BY <1>1 DEF TelegramInv, TelegramTypeOK, ForgottenIsSettled, OffsetIsSettled, Kept, Settled,
     Updates
<1>4. OffsetIsSettled'  BY <1>1 DEF TelegramInv, OffsetIsSettled, Settled
<1>5. BatchIsSettled'  BY <1>1 DEF TelegramInv, BatchIsSettled, Orderly, InOrder, Settled
<1> QED  BY <1>2, <1>3, <1>4, <1>5 DEF TelegramInv

LEMMA AnswerStepInv ==
  ASSUME TelegramInv, NEW p \in Pollers, PollAnswered(p)
  PROVE  TelegramInv'
<1>1. PICK b \in SetToSeqs(Kept(p)) :
        /\ InOrder(b) /\ tgBatch' = [tgBatch EXCEPT ![p] = b]
        /\ tgQueue' = Kept(p)
        /\ tgPoller' = [tgPoller EXCEPT ![p] = "batch"]
        /\ UNCHANGED <<tgHook, tgStatus, tgHandler, tgStarted, tgStart, tgCtx, tgOffset,
                       tgStop, tgSent, tgBad, tgGiven, tgNoHandler, tgGone, tgOverlap>>
  BY DEF PollAnswered
<1>2. Kept(p) \subseteq tgQueue /\ Kept(p) \subseteq Updates
  BY DEF Kept, TelegramInv, TelegramTypeOK
<1>3. b \in Seq(Kept(p)) /\ \A u \in Kept(p) : \E j \in DOMAIN b : b[j] = u
  BY <1>2, ListsAll
<1>4. \A u \in 1 .. tgSent : u \notin Kept(p) => Settled(u)
  BY DEF TelegramInv, TelegramTypeOK, ForgottenIsSettled, OffsetIsSettled, Kept, Pollers
<1>5. \A u : Settled(u) <=> Settled(u)'  BY <1>1 DEF Settled
<1>6. TelegramTypeOK'
  <2>1. tgHandler' \in BOOLEAN /\ tgOverlap' \in BOOLEAN
    BY <1>1, Zenon DEF TelegramInv, TelegramTypeOK
  <2>2. b \in Seq(Updates)  BY <1>2, <1>3
  <2>3. tgBatch' \in [Pollers -> Seq(Updates)]
    BY <1>1, <2>2 DEF TelegramInv, TelegramTypeOK
  <2> QED  BY <1>1, <1>2, <2>1, <2>3 DEF TelegramInv, TelegramTypeOK
<1>7. ForgottenIsSettled'
  BY <1>1, <1>2, <1>4, <1>5 DEF TelegramInv, ForgottenIsSettled
<1>8. OffsetIsSettled'  BY <1>1, <1>5 DEF TelegramInv, OffsetIsSettled
<1>9. BatchIsSettled'
  <2>1. \A i \in DOMAIN b : b[i] \in 1 .. tgSent
    <3>1. \A i \in DOMAIN b : b[i] \in Kept(p)  BY <1>3
    <3>2. tgQueue \subseteq 1 .. tgSent  BY DEF TelegramInv, ForgottenIsSettled
    <3> QED  BY <1>2, <3>1, <3>2
  <2>2. Orderly(b)  BY <1>1, <1>3, <1>4, <2>1 DEF Orderly
  <2>3. \A q \in Pollers : tgBatch'[q] = IF q = p THEN b ELSE tgBatch[q]
    BY <1>1 DEF TelegramInv, TelegramTypeOK
  <2>4. \A q \in Pollers : Orderly(tgBatch'[q])
    BY <2>2, <2>3 DEF TelegramInv, BatchIsSettled
  <2>5. \A c : Orderly(c) => Orderly(c)'  BY <1>1, <1>5 DEF Orderly
  <2> QED  BY <1>5, <2>4, <1>1 DEF BatchIsSettled, Orderly
<1> QED  BY <1>6, <1>7, <1>8, <1>9 DEF TelegramInv

LEMMA HandleStepInv ==
  ASSUME TelegramInv, NEW p \in Pollers, PollHandles(p)
  PROVE  TelegramInv'
<1>0. tgBatch[p] \in Seq(Updates) /\ tgBatch[p] # <<>>
  BY DEF PollHandles, TelegramInv, TelegramTypeOK
<1>1. Head(tgBatch[p]) \in Updates  BY <1>0
<1>2. PICK b \in Seq(Updates) : b = tgBatch[p]  BY <1>0
<1>3. PICK u \in Updates : u = Head(b)  BY <1>1, <1>2
<1>4. /\ b # <<>>
      /\ tgOffset' = [tgOffset EXCEPT ![p] = u + 1]
      /\ IF u \notin Unparsable /\ tgHandler
           THEN tgGiven' = [tgGiven EXCEPT ![u] = @ + 1]
           ELSE UNCHANGED tgGiven
      /\ tgNoHandler' = IF u \notin Unparsable /\ ~tgHandler
                          THEN tgNoHandler \cup {u} ELSE tgNoHandler
      /\ tgBatch' = [tgBatch EXCEPT ![p] = Tail(b)]
      /\ UNCHANGED <<tgHook, tgStatus, tgHandler, tgStarted, tgStart, tgPoller, tgCtx,
                     tgStop, tgSent, tgQueue, tgBad, tgGone, tgOverlap>>
  BY <1>2, <1>3 DEF PollHandles
<1>5. Orderly(b)  BY <1>2 DEF TelegramInv, BatchIsSettled
<1>6. /\ Tail(b) \in Seq(Updates) /\ Len(Tail(b)) = Len(b) - 1 /\ u = b[1]
      /\ \A i \in DOMAIN Tail(b) :
           i \in Nat /\ i > 0 /\ i + 1 \in DOMAIN b /\ Tail(b)[i] = b[i + 1]
      /\ 1 \in DOMAIN b /\ u \in Updates
      /\ \A i \in DOMAIN b : i = 1 \/ (i - 1 \in DOMAIN Tail(b) /\ b[i] = Tail(b)[i - 1])
  <2>1. Len(b) \in Nat /\ Len(b) > 0 /\ DOMAIN b = 1 .. Len(b)  BY <1>4, <1>2
  <2>2. /\ Tail(b) \in Seq(Updates) /\ Len(Tail(b)) = Len(b) - 1 /\ u \in Updates
        /\ \A i \in 1 .. Len(Tail(b)) : Tail(b)[i] = b[i + 1]
    BY <1>4, <1>3, HeadTailProperties
  <2>3. DOMAIN Tail(b) = 1 .. Len(b) - 1  BY <2>2
  <2>4. u = b[1]  BY <1>4, <1>3
  <2>5. \A i \in DOMAIN Tail(b) :
          i \in Nat /\ i > 0 /\ i + 1 \in DOMAIN b /\ Tail(b)[i] = b[i + 1]
    BY <2>1, <2>2, <2>3
  <2>6. \A i \in DOMAIN b : i = 1 \/ (i - 1 \in DOMAIN Tail(b) /\ b[i] = Tail(b)[i - 1])
    <3> SUFFICES ASSUME NEW i \in DOMAIN b, i # 1
                 PROVE  i - 1 \in DOMAIN Tail(b) /\ b[i] = Tail(b)[i - 1]
      OBVIOUS
    <3>1. i - 1 \in DOMAIN Tail(b) /\ (i - 1) + 1 = i  BY <2>1, <2>3
    <3> QED  BY <2>5, <3>1
  <2> QED  BY <2>1, <2>2, <2>4, <2>5, <2>6
<1>7. u \in 1 .. tgSent /\ tgSent \in Nat
  BY <1>6, <1>5 DEF TelegramInv, TelegramTypeOK, Orderly
<1>8. \A v \in 1 .. tgSent : v < u => Settled(v)
  <2> SUFFICES ASSUME NEW v \in 1 .. tgSent, v < u, ~Settled(v) PROVE FALSE  OBVIOUS
  <2>1. PICK j \in DOMAIN b : b[j] = v
    BY <1>6, <1>5 DEF Orderly
  <2>2. j = 1 \/ 1 < j  BY <1>2
  <2>3. InOrder(b)  BY <1>5 DEF Orderly
  <2>4. 1 < j => u < v  BY <1>6, <2>1, <2>3 DEF InOrder
  <2> QED  BY <1>6, <1>7, <2>1, <2>2, <2>4
<1>9. Settled(u)' /\ \A v \in Updates : Settled(v) => Settled(v)'
  <2> USE DEF TelegramInv, TelegramTypeOK
  <2>1. CASE u \in Unparsable  BY <1>4, <1>6, <2>1 DEF Settled
  <2>2. CASE u \notin Unparsable /\ tgHandler
    <3>1. tgGiven' = [tgGiven EXCEPT ![u] = @ + 1] /\ tgNoHandler' = tgNoHandler
      BY <1>4, <2>2
    <3> QED  BY <1>6, <3>1 DEF Settled
  <2>3. CASE u \notin Unparsable /\ ~tgHandler
    <3>1. tgGiven' = tgGiven /\ tgNoHandler' = tgNoHandler \cup {u}  BY <1>4, <2>3
    <3> QED  BY <3>1 DEF Settled
  <2> QED  BY <2>1, <2>2, <2>3
<1>10. TelegramTypeOK'
  <2> USE DEF TelegramInv, TelegramTypeOK
  <2>1. tgHandler' \in BOOLEAN /\ tgOverlap' \in BOOLEAN  BY <1>4, Zenon
  <2>2. tgBatch' \in [Pollers -> Seq(Updates)]  BY <1>4, <1>6
  <2>3. tgOffset' \in [Pollers -> 0 .. MaxUpdates + 1]
    <3>1. u + 1 \in 0 .. MaxUpdates + 1  BY TelegramBounds DEF Updates
    <3> QED  BY <1>4, <3>1
  <2>4. tgGiven' \in [Updates -> Nat] /\ tgNoHandler' \subseteq Updates
    <3>1. tgGiven \in [Updates -> Nat] /\ tgNoHandler \subseteq Updates  OBVIOUS
    <3> HIDE DEF TelegramInv, TelegramTypeOK
    <3>2. tgGiven' \in [Updates -> Nat]  BY <3>1, <1>4, <1>6
    <3>3. tgNoHandler' \subseteq Updates  BY <3>1, <1>4
    <3> QED  BY <3>2, <3>3
  <2> QED  BY <1>4, <2>1, <2>2, <2>3, <2>4
<1>11. \A v \in 1 .. tgSent : v \in Updates
  BY TelegramBounds DEF TelegramInv, TelegramTypeOK, Updates
<1>12. ForgottenIsSettled'
  BY <1>4, <1>9, <1>11 DEF TelegramInv, ForgottenIsSettled
<1>13. OffsetIsSettled'
  <2>1. \A v \in 1 .. tgSent : v < u + 1 => Settled(v)'
    BY <1>7, <1>8, <1>9, <1>11
  <2>2. \A q \in Pollers : tgOffset'[q] = IF q = p THEN u + 1 ELSE tgOffset[q]
    BY <1>4 DEF TelegramInv, TelegramTypeOK
  <2> QED  BY <1>4, <1>7, <1>9, <1>11, <2>1, <2>2 DEF TelegramInv, OffsetIsSettled
<1>14. BatchIsSettled'
  <2>1. \A q \in Pollers : tgBatch'[q] = IF q = p THEN Tail(b) ELSE tgBatch[q]
    BY <1>4 DEF TelegramInv, TelegramTypeOK
  <2>2. InOrder(Tail(b))
    BY <1>6, <1>5 DEF Orderly, InOrder
  <2>3. ASSUME NEW i \in DOMAIN Tail(b)
        PROVE  /\ Tail(b)[i] \in 1 .. tgSent
               /\ \A v \in 1 .. tgSent :
                    v < Tail(b)[i] =>
                      Settled(v)' \/ \E j \in DOMAIN Tail(b) : Tail(b)[j] = v
    <3>1. /\ b[i + 1] \in 1 .. tgSent
          /\ \A v \in 1 .. tgSent :
               v < b[i + 1] => Settled(v) \/ \E j \in DOMAIN b : b[j] = v
      BY <1>6, <1>5, <2>3 DEF Orderly
    <3>2. \A v \in 1 .. tgSent :
            (\E j \in DOMAIN b : b[j] = v) =>
               Settled(v)' \/ \E j \in DOMAIN Tail(b) : Tail(b)[j] = v
      BY <1>6, <1>9
    <3> QED  BY <1>6, <1>9, <1>11, <3>1, <3>2
  <2>4. ASSUME NEW q \in Pollers PROVE Orderly(tgBatch[q])'
    <3>1. CASE q = p
      <4>1. tgBatch'[q] = Tail(b) /\ tgSent' = tgSent  BY <1>4, <2>1, <3>1
      <4>2. \A c : c = Tail(b) => Orderly(c)'
        BY <1>4, <2>2, <2>3 DEF Orderly
      <4> QED  BY <4>1, <4>2 DEF Orderly
    <3>2. CASE q # p
      <4>1. tgBatch'[q] = tgBatch[q] /\ Orderly(tgBatch[q])
        BY <2>1, <3>2 DEF TelegramInv, BatchIsSettled
      <4>2. \A c : Orderly(c) => Orderly(c)'
        BY <1>4, <1>9, <1>11 DEF Orderly
      <4> QED  BY <4>1, <4>2 DEF Orderly
    <3> QED  BY <3>1, <3>2
  <2> QED  BY <2>4 DEF BatchIsSettled
<1> QED  BY <1>10, <1>12, <1>13, <1>14 DEF TelegramInv

LEMMA UserStepInv == TelegramInv /\ UserWrites => TelegramInv'
<1> SUFFICES ASSUME TelegramInv, UserWrites PROVE TelegramInv'  OBVIOUS
<1>1. /\ tgSent < MaxUpdates /\ tgSent' = tgSent + 1 /\ tgQueue' = tgQueue \cup {tgSent + 1}
      /\ UNCHANGED <<tgHook, tgStatus, tgHandler, tgStarted, tgStart, tgPoller, tgCtx,
                     tgOffset, tgBatch, tgStop, tgGiven, tgNoHandler, tgGone, tgOverlap>>
      /\ tgBad' \in {tgBad, tgBad \cup {tgSent + 1}}
  BY DEF UserWrites
<1>2. tgSent \in Nat /\ MaxUpdates \in Nat
  BY TelegramBounds DEF TelegramInv, TelegramTypeOK
<1>3. \A u \in 1 .. tgSent' : u \in 1 .. tgSent \/ u = tgSent + 1  BY <1>1, <1>2
<1>4. TelegramTypeOK'
  <2>1. tgHandler' \in BOOLEAN /\ tgOverlap' \in BOOLEAN
    BY <1>1, Zenon DEF TelegramInv, TelegramTypeOK
  <2> QED  BY <1>1, <1>2, <2>1 DEF TelegramInv, TelegramTypeOK, Updates
<1>5. ForgottenIsSettled'
  BY <1>1, <1>2, <1>3 DEF TelegramInv, ForgottenIsSettled, Settled
<1>6. OffsetIsSettled'
  <2>1. \A p \in Pollers : tgOffset[p] \in Nat
    BY <1>2 DEF TelegramInv, TelegramTypeOK
  <2> QED  BY <1>1, <1>2, <1>3, <2>1 DEF TelegramInv, OffsetIsSettled, Settled
<1>7. BatchIsSettled'
  BY <1>1, <1>2, <1>3 DEF TelegramInv, BatchIsSettled, Orderly, InOrder, Settled
<1> QED  BY <1>4, <1>5, <1>6, <1>7 DEF TelegramInv

LEMMA TelegramStepInv == TelegramInv /\ [TelegramNext]_tgVars => TelegramInv'
BY LifeStepInv, AskStepInv, AnswerStepInv, HandleStepInv, UserStepInv
   DEF TelegramNext, PollStep

(* Every update below the offset of a poller, and every one that Telegram  *)
(* has forgotten, is settled: it was given, it was dropped, or no handler  *)
(* was set.                                                                *)
THEOREM TelegramInductive == TelegramSpec => []TelegramInv
<1> QED  BY TelegramInitInv, TelegramStepInv, PTL DEF TelegramSpec

(* No update is lost: for any number of updates and restarts, and however  *)
(* many pollers ask beside each other, Telegram forgets an update only     *)
(* when it was given to a handler or is one that the channel drops.        *)
THEOREM NothingForgotten == TelegramSpec => []ForgottenWasGiven
<1>1. TelegramInv => ForgottenWasGiven
  BY DEF TelegramInv, ForgottenIsSettled, Settled, ForgottenWasGiven
<1> QED  BY <1>1, TelegramInductive, PTL

-----------------------------------------------------------------------------
(***************************************************************************)
(* Adapters.  The tables do what the exceptions allow, whatever the        *)
(* message is, and then no step between the webhook, the request and the   *)
(* answer mixes one message, one platform or one request with another.     *)
(***************************************************************************)
Deaf == {"wecom", "imessage"}
Media == {"image", "file", "audio", "video", "voice", "news", "template_card"}

LEMMA RefusedIsNoRequest == Refused.res = "refused" /\ Refused.res # "request"
BY DEF Refused

(* A request is refused, or it is made, or the adapter panics.             *)
LEMMA SendsIsOneOfThree ==
  ASSUME NEW p \in Platforms, NEW m
  PROVE  Sends(p, m).res \in {"refused", "panic", "request"}
<1> USE DEF Refused, Panics, Request, Plain, ByKey
<1>1. CASE p = "feishu"
  BY <1>1 DEF Sends, FeishuSends, FeishuImage, FeishuFile, FeishuText
<1>2. CASE p = "wechat"
  BY <1>2 DEF Sends, WechatSends, WechatText, WechatMedia
<1>3. CASE p = "telegram"
  BY <1>3 DEF Sends, TelegramSends, TelegramText, TelegramDocument, TelegramAudio
<1>4. CASE p = "dingtalk"
  BY <1>4 DEF Sends, DingtalkSends, DingtalkText, DingtalkMarkdown, DingtalkMedia
<1>5. CASE p = "wecom"
  BY <1>5 DEF Sends, WecomSends, WecomText, WecomMarkdown, WecomImage, WecomNews,
     WecomMedia, WecomCard
<1>6. CASE p = "slack"  BY <1>6 DEF Sends, SlackSends, ImageBlock
<1>7. CASE p = "discord"  BY <1>7 DEF Sends, DiscordSends, ImageBlock
<1>8. CASE p = "messenger"  BY <1>8 DEF Sends, MessengerSends
<1>9. CASE p = "whatsapp"  BY <1>9 DEF Sends, WhatsappSends
<1>10. CASE p = "imessage"  BY <1>10 DEF Sends, ImessageSends
<1> QED
  BY <1>1, <1>2, <1>3, <1>4, <1>5, <1>6, <1>7, <1>8, <1>9, <1>10 DEF Platforms

(* The kinds of messages that a platform brings.                           *)
LEMMA KindsReceived ==
  /\ DOMAIN Received("feishu") = {"text", "image", "file", "audio", "video", "other", "event"}
  /\ DOMAIN Received("wechat") = {"text", "image", "voice", "video", "other"}
  /\ DOMAIN Received("telegram") = {"text", "image", "captioned", "file", "audio", "video",
                                   "voice", "place", "button", "other"}
  /\ DOMAIN Received("dingtalk") = {"text", "image", "rich", "other"}
  /\ DOMAIN Received("slack") = {"text", "file"}
  /\ DOMAIN Received("discord") = {"text", "file"}
  /\ DOMAIN Received("messenger") = {"text", "image", "file", "audio", "video", "other"}
  /\ DOMAIN Received("whatsapp") = {"text", "image", "file", "audio", "video", "place", "other"}
BY DEF Received, FeishuReceives, WechatReceives, TelegramReceives, DingtalkReceives,
       SlackReceives, DiscordReceives, MessengerReceives, WhatsappReceives

(* What comes in has a type that the senders know, or none.                *)
LEMMA ReceivedTypes ==
  ASSUME NEW p \in Platforms \ Deaf, NEW k \in DOMAIN Received(p)
  PROVE  Received(p)[k].type \in Types \cup {""}
<1> USE KindsReceived
<1>1. CASE p = "feishu"
  <2>1. /\ Received(p)["text"].type = "text"
        /\ Received(p)["image"].type = "image"
        /\ Received(p)["file"].type = "file"
        /\ Received(p)["audio"].type = "audio"
        /\ Received(p)["video"].type = "video"
        /\ Received(p)["other"].type = "event"
        /\ Received(p)["event"].type = ""
    BY <1>1 DEF Received, FeishuReceives, Msg
  <2> QED  BY <1>1, <2>1 DEF Types
<1>2. CASE p = "wechat"
  <2>1. /\ Received(p)["text"].type = "text"
        /\ Received(p)["image"].type = "image"
        /\ Received(p)["voice"].type = "audio"
        /\ Received(p)["video"].type = "video"
        /\ Received(p)["other"].type = "event"
    BY <1>2 DEF Received, WechatReceives, Msg
  <2> QED  BY <1>2, <2>1 DEF Types
<1>3. CASE p = "telegram"
  <2>1. /\ Received(p)["text"].type = "text"
        /\ Received(p)["image"].type = "image"
        /\ Received(p)["captioned"].type = "image"
        /\ Received(p)["file"].type = "file"
        /\ Received(p)["audio"].type = "audio"
        /\ Received(p)["video"].type = "video"
        /\ Received(p)["voice"].type = "audio"
        /\ Received(p)["place"].type = "event"
        /\ Received(p)["button"].type = "event"
        /\ Received(p)["other"].type = ""
    BY <1>3 DEF Received, TelegramReceives, Msg, TelegramCallback
  <2> QED  BY <1>3, <2>1 DEF Types
<1>4. CASE p = "dingtalk"
  <2>1. /\ Received(p)["text"].type = "text"
        /\ Received(p)["image"].type = "image"
        /\ Received(p)["rich"].type = "text"
        /\ Received(p)["other"].type = "event"
    BY <1>4 DEF Received, DingtalkReceives, Msg
  <2> QED  BY <1>4, <2>1 DEF Types
<1>5. CASE p = "slack"
  <2>1. /\ Received(p)["text"].type = "text"
        /\ Received(p)["file"].type = "text"
    BY <1>5 DEF Received, SlackReceives, Msg
  <2> QED  BY <1>5, <2>1 DEF Types
<1>6. CASE p = "discord"
  <2>1. /\ Received(p)["text"].type = "text"
        /\ Received(p)["file"].type = "text"
    BY <1>6 DEF Received, DiscordReceives, Msg
  <2> QED  BY <1>6, <2>1 DEF Types
<1>7. CASE p = "messenger"
  <2>1. /\ Received(p)["text"].type = "text"
        /\ Received(p)["image"].type = "image"
        /\ Received(p)["file"].type = "file"
        /\ Received(p)["audio"].type = "audio"
        /\ Received(p)["video"].type = "video"
        /\ Received(p)["other"].type = "text"
    BY <1>7 DEF Received, MessengerReceives, Msg
  <2> QED  BY <1>7, <2>1 DEF Types
<1>8. CASE p = "whatsapp"
  <2>1. /\ Received(p)["text"].type = "text"
        /\ Received(p)["image"].type = "image"
        /\ Received(p)["file"].type = "file"
        /\ Received(p)["audio"].type = "audio"
        /\ Received(p)["video"].type = "video"
        /\ Received(p)["place"].type = "event"
        /\ Received(p)["other"].type = "text"
    BY <1>8 DEF Received, WhatsappReceives, Msg
  <2> QED  BY <1>8, <2>1 DEF Types
<1> QED
  BY <1>1, <1>2, <1>3, <1>4, <1>5, <1>6, <1>7, <1>8 DEF Platforms, Deaf

(* The way there and back, a platform at a time.                           *)
LEMMA EchoIsSame ==
  ASSUME NEW p \in Platforms \ Deaf, NEW k \in DOMAIN Received(p),
         Sends(p, Received(p)[k]).res = "request"
  PROVE  Same(p, k, Sends(p, Received(p)[k])) \/ k \in LossyEchoes(p)
<1> USE KindsReceived
    DEF Refused, Panics, Request, Plain, ByKey, Msg, Same, Accepts, LossyEchoes
<1>1. CASE p = "feishu"
  <2>1. /\ Sends(p, Received(p)["text"]) = Request("text", "text")
        /\ Sends(p, Received(p)["image"]) = Request("image", "id")
        /\ Sends(p, Received(p)["file"]) = Request("file", "id")
        /\ Sends(p, Received(p)["audio"]) = Request("audio", "id")
        /\ Sends(p, Received(p)["video"]) = Request("video", "id")
    BY <1>1 DEF Received, FeishuReceives, Sends, FeishuSends, FeishuImage, FeishuFile,
       FeishuText
  <2> QED  BY <1>1, <2>1
<1>2. CASE p = "wechat"
  BY <1>2 DEF Received, WechatReceives, Sends, WechatSends, WechatText, WechatMedia
<1>3. CASE p = "telegram"
  <2>1. /\ Received(p)["text"] = Msg("text", "text", {})
        /\ Received(p)["image"] = Msg("image", "id", {})
        /\ Received(p)["file"] = Msg("file", "id", {"caption"})
        /\ Received(p)["audio"] = Msg("audio", "id", {})
        /\ Received(p)["video"] = Msg("video", "id", {})
    BY <1>3 DEF Received, TelegramReceives
  <2>2. \A m : Sends(p, m) = TelegramSends(m)  BY <1>3 DEF Sends
  <2>3. /\ Sends(p, Received(p)["text"]) = Request("text", "text")
        /\ Sends(p, Received(p)["image"]) = Request("image", "id")
        /\ Sends(p, Received(p)["file"]) = Request("file", "id")
        /\ Sends(p, Received(p)["audio"]) = Request("audio", "id")
        /\ Sends(p, Received(p)["video"]) = Request("video", "id")
    BY <2>1, <2>2 DEF TelegramSends, TelegramText, TelegramDocument, TelegramAudio
  <2> QED  BY <1>3, <2>3
<1>4. CASE p = "dingtalk"
  BY <1>4 DEF Received, DingtalkReceives, Sends, DingtalkSends, DingtalkText,
     DingtalkMarkdown, DingtalkMedia
<1>5. CASE p = "slack"
  BY <1>5 DEF Received, SlackReceives, Sends, SlackSends, ImageBlock
<1>6. CASE p = "discord"
  BY <1>6 DEF Received, DiscordReceives, Sends, DiscordSends, ImageBlock
<1>7. CASE p = "messenger"
  BY <1>7 DEF Received, MessengerReceives, Sends, MessengerSends, Linked
<1>8. CASE p = "whatsapp"
  BY <1>8 DEF Received, WhatsappReceives, Sends, WhatsappSends, Linked
<1> QED
  BY <1>1, <1>2, <1>3, <1>4, <1>5, <1>6, <1>7, <1>8 DEF Platforms, Deaf

(* Whatever else a message of a media type carries, it goes out as media.  *)
LEMMA MediaGoesOutAsMedia ==
  ASSUME NEW p \in Platforms, NEW m, m.type \in Media, Sends(p, m).res = "request"
  PROVE  Sends(p, m).as \notin {"text", "markdown", "nothing"} \/ m.type \in Flattened(p)
<1> USE DEF Refused, Panics, Request, Plain, ByKey, Media, Flattened
<1>1. CASE p = "feishu"
  BY <1>1 DEF Sends, FeishuSends, FeishuImage, FeishuFile, FeishuText
<1>2. CASE p = "wechat"
  BY <1>2 DEF Sends, WechatSends, WechatText, WechatMedia
<1>3. CASE p = "telegram"
  BY <1>3 DEF Sends, TelegramSends, TelegramText, TelegramDocument, TelegramAudio
<1>4. CASE p = "dingtalk"
  BY <1>4 DEF Sends, DingtalkSends, DingtalkText, DingtalkMarkdown, DingtalkMedia
<1>5. CASE p = "wecom"
  BY <1>5 DEF Sends, WecomSends, WecomText, WecomMarkdown, WecomImage, WecomNews,
     WecomMedia, WecomCard
<1>6. CASE p \in {"slack", "discord", "imessage"}  BY <1>6 DEF Types
<1>7. CASE p = "messenger"  BY <1>7 DEF Sends, MessengerSends, Linked
<1>8. CASE p = "whatsapp"  BY <1>8 DEF Sends, WhatsappSends, Linked
<1> QED
  BY <1>1, <1>2, <1>3, <1>4, <1>5, <1>6, <1>7, <1>8 DEF Platforms

(* No refusal is taken for an acceptance, and of the answers that are not  *)
(* the platform's only those of TakenForConsent.                           *)
LEMMA NilIsConsent ==
  ASSUME NEW p \in Platforms, NEW a \in MayAnswer(p), ~Fails(p, a)
  PROVE  a \in {Accepted} \cup TakenForConsent(p)
<1>1. /\ a \in Answers /\ a.body \in {"ok", "refusal", "object", "page"}
      /\ \/ a = Accepted
         \/ /\ a.body = "refusal"
            /\ IF p \in StatusOnly THEN ErrorStatus(a) ELSE a.status # "3xx"
         \/ a.body \in {"object", "page"}
  BY DEF MayAnswer, Answers
<1> SUFFICES ASSUME a # Accepted PROVE a \in TakenForConsent(p)  OBVIOUS
<1>2. CASE p \in {"feishu", "wechat", "dingtalk"}
  <2>1. a.body = "object"
    BY <1>1, <1>2 DEF Fails, FeishuFails, WechatFails, DingtalkFails, CodeFails
  <2> QED  BY <1>1, <1>2, <2>1 DEF TakenForConsent
<1>3. CASE p = "wecom"
  <2>1. a.body = "object" /\ a.status = "200"
    BY <1>1, <1>3 DEF Fails, WecomFails, StatusFails, CodeFails
  <2> QED  BY <1>1, <1>3, <2>1 DEF TakenForConsent
<1>4. CASE p \in StatusOnly
  <2>1. ~ErrorStatus(a)
    BY <1>4 DEF StatusOnly, Fails, DiscordFails, MessengerFails, WhatsappFails
  <2>2. a.body \in {"object", "page"}  BY <1>1, <1>4, <2>1
  <2> QED  BY <1>1, <1>4, <2>1, <2>2 DEF TakenForConsent, StatusOnly
<1>5. CASE p \in {"telegram", "slack", "imessage"}
  BY <1>1, <1>5 DEF Fails, TelegramFails, SlackFails, ImessageFails, OkFails
<1> QED  BY <1>2, <1>3, <1>4, <1>5 DEF Platforms, StatusOnly

-----------------------------------------------------------------------------
\* What is in hand came in on this channel.
HeldCameIn ==
    adHeld # Nothing =>
      /\ adChan \notin Deaf /\ adHeld.kind \in DOMAIN Received(adChan)
      /\ adHeld.msg = Received(adChan)[adHeld.kind]

AdapterInv == AdapterTypeOK /\ HeldCameIn /\ SendMeansWhatItSays

LEMMA AdapterInitInv == AdapterInit => AdapterInv
<1> SUFFICES ASSUME AdapterInit PROVE AdapterInv  OBVIOUS
<1>1. adUp \in BOOLEAN  BY Zenon DEF AdapterInit
<1>2. AdapterTypeOK
  BY <1>1 DEF AdapterInit, AdapterTypeOK, Nothing, Msg, NoAnswer, Refused
<1>3. HeldCameIn  BY DEF AdapterInit, HeldCameIn
<1>4. SendMeansWhatItSays
  BY DEF AdapterInit, SendMeansWhatItSays, EchoFaithful, MediaStaysMedia, StoppedIsSilent,
     NilMeansAccepted, Refused
<1> QED  BY <1>2, <1>3, <1>4 DEF AdapterInv

(* SendMessage, for a message that came in or one of the program's own.    *)
LEMMA SendStepInv ==
  ASSUME AdapterInv, NEW m, NEW echo, SendMessage(m, echo),
         adChan' = adChan, adUp' = adUp,
         m.type \in Types \cup {""},
         echo # "none" => /\ adChan \notin Deaf /\ echo \in DOMAIN Received(adChan)
                          /\ m = Received(adChan)[echo]
  PROVE  /\ adOut'.res \in {"refused", "panic", "request"}
         /\ adAnswer' = NoAnswer
         /\ adResult' \in {"none", "error", "panic"}
         /\ SendMeansWhatItSays'
<1>1. adChan \in Platforms  BY DEF AdapterInv, AdapterTypeOK
<1>2. /\ adSource' = [echo |-> echo, type |-> m.type, up |-> adUp]
      /\ adSource'.echo = echo /\ adSource'.type = m.type
      /\ adAnswer' = NoAnswer
  BY DEF SendMessage
<1>3. \/ adOut' = Refused
      \/ adOut' = Sends(adChan, m) /\ (AsksStatus(adChan) => adUp)
  BY DEF SendMessage
<1>4. adOut'.res \in {"refused", "panic", "request"}
  BY <1>1, <1>3, SendsIsOneOfThree, RefusedIsNoRequest
<1>5. adResult' \in {"none", "error", "panic"}
  BY <1>4 DEF SendMessage
<1>6. adOut'.res = "request" => adOut' = Sends(adChan, m) /\ (AsksStatus(adChan) => adUp)
  BY <1>3, RefusedIsNoRequest
<1>7. EchoFaithful'
  <2> SUFFICES ASSUME adOut'.res = "request", echo # "none"
               PROVE  Same(adChan, echo, adOut') \/ echo \in LossyEchoes(adChan)
    BY <1>2 DEF EchoFaithful, Same, LossyEchoes, Accepts
  <2> QED  BY <1>1, <1>6, EchoIsSame
<1>8. MediaStaysMedia'
  <2> SUFFICES ASSUME adOut'.res = "request", m.type \in Media
               PROVE  \/ adOut'.as \notin {"text", "markdown", "nothing"}
                      \/ m.type \in Flattened(adChan)
    BY <1>2 DEF MediaStaysMedia, Media, Flattened
  <2> QED  BY <1>1, <1>6, MediaGoesOutAsMedia
<1>9. StoppedIsSilent'
  <2>1. adOut'.res = "request" => adUp \/ adChan \in {"messenger", "whatsapp"}
    BY <1>6 DEF AsksStatus
  <2>2. adSource'.up = adUp  BY <1>2
  <2> QED  BY <2>1, <2>2 DEF StoppedIsSilent
<1>10. NilMeansAccepted'  BY <1>5 DEF NilMeansAccepted
<1> QED  BY <1>2, <1>4, <1>5, <1>7, <1>8, <1>9, <1>10 DEF SendMeansWhatItSays

LEMMA AdapterStepInv == AdapterInv /\ [AdapterNext]_adVars => AdapterInv'
<1> SUFFICES ASSUME AdapterInv, [AdapterNext]_adVars PROVE AdapterInv'  OBVIOUS
<1> USE DEF AdapterInv
<1>1. CASE AdapterStarts \/ AdapterStops \/ UNCHANGED adVars
  <2>1. adUp' \in BOOLEAN
    BY <1>1, Zenon DEF AdapterStarts, AdapterStops, adVars, AdapterTypeOK
  <2>2. UNCHANGED <<adChan, adHeld, adSource, adOut, adAnswer, adResult>>
    BY <1>1 DEF AdapterStarts, AdapterStops, adVars
  <2>3. AdapterTypeOK' /\ HeldCameIn'  BY <2>1, <2>2 DEF AdapterTypeOK, HeldCameIn
  <2> QED
    BY <2>2, <2>3 DEF SendMeansWhatItSays, EchoFaithful, MediaStaysMedia, StoppedIsSilent,
       NilMeansAccepted
<1>2. CASE /\ adChan \notin {"wecom", "imessage"}
           /\ \E k \in DOMAIN Received(adChan) : UserSends(k)
  <2>1. PICK k \in DOMAIN Received(adChan) :
          /\ adChan \notin Deaf
          /\ adHeld' = [kind |-> k, msg |-> Received(adChan)[k]]
          /\ UNCHANGED <<adChan, adUp, adSource, adOut, adAnswer, adResult>>
    BY <1>2 DEF UserSends, Deaf
  <2>2. Received(adChan)[k].type \in Types \cup {""}
    BY <2>1, ReceivedTypes DEF AdapterTypeOK
  <2>3. AdapterTypeOK'
    <3>1. adUp' \in BOOLEAN  BY <2>1, Zenon DEF AdapterTypeOK
    <3> QED  BY <2>1, <2>2, <3>1 DEF AdapterTypeOK
  <2>4. HeldCameIn'  BY <2>1 DEF HeldCameIn
  <2> QED
    BY <2>1, <2>3, <2>4 DEF SendMeansWhatItSays, EchoFaithful, MediaStaysMedia,
       StoppedIsSilent, NilMeansAccepted
<1>3. CASE Echoes
  <2>1. /\ adHeld # Nothing /\ SendMessage(adHeld.msg, adHeld.kind) /\ adHeld' = Nothing
        /\ adChan' = adChan /\ adUp' = adUp
    BY <1>3 DEF Echoes
  <2>2. /\ adOut'.res \in {"refused", "panic", "request"} /\ adAnswer' = NoAnswer
        /\ adResult' \in {"none", "error", "panic"} /\ SendMeansWhatItSays'
    BY <2>1, SendStepInv DEF AdapterTypeOK, HeldCameIn
  <2>3. AdapterTypeOK'
    <3>1. adUp' \in BOOLEAN  BY <2>1, Zenon DEF AdapterTypeOK
    <3> QED  BY <2>1, <2>2, <3>1 DEF AdapterTypeOK, Nothing, Msg
  <2> QED  BY <2>1, <2>2, <2>3 DEF HeldCameIn
<1>4. CASE Composes
  <2>1. PICK m \in Composed :
          /\ SendMessage(m, "none") /\ adHeld' = adHeld
          /\ adChan' = adChan /\ adUp' = adUp
    BY <1>4 DEF Composes
  <2>2. m.type \in Types  BY DEF Composed
  <2>3. /\ adOut'.res \in {"refused", "panic", "request"} /\ adAnswer' = NoAnswer
        /\ adResult' \in {"none", "error", "panic"} /\ SendMeansWhatItSays'
    BY <2>1, <2>2, SendStepInv
  <2>4. AdapterTypeOK'
    <3>1. adUp' \in BOOLEAN  BY <2>1, Zenon DEF AdapterTypeOK
    <3> QED  BY <2>1, <2>3, <3>1 DEF AdapterTypeOK
  <2> QED  BY <2>1, <2>3, <2>4 DEF HeldCameIn
<1>5. CASE PlatformAnswers \/ RequestFails \/ SendReturns
  <2>1. UNCHANGED <<adChan, adUp, adHeld>> /\ adUp' \in BOOLEAN
    <3>1. UNCHANGED <<adChan, adUp, adHeld>>
      BY <1>5 DEF PlatformAnswers, RequestFails, SendReturns
    <3> QED  BY <3>1, Zenon DEF AdapterTypeOK
  <2>2. HeldCameIn'  BY <2>1 DEF HeldCameIn
  <2>3. CASE PlatformAnswers
    <3>1. PICK a \in MayAnswer(adChan) :
            /\ adAnswer' = a /\ adResult' = IF Fails(adChan, a) THEN "error" ELSE "nil"
            /\ UNCHANGED <<adChan, adUp, adHeld, adSource, adOut>>
      BY <2>3 DEF PlatformAnswers
    <3>2. NilMeansAccepted'
      BY <3>1, NilIsConsent DEF NilMeansAccepted, AdapterTypeOK
    <3>3. AdapterTypeOK'  BY <2>1, <3>1 DEF AdapterTypeOK, MayAnswer
    <3> QED
      BY <2>2, <3>1, <3>2, <3>3 DEF SendMeansWhatItSays, EchoFaithful, MediaStaysMedia,
         StoppedIsSilent
  <2>4. CASE RequestFails
    BY <2>1, <2>2, <2>4 DEF RequestFails, AdapterTypeOK, SendMeansWhatItSays, EchoFaithful,
       MediaStaysMedia, StoppedIsSilent, NilMeansAccepted
  <2>5. CASE SendReturns
    BY <2>1, <2>2, <2>5 DEF SendReturns, AdapterTypeOK, SendMeansWhatItSays, EchoFaithful,
       MediaStaysMedia, StoppedIsSilent, NilMeansAccepted, Refused
  <2> QED  BY <1>5, <2>3, <2>4, <2>5
<1> QED  BY <1>1, <1>2, <1>3, <1>4, <1>5 DEF AdapterNext

(* A message that is in hand is what the adapter of this channel makes of  *)
(* what a user sent, and the last SendMessage has kept its word.           *)
THEOREM AdapterInductive == AdapterSpec => []AdapterInv
<1> QED  BY AdapterInitInv, AdapterStepInv, PTL DEF AdapterSpec

(* Whatever a channel is sent and asked to send, in whatever order, while  *)
(* it is started and stopped: SendMessage keeps its word.                  *)
THEOREM SendKeepsItsWord == AdapterSpec => []SendMeansWhatItSays
<1>1. AdapterInv => SendMeansWhatItSays  BY DEF AdapterInv
<1> QED  BY <1>1, AdapterInductive, PTL

-----------------------------------------------------------------------------
(***************************************************************************)
(* The five components side by side, as MCChannels runs them.              *)
(***************************************************************************)
THEOREM ChannelsSideBySide ==
  MCSpec => [](RegistryInv /\ TokenInv /\ TelegramInv /\ IMessageInv /\ AdapterInv)
<1> DEFINE Inv == RegistryInv /\ TokenInv /\ TelegramInv /\ IMessageInv /\ AdapterInv
           all == <<rgVars, tokVars, tgVars, imVars, adVars>>
<1>1. MCInit => Inv
  BY RegistryInitInv, TokenInitInv, TelegramInitInv, IMessageInitInv, AdapterInitInv
     DEF MCInit
<1>2. Inv /\ [MCNext]_all => Inv'
  <2>1. [MCNext]_all =>
          /\ [RegistryNext]_rgVars /\ [TokenNext]_tokVars /\ [TelegramNext]_tgVars
          /\ [IMessageNext]_imVars /\ [AdapterNext]_adVars
    BY DEF MCNext
  <2> QED
    BY <2>1, RegistryStepInv, TokenStepInv, TelegramStepInv, IMessageStepInv, AdapterStepInv
<1> QED  BY <1>1, <1>2, PTL DEF MCSpec

(* Every variable of the five components keeps its type, and no two        *)
(* channels in the table share a name, for any bounds.                     *)
THEOREM ChannelsTypeCorrect == MCSpec => []ChannelsTypeOK
<1>1. RegistryInv /\ TokenInv /\ TelegramInv /\ IMessageInv /\ AdapterInv => ChannelsTypeOK
  BY DEF RegistryInv, TokenInv, TelegramInv, IMessageInv, AdapterInv, ChannelsTypeOK
<1> QED  BY <1>1, ChannelsSideBySide, PTL
=============================================================================
