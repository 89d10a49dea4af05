--------------------------- MODULE RpcClientProofs ---------------------------
(***************************************************************************)
(* Proofs about RpcClient, for any calls and any callers of Close.  The    *)
(* argument is about c.once: whoever runs its function is alone, and what  *)
(* the function has done so far can be told from its program counter.      *)
(***************************************************************************)
EXTENDS RpcClient, TLAPS

Inside == {"state", "stop", "done", "cancel", "conn"}

(* Only the owner of c.once is inside Close, it is alone, and there is a   *)
(* connection to close; a Close returns with c.once used up.               *)
Exclusive ==
  /\ \A x \in AllClosers : cl[x] \in Inside => once = "busy" /\ conn # "nil"
  /\ \A x \in AllClosers : cl[x] = "returned" => once = "used"
  /\ \A x, y \in AllClosers : cl[x] \in Inside /\ cl[y] \in Inside => x = y

(* c.done is closed in one place of that function.                         *)
DoneOnlyInside ==
  /\ done => once # "new" /\ \A x \in AllClosers : cl[x] \notin {"state", "stop", "done"}
  /\ \A x \in AllClosers : cl[x] \in {"cancel", "conn"} => done
  /\ panic # "close"

(* Connect is past its first step only on a client that has a connection;  *)
(* nobody connects a client again before c.once is used up; and if Connect *)
(* has still to assign running or state when c.once is taken, the history  *)
(* says so.                                                                *)
Connecting ==
  /\ ct # "idle" => conn # "nil"
  /\ reused => once = "used"
  /\ ct \in {"run", "state"} /\ once # "new" => overtook \/ reused

(* What the function has done by the time it reaches each step, and what   *)
(* Connect cannot have undone unless it was overtaken.                     *)
StoppedInside ==
  /\ \A x \in AllClosers : cl[x] \in {"stop", "done", "cancel", "conn"} =>
       (connected => overtook)
  /\ \A x \in AllClosers : cl[x] \in {"done", "cancel", "conn"} => (running => overtook)

(* Close runs its cleanup on a client that was connected when once was new.*)
ConnectedOnce ==
  /\ conn = "nil" => once # "busy" /\ ~done
  /\ ~reused /\ once = "used" /\ conn # "nil" =>
       conn = "closed" /\ done /\ (running \/ connected => overtook)

IInv ==
  TypeOK /\ Exclusive /\ DoneOnlyInside /\ Connecting /\ StoppedInside /\ ConnectedOnce
  /\ PendingIsInFlight

USE DEF AllClosers, Inside, callVars, stateVars

LEMMA InitIInv == Init => IInv
<1> SUFFICES ASSUME Init PROVE IInv  OBVIOUS
<1>1. TypeOK
  <2>1. full \in [Calls -> BOOLEAN] /\ closed \in [Calls -> BOOLEAN]
    BY Zenon DEF Init
  <2>2. /\ running \in BOOLEAN /\ connected \in BOOLEAN /\ done \in BOOLEAN
        /\ reused \in BOOLEAN /\ overtook \in BOOLEAN
    BY Zenon DEF Init
  <2> QED  BY <2>1, <2>2 DEF Init, TypeOK
<1>2. Exclusive /\ DoneOnlyInside /\ Connecting /\ StoppedInside
  BY DEF Init, Exclusive, DoneOnlyInside, Connecting, StoppedInside
<1>3. ConnectedOnce /\ PendingIsInFlight
  BY DEF Init, ConnectedOnce, PendingIsInFlight
<1> QED  BY <1>1, <1>2, <1>3 DEF IInv

(* The parts of the invariant that Close is about read these variables     *)
(* only.                                                                   *)
ClosePart == Exclusive /\ DoneOnlyInside /\ Connecting /\ StoppedInside /\ ConnectedOnce
closeVars == <<conn, running, connected, done, once, reused, overtook, ct, cl>>

LEMMA ClosePartStutters ==
  ASSUME ClosePart, UNCHANGED closeVars, panic' # "close"
  PROVE  ClosePart'
BY DEF ClosePart, closeVars, Exclusive, DoneOnlyInside, Connecting, StoppedInside,
       ConnectedOnce

(* A Call only moves its own entries.                                      *)
LEMMA CallStepIInv ==
  ASSUME IInv, NEW k \in Calls, CallStep(k)
  PROVE  IInv'
<1> USE DEF IInv
<1>1. UNCHANGED closeVars /\ panic' = panic
  BY DEF CallStep, CallRuns, CallRegister, CallLock, CallWritten, CallReturns,
         CallCleanup, closeVars
<1>2. ClosePart'
  BY <1>1, ClosePartStutters DEF ClosePart, DoneOnlyInside
<1>3. TypeOK' /\ PendingIsInFlight'
  <2>1. CASE CallRegister(k)  BY <2>1 DEF CallRegister, TypeOK, PendingIsInFlight
  <2>2. CASE CallLock(k)      BY <2>2 DEF CallLock, TypeOK, PendingIsInFlight
  <2>3. ASSUME NEW ok \in BOOLEAN, CallWritten(k, ok)
        PROVE  TypeOK' /\ PendingIsInFlight'
    BY <2>3 DEF CallWritten, TypeOK, PendingIsInFlight
  <2>4. ASSUME NEW why \in {"response", "closed", "ctx"}, CallReturns(k, why)
        PROVE  TypeOK' /\ PendingIsInFlight'
    <3>1. full' \in [Calls -> BOOLEAN]  BY <2>4, Zenon DEF CallReturns, TypeOK
    <3> QED  BY <2>4, <3>1 DEF CallReturns, TypeOK, PendingIsInFlight
  <2>5. CASE CallCleanup(k)   BY <2>5 DEF CallCleanup, TypeOK, PendingIsInFlight
  <2> QED  BY <2>1, <2>2, <2>3, <2>4, <2>5 DEF CallStep, CallRuns
<1> QED  BY <1>2, <1>3 DEF ClosePart

(* The loops never touch the list of calls.                                *)
LEMMA LoopStepIInv ==
  ASSUME IInv, ReadStep \/ WriteStep \/ ConnBreaks
  PROVE  IInv'
<1> USE DEF IInv
<1>1. ASSUME NEW k \in Calls, ReadResponse(k)  PROVE IInv'
  <2>1. UNCHANGED closeVars /\ panic' = panic  BY <1>1 DEF ReadResponse, closeVars
  <2>2. ClosePart'  BY <2>1, ClosePartStutters DEF ClosePart, DoneOnlyInside
  <2>3. TypeOK' /\ PendingIsInFlight'  BY <1>1 DEF ReadResponse, TypeOK, PendingIsInFlight
  <2> QED  BY <2>2, <2>3 DEF ClosePart
<1>2. CASE Deliver
  <2>1. UNCHANGED closeVars /\ panic' # "close"
    BY <1>2 DEF Deliver, closeVars, DoneOnlyInside
  <2>2. ClosePart'  BY <2>1, ClosePartStutters DEF ClosePart
  <2>3. TypeOK'
    <3>1. full' \in [Calls -> BOOLEAN]  BY <1>2, Zenon DEF Deliver, TypeOK
    <3> QED  BY <1>2, <3>1 DEF Deliver, TypeOK
  <2>4. PendingIsInFlight'  BY <1>2 DEF Deliver, PendingIsInFlight
  <2> QED  BY <2>2, <2>3, <2>4 DEF ClosePart
<1>3. CASE ReadFails
  <2>1. TypeOK' /\ PendingIsInFlight'  BY <1>3 DEF ReadFails, TypeOK, PendingIsInFlight
  <2>2. Exclusive' /\ DoneOnlyInside'
    BY <1>3 DEF ReadFails, TypeOK, Exclusive, DoneOnlyInside
  <2>3. Connecting' /\ StoppedInside' /\ ConnectedOnce'
    BY <1>3 DEF ReadFails, TypeOK, Connecting, StoppedInside, ConnectedOnce
  <2> QED  BY <2>1, <2>2, <2>3
<1>4. CASE WriteStep
  <2>1. UNCHANGED closeVars /\ panic' = panic
    BY <1>4 DEF WriteStep, PingBegins, PingEnds, WriteLoopDone, stateVars, closeVars
  <2>2. ClosePart'  BY <2>1, ClosePartStutters DEF ClosePart, DoneOnlyInside
  <2>3. TypeOK' /\ PendingIsInFlight'
    BY <1>4 DEF WriteStep, PingBegins, PingEnds, WriteLoopDone, TypeOK, PendingIsInFlight
  <2> QED  BY <2>2, <2>3 DEF ClosePart
<1>5. CASE ConnBreaks
  BY <1>5 DEF ConnBreaks, TypeOK, Exclusive, DoneOnlyInside, Connecting, StoppedInside,
              ConnectedOnce, PendingIsInFlight
<1> QED  BY <1>1, <1>2, <1>3, <1>4, <1>5 DEF ReadStep

(* Connect finds nobody inside Close when it dials; after that a Close that*)
(* has begun has overtaken it.                                             *)
LEMMA ConnectIInv ==
  ASSUME IInv, ConnectDials \/ ConnectRest
  PROVE  IInv'
<1> USE DEF IInv
<1>1. CASE ConnectDials
  <2>1. TypeOK'
    <3>1. reused' \in BOOLEAN  BY <1>1, Zenon DEF ConnectDials
    <3> QED  BY <1>1, <3>1 DEF ConnectDials, TypeOK
  <2>2. PendingIsInFlight'  BY <1>1 DEF ConnectDials, PendingIsInFlight
  <2>3. \A x \in AllClosers : cl[x] \notin Inside
    BY <1>1 DEF ConnectDials, Exclusive
  <2>4. once # "busy"  BY <1>1 DEF ConnectDials, Exclusive, ConnectedOnce
  <2>5. Exclusive' /\ DoneOnlyInside' /\ StoppedInside'
    BY <1>1, <2>3 DEF ConnectDials, Exclusive, DoneOnlyInside, StoppedInside
  <2>6. Connecting' /\ ConnectedOnce'
    BY <1>1, <2>4 DEF ConnectDials, TypeOK, Connecting, ConnectedOnce
  <2> QED  BY <2>1, <2>2, <2>5, <2>6
<1>2. CASE ConnectRuns
  <2>1. TypeOK'
    <3>1. running' \in BOOLEAN  BY <1>2, Zenon DEF ConnectRuns
    <3> QED  BY <1>2, <3>1 DEF ConnectRuns, TypeOK
  <2>2. PendingIsInFlight' /\ Exclusive' /\ DoneOnlyInside' /\ Connecting'
    BY <1>2 DEF ConnectRuns, PendingIsInFlight, Exclusive, DoneOnlyInside, Connecting
  <2>3. StoppedInside' /\ ConnectedOnce'
    BY <1>2 DEF ConnectRuns, Exclusive, Connecting, StoppedInside, ConnectedOnce
  <2> QED  BY <2>1, <2>2, <2>3
<1>3. CASE ConnectSetsState
  <2>1. TypeOK'
    <3>1. connected' \in BOOLEAN  BY <1>3, Zenon DEF ConnectSetsState
    <3> QED  BY <1>3, <3>1 DEF ConnectSetsState, TypeOK
  <2>2. PendingIsInFlight' /\ Exclusive' /\ DoneOnlyInside' /\ Connecting'
    BY <1>3 DEF ConnectSetsState, PendingIsInFlight, Exclusive, DoneOnlyInside, Connecting
  <2>3. StoppedInside' /\ ConnectedOnce'
    BY <1>3 DEF ConnectSetsState, Exclusive, Connecting, StoppedInside, ConnectedOnce
  <2> QED  BY <2>1, <2>2, <2>3
<1>4. CASE ConnectLoops
  <2>1. TypeOK' /\ PendingIsInFlight'
    BY <1>4 DEF ConnectLoops, TypeOK, PendingIsInFlight
  <2>2. Exclusive' /\ DoneOnlyInside'
    BY <1>4 DEF ConnectLoops, TypeOK, Exclusive, DoneOnlyInside
  <2>3. Connecting' /\ StoppedInside' /\ ConnectedOnce'
    BY <1>4 DEF ConnectLoops, TypeOK, Connecting, StoppedInside, ConnectedOnce
  <2> QED  BY <2>1, <2>2, <2>3
<1> QED  BY <1>1, <1>2, <1>3, <1>4 DEF ConnectRest

(* The steps of one Close.                                                 *)
LEMMA CloseStepIInv ==
  ASSUME IInv, NEW x \in AllClosers, CloseCalled(x) \/ CloseRuns(x)
  PROVE  IInv'
<1> USE DEF IInv
<1>1. CASE CloseCalled(x)
  <2>1. TypeOK' /\ PendingIsInFlight'  BY <1>1 DEF CloseCalled, TypeOK, PendingIsInFlight
  <2>2. Exclusive' /\ DoneOnlyInside'
    BY <1>1 DEF CloseCalled, TypeOK, Exclusive, DoneOnlyInside
  <2>3. Connecting' /\ StoppedInside' /\ ConnectedOnce'
    BY <1>1 DEF CloseCalled, TypeOK, Connecting, StoppedInside, ConnectedOnce
  <2> QED  BY <2>1, <2>2, <2>3
<1>2. CASE CloseEnters(x)
  <2>1. TypeOK'
    <3>1. overtook' \in BOOLEAN  BY <1>2, Zenon DEF CloseEnters, TypeOK
    <3> QED  BY <1>2, <3>1 DEF CloseEnters, TypeOK
  <2>2. PendingIsInFlight'  BY <1>2 DEF CloseEnters, PendingIsInFlight
  <2>3. \A y \in AllClosers : cl[y] \notin Inside  BY <1>2 DEF CloseEnters, Exclusive
  <2>4. Exclusive'  BY <1>2, <2>3 DEF CloseEnters, TypeOK, Exclusive
  <2>5. DoneOnlyInside'  BY <1>2, <2>3 DEF CloseEnters, TypeOK, DoneOnlyInside
  <2>6. Connecting'
    <3>1. CASE once = "new" /\ conn # "nil"
      <4>1. ct \in {"run", "state"} => overtook'  BY <1>2, <3>1, Zenon DEF CloseEnters
      <4>2. ~reused  BY <3>1 DEF Connecting
      <4> QED  BY <1>2, <3>1, <4>1, <4>2 DEF CloseEnters, Connecting
    <3>2. CASE once = "used" \/ conn = "nil"
      <4>1. UNCHANGED <<ct, reused, conn, overtook>> /\ once' = "used"
        BY <1>2, <3>2 DEF CloseEnters, Connecting, ConnectedOnce
      <4> QED  BY <3>2, <4>1 DEF Connecting
    <3> QED  BY <1>2, <3>1, <3>2 DEF CloseEnters
  <2>7. StoppedInside'  BY <1>2, <2>3 DEF CloseEnters, TypeOK, StoppedInside
  <2>8. ConnectedOnce'  BY <1>2 DEF CloseEnters, TypeOK, ConnectedOnce
  <2> QED  BY <2>1, <2>2, <2>4, <2>5, <2>6, <2>7, <2>8
<1>3. CASE CloseSetsState(x)
  <2>1. TypeOK' /\ PendingIsInFlight'
    <3>1. connected' \in BOOLEAN  BY <1>3, Zenon DEF CloseSetsState
    <3> QED  BY <1>3, <3>1 DEF CloseSetsState, TypeOK, PendingIsInFlight
  <2>2. Exclusive' /\ DoneOnlyInside'
    BY <1>3 DEF CloseSetsState, TypeOK, Exclusive, DoneOnlyInside
  <2>3. Connecting' /\ StoppedInside' /\ ConnectedOnce'
    BY <1>3 DEF CloseSetsState, TypeOK, Connecting, StoppedInside, ConnectedOnce
  <2> QED  BY <2>1, <2>2, <2>3
<1>4. CASE CloseStops(x)
  <2>1. TypeOK' /\ PendingIsInFlight'
    <3>1. running' \in BOOLEAN  BY <1>4, Zenon DEF CloseStops
    <3> QED  BY <1>4, <3>1 DEF CloseStops, TypeOK, PendingIsInFlight
  <2>2. Exclusive' /\ DoneOnlyInside'
    BY <1>4 DEF CloseStops, TypeOK, Exclusive, DoneOnlyInside
  <2>3. Connecting' /\ StoppedInside' /\ ConnectedOnce'
    BY <1>4 DEF CloseStops, TypeOK, Connecting, StoppedInside, ConnectedOnce
  <2> QED  BY <2>1, <2>2, <2>3
<1>5. CASE CloseClosesDone(x)
  <2>1. TypeOK' /\ PendingIsInFlight'
    <3>1. done' \in BOOLEAN  BY <1>5, Zenon DEF CloseClosesDone
    <3> QED  BY <1>5, <3>1 DEF CloseClosesDone, TypeOK, PendingIsInFlight
  <2>2. ~done  BY <1>5 DEF CloseClosesDone, DoneOnlyInside
  <2>3. Exclusive'  BY <1>5 DEF CloseClosesDone, TypeOK, Exclusive
  <2>4. DoneOnlyInside'  BY <1>5, <2>2 DEF CloseClosesDone, TypeOK, Exclusive, DoneOnlyInside
  <2>5. Connecting' /\ StoppedInside'
    BY <1>5 DEF CloseClosesDone, TypeOK, Connecting, StoppedInside
  <2>6. ConnectedOnce'  BY <1>5 DEF CloseClosesDone, TypeOK, Exclusive, ConnectedOnce
  <2> QED  BY <2>1, <2>3, <2>4, <2>5, <2>6
<1>6. CASE CloseCancels(x)
  <2>1. TypeOK'
    <3>1. closed' \in [Calls -> BOOLEAN]  BY <1>6, Zenon DEF CloseCancels, TypeOK
    <3> QED  BY <1>6, <3>1 DEF CloseCancels, TypeOK
  <2>2. PendingIsInFlight'  BY <1>6 DEF CloseCancels, PendingIsInFlight
  <2>3. Exclusive' /\ DoneOnlyInside'
    BY <1>6 DEF CloseCancels, TypeOK, Exclusive, DoneOnlyInside
  <2>4. Connecting' /\ StoppedInside' /\ ConnectedOnce'
    BY <1>6 DEF CloseCancels, TypeOK, Connecting, StoppedInside, ConnectedOnce
  <2> QED  BY <2>1, <2>2, <2>3, <2>4
<1>7. CASE CloseClosesConn(x)
  <2>1. TypeOK' /\ PendingIsInFlight'  BY <1>7 DEF CloseClosesConn, TypeOK, PendingIsInFlight
  <2>2. done /\ (running \/ connected => overtook)
    BY <1>7 DEF CloseClosesConn, DoneOnlyInside, StoppedInside
  <2>3. \A y \in AllClosers : cl'[y] \notin Inside
    BY <1>7 DEF CloseClosesConn, TypeOK, Exclusive
  <2>4. Exclusive' /\ DoneOnlyInside'
    BY <1>7, <2>3 DEF CloseClosesConn, TypeOK, Exclusive, DoneOnlyInside
  <2>5. StoppedInside'
    BY <2>3 DEF StoppedInside
  <2>6. Connecting'
    BY <1>7 DEF CloseClosesConn, Exclusive, Connecting
  <2>7. ConnectedOnce'  BY <1>7, <2>2 DEF CloseClosesConn, TypeOK, ConnectedOnce
  <2> QED  BY <2>1, <2>4, <2>5, <2>6, <2>7
<1> QED  BY <1>1, <1>2, <1>3, <1>4, <1>5, <1>6, <1>7 DEF CloseRuns

LEMMA StutterIInv == IInv /\ UNCHANGED vars => IInv'
BY DEF IInv, vars, TypeOK, Exclusive, DoneOnlyInside, Connecting, StoppedInside,
       ConnectedOnce, PendingIsInFlight

(* The strengthening of the three properties below is an invariant.        *)
THEOREM Inductive == Spec => []IInv
<1>1. Init => IInv  BY InitIInv
<1>2. IInv /\ [Next]_vars => IInv'
  BY CallStepIInv, LoopStepIInv, ConnectIInv, CloseStepIInv, StutterIInv DEF Next, Crashed
<1> QED  BY <1>1, <1>2, PTL DEF Spec

(* Every variable of the client keeps its type, whatever the calls do.     *)
THEOREM TypeCorrect == Spec => []TypeOK
<1>1. IInv => TypeOK  BY DEF IInv
<1> QED  BY <1>1, Inductive, PTL

(* However many callers race with the readLoop's deferred Close, and even  *)
(* if the client is closed early or connected again, c.done is closed once.*)
THEOREM OneCloseOfDone == Spec => []DoneClosedOnce
<1>1. IInv => DoneClosedOnce  BY DEF IInv, DoneOnlyInside, DoneClosedOnce
<1> QED  BY <1>1, Inductive, PTL

(* c.pending lists only calls in flight, for any number of them.           *)
THEOREM NoPendingLeak == Spec => []PendingIsInFlight
<1>1. IInv => PendingIsInFlight  BY DEF IInv
<1> QED  BY <1>1, Inductive, PTL

(* A Close of a connected client, whichever caller did the work, returns   *)
(* with the connection closed, and running and state stay false unless the *)
(* Close began before Connect had set them.                                *)
THEOREM CloseCloses == Spec => []ClosedForEverybody
<1>1. IInv => ClosedForEverybody
  BY DEF IInv, Exclusive, ConnectedOnce, ClosedForEverybody
<1> QED  BY <1>1, Inductive, PTL
=============================================================================
