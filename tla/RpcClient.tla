------------------------------ MODULE RpcClient ------------------------------
(***************************************************************************)
(* The Go client of the gateway (pkg/gateway/client.go): concurrent Calls, *)
(* the readLoop that hands responses to them, the writeLoop that only      *)
(* pings, and Close, which the caller and the readLoop's defer both run.   *)
(*                                                                         *)
(* A Call waits on a channel of its own, of capacity one, that it finds    *)
(* under c.pending; Close closes every channel still listed there.  The    *)
(* readLoop looks the channel up under respMu and sends on it afterwards.  *)
(***************************************************************************)
CONSTANTS
  Calls,        (* calls of Client.Call                                    *)
  Closers,      (* callers of Close other than the readLoop                *)
  ReadLoop,     (* the Close that the readLoop defers                      *)
  NoCall        (* not a call                                              *)

ASSUME NamesAssumption == ReadLoop \notin Closers /\ NoCall \notin Calls

VARIABLES
  conn,         (* c.conn and what became of it                            *)
  running,      (* c.running                                               *)
  connected,    (* c.state = StateConnected                                *)
  done,         (* c.done has been closed                                  *)
  once,         (* c.once: not used, its function running, or over         *)
  pending,      (* the calls listed in c.pending                           *)
  full, closed, (* per call: its channel holds a response, is closed       *)
  pc,           (* program counter of each Call                            *)
  result,       (* what each Call returns                                  *)
  sendMu,       (* the call that holds c.sendMu                            *)
  rl, rlCall,   (* readLoop: program counter, call it found the channel of *)
  wl,           (* program counter of writeLoop                            *)
  cl,           (* program counter of each Close                           *)
  ct,           (* program counter of Connect                              *)
  reused,       (* history: Connect was called when once was used up       *)
  overtook,     (* history: a Close began before Connect had set c.state   *)
  panic         (* what crashed the process, if anything                   *)

callVars  == <<pending, full, closed, pc, result, sendMu>>
stateVars == <<running, connected, done, once, reused, overtook, ct>>
vars == <<conn, running, connected, done, once, pending, full, closed, pc, result,
          sendMu, rl, rlCall, wl, cl, ct, reused, overtook, panic>>

AllClosers == Closers \cup {ReadLoop}

(* The module's type invariant.                                            *)
TypeOK ==
  /\ conn \in {"nil", "open", "broken", "closed"}
  /\ running \in BOOLEAN /\ connected \in BOOLEAN /\ done \in BOOLEAN
  /\ reused \in BOOLEAN /\ overtook \in BOOLEAN
  /\ ct \in {"idle", "run", "state", "loops"}
  /\ once \in {"new", "busy", "used"}
  /\ pending \in SUBSET Calls
  /\ full \in [Calls -> BOOLEAN] /\ closed \in [Calls -> BOOLEAN]
  /\ pc \in [Calls -> {"idle", "lock", "write", "wait", "cleanup", "returned"}]
  /\ result \in [Calls -> {"none", "response", "error", "sendError"}]
  /\ sendMu \in Calls \cup {NoCall}
  /\ rl \in {"none", "read", "deliver", "dead"} /\ rlCall \in Calls \cup {NoCall}
  /\ rl = "deliver" => rlCall \in Calls
  /\ wl \in {"none", "idle", "ping", "dead"}
  /\ cl \in [AllClosers -> {"idle", "enter", "state", "stop", "done", "cancel",
                            "conn", "returned"}]
  /\ panic \in {"none", "send", "close"}

Init ==
  /\ conn = "nil" /\ running = FALSE /\ connected = FALSE /\ done = FALSE
  /\ once = "new"
  /\ pending = {}
  /\ full = [k \in Calls |-> FALSE] /\ closed = [k \in Calls |-> FALSE]
  /\ pc = [k \in Calls |-> "idle"] /\ result = [k \in Calls |-> "none"]
  /\ sendMu = NoCall
  /\ rl = "none" /\ rlCall = NoCall /\ wl = "none"
  /\ cl = [x \in AllClosers |-> "idle"]
  /\ ct = "idle" /\ reused = FALSE /\ overtook = FALSE /\ panic = "none"

-----------------------------------------------------------------------------
(* Connect: a new connection on a client that was never connected or whose*)
(* loops are over, then its assignments and its two loops, one by one and  *)
(* under no lock that Close takes.  Neither done nor once is made anew.    *)

ConnectDials ==
  /\ ct = "idle" /\ (conn = "nil" \/ (wl = "dead" /\ cl[ReadLoop] = "returned"))
  /\ conn' = "open" /\ ct' = "run"
  /\ reused' = (reused \/ once = "used")
  /\ UNCHANGED <<running, connected, done, once, overtook, callVars, rl, rlCall, wl,
                 cl, panic>>

ConnectRuns ==
  /\ ct = "run" /\ ct' = "state"
  /\ running' = TRUE
  /\ UNCHANGED <<conn, connected, done, once, reused, overtook, callVars, rl, rlCall,
                 wl, cl, panic>>

ConnectSetsState ==
  /\ ct = "state" /\ ct' = "loops"
  /\ connected' = TRUE
  /\ UNCHANGED <<conn, running, done, once, reused, overtook, callVars, rl, rlCall,
                 wl, cl, panic>>

(* Two go statements: what a loop does before the other one exists it may  *)
(* as well do before the other one's first step.                           *)
ConnectLoops ==
  /\ ct = "loops" /\ ct' = "idle"
  /\ rl' = "read" /\ wl' = "idle" /\ cl' = [cl EXCEPT ![ReadLoop] = "idle"]
  /\ UNCHANGED <<conn, running, connected, done, once, reused, overtook, callVars,
                 rlCall, panic>>

(* The peer or the network goes away.                                      *)
ConnBreaks ==
  /\ conn = "open" /\ conn' = "broken"
  /\ UNCHANGED <<stateVars, callVars, rl, rlCall, wl, cl, panic>>

-----------------------------------------------------------------------------
(* Call                                                                    *)

CallRegister(k) ==
  /\ pc[k] = "idle" /\ conn # "nil"
  /\ pending' = pending \cup {k}
  /\ pc' = [pc EXCEPT ![k] = "lock"]
  /\ UNCHANGED <<conn, stateVars, full, closed, result, sendMu, rl, rlCall, wl, cl, panic>>

CallLock(k) ==
  /\ pc[k] = "lock" /\ sendMu = NoCall
  /\ sendMu' = k
  /\ pc' = [pc EXCEPT ![k] = "write"]
  /\ UNCHANGED <<conn, stateVars, pending, full, closed, result, rl, rlCall, wl, cl, panic>>

(* WriteJSON returns.  A write to a connection whose peer is gone may still*)
(* succeed, into the socket's buffer.                                      *)
CallWritten(k, ok) ==
  /\ pc[k] = "write" /\ (ok => conn \in {"open", "broken"}) /\ (~ok => conn # "open")
  /\ sendMu' = NoCall
  /\ pc' = [pc EXCEPT ![k] = IF ok THEN "wait" ELSE "cleanup"]
  /\ result' = [result EXCEPT ![k] = IF ok THEN @ ELSE "sendError"]
  /\ UNCHANGED <<conn, stateVars, pending, full, closed, rl, rlCall, wl, cl, panic>>

(* The select of a waiting call takes any case that is ready; a closed     *)
(* channel still hands out the response it holds.                          *)
CallReturns(k, why) ==
  /\ pc[k] = "wait"
  /\ \/ why = "response" /\ full[k]
     \/ why = "closed" /\ ((closed[k] /\ ~full[k]) \/ done)
     \/ why = "ctx"
  /\ full' = [full EXCEPT ![k] = @ /\ why # "response"]
  /\ result' = [result EXCEPT ![k] = IF why = "response" THEN why ELSE "error"]
  /\ pc' = [pc EXCEPT ![k] = "cleanup"]
  /\ UNCHANGED <<conn, stateVars, pending, closed, sendMu, rl, rlCall, wl, cl, panic>>

(* Mutant: no deferred delete.                                             *)
CallCleanupForgotten(k) ==
  /\ pc[k] = "cleanup"
  /\ pc' = [pc EXCEPT ![k] = "returned"]
  /\ UNCHANGED <<conn, stateVars, pending, full, closed, result, sendMu, rl, rlCall,
                 wl, cl, panic>>

CallCleanup(k) ==
  /\ pc[k] = "cleanup"
  /\ pending' = pending \ {k}
  /\ pc' = [pc EXCEPT ![k] = "returned"]
  /\ UNCHANGED <<conn, stateVars, full, closed, result, sendMu, rl, rlCall, wl, cl, panic>>

-----------------------------------------------------------------------------
(* readLoop                                                                *)

(* Mutant: the lookup is not tested, and a nil channel is sent on.         *)
ReadResponseUntested(k) ==
  /\ rl = "read"
  /\ pc[k] \in {"wait", "cleanup", "returned"} /\ result[k] # "sendError"
  /\ rl' = "deliver" /\ rlCall' = IF k \in pending THEN k ELSE NoCall
  /\ UNCHANGED <<conn, stateVars, callVars, wl, cl, panic>>

(* A response to a request that was written; the lookup is under respMu.   *)
(* What the peer sent before it went away is still read.                   *)
ReadResponse(k) ==
  /\ rl = "read"
  /\ pc[k] \in {"wait", "cleanup", "returned"} /\ result[k] # "sendError"
  /\ k \in pending
  /\ rl' = "deliver" /\ rlCall' = k
  /\ UNCHANGED <<conn, stateVars, callVars, wl, cl, panic>>

(* The send, after the unlock: it panics if Close has closed the channel   *)
(* in between, and a channel that is full keeps its first response.        *)
Deliver ==
  /\ rl = "deliver"
  /\ panic' = IF closed[rlCall] THEN "send" ELSE panic
  /\ full' = [full EXCEPT ![rlCall] = @ \/ ~closed[rlCall]]
  /\ rl' = "read"
  /\ UNCHANGED <<conn, stateVars, pending, closed, pc, result, sendMu, rlCall, wl, cl>>

(* Mutant: the readLoop returns without its deferred Close.                *)
ReadFailsNoClose ==
  /\ rl = "read" /\ conn \in {"broken", "closed"}
  /\ rl' = "dead"
  /\ UNCHANGED <<conn, stateVars, callVars, rlCall, wl, cl, panic>>

ReadFails ==
  /\ rl = "read" /\ conn \in {"broken", "closed"}
  /\ rl' = "dead"
  /\ cl' = [cl EXCEPT ![ReadLoop] = "enter"]
  /\ UNCHANGED <<conn, stateVars, callVars, rlCall, wl, panic>>

-----------------------------------------------------------------------------
(* writeLoop: it never gets a message to send; it pings without sendMu.    *)

PingBegins ==
  /\ wl = "idle" /\ wl' = "ping"
  /\ UNCHANGED <<conn, stateVars, callVars, rl, rlCall, cl, panic>>

PingEnds ==
  /\ wl = "ping"
  /\ \/ conn \in {"open", "broken"} /\ wl' = "idle"
     \/ conn # "open" /\ wl' = "dead"
  /\ UNCHANGED <<conn, stateVars, callVars, rl, rlCall, cl, panic>>

WriteLoopDone ==
  /\ wl = "idle" /\ done
  /\ wl' = "dead"
  /\ UNCHANGED <<conn, stateVars, callVars, rl, rlCall, cl, panic>>

-----------------------------------------------------------------------------
(* Close                                                                   *)

CloseCalled(x) ==
  /\ x \in Closers /\ cl[x] = "idle"
  /\ cl' = [cl EXCEPT ![x] = "enter"]
  /\ UNCHANGED <<conn, stateVars, callVars, rl, rlCall, wl, panic>>

(* Mutant: without the sync.Once every Close runs the whole cleanup.       *)
CloseEntersAlways(x) ==
  /\ cl[x] = "enter"
  /\ cl' = [cl EXCEPT ![x] = IF conn = "nil" THEN "returned" ELSE "state"]
  /\ UNCHANGED <<conn, stateVars, callVars, rl, rlCall, wl, panic>>

(* once.Do: a second caller waits for the first; the function returns at   *)
(* once on a client that has no connection, and is used up all the same.   *)
CloseEnters(x) ==
  /\ cl[x] = "enter" /\ once # "busy"
  /\ \/ /\ once = "new" /\ conn # "nil"
        /\ once' = "busy" /\ cl' = [cl EXCEPT ![x] = "state"]
        /\ overtook' = (overtook \/ ct \in {"run", "state"})
     \/ /\ once = "used" \/ conn = "nil"
        /\ once' = "used" /\ cl' = [cl EXCEPT ![x] = "returned"]
        /\ UNCHANGED overtook
  /\ UNCHANGED <<conn, running, connected, done, reused, ct, callVars, rl, rlCall, wl,
                 panic>>

CloseSetsState(x) ==
  /\ cl[x] = "state"
  /\ connected' = FALSE
  /\ cl' = [cl EXCEPT ![x] = "stop"]
  /\ UNCHANGED <<conn, running, done, once, reused, overtook, ct, callVars, rl, rlCall,
                 wl, panic>>

CloseStops(x) ==
  /\ cl[x] = "stop"
  /\ running' = FALSE
  /\ cl' = [cl EXCEPT ![x] = "done"]
  /\ UNCHANGED <<conn, connected, done, once, reused, overtook, ct, callVars, rl, rlCall,
                 wl, panic>>

(* Mutant: done is left open.                                              *)
CloseForgetsDone(x) ==
  /\ cl[x] = "done"
  /\ cl' = [cl EXCEPT ![x] = "cancel"]
  /\ UNCHANGED <<conn, stateVars, callVars, rl, rlCall, wl, panic>>

(* close(c.done), which panics if done is closed already.                  *)
CloseClosesDone(x) ==
  /\ cl[x] = "done"
  /\ panic' = IF done THEN "close" ELSE panic
  /\ done' = TRUE
  /\ cl' = [cl EXCEPT ![x] = "cancel"]
  /\ UNCHANGED <<conn, running, connected, once, reused, overtook, ct, callVars, rl,
                 rlCall, wl>>

(* Under respMu: every listed channel is closed and taken off the list.    *)
CloseCancels(x) ==
  /\ cl[x] = "cancel"
  /\ closed' = [k \in Calls |-> closed[k] \/ k \in pending]
  /\ pending' = {}
  /\ cl' = [cl EXCEPT ![x] = "conn"]
  /\ UNCHANGED <<conn, stateVars, full, pc, result, sendMu, rl, rlCall, wl, panic>>

(* Mutant: the socket is left to the readLoop, which does not close it.    *)
CloseKeepsConn(x) ==
  /\ cl[x] = "conn"
  /\ once' = "used"
  /\ cl' = [cl EXCEPT ![x] = "returned"]
  /\ UNCHANGED <<conn, running, connected, done, reused, overtook, ct, callVars, rl,
                 rlCall, wl, panic>>

CloseClosesConn(x) ==
  /\ cl[x] = "conn"
  /\ conn' = "closed" /\ once' = "used"
  /\ cl' = [cl EXCEPT ![x] = "returned"]
  /\ UNCHANGED <<running, connected, done, reused, overtook, ct, callVars, rl, rlCall,
                 wl, panic>>

-----------------------------------------------------------------------------
CallRuns(k) == CallLock(k) \/ CallCleanup(k) \/ (\E ok \in BOOLEAN : CallWritten(k, ok))
               \/ CallReturns(k, "response") \/ CallReturns(k, "closed")

CallStep(k) == CallRegister(k) \/ CallRuns(k) \/ CallReturns(k, "ctx")

ReadStep  == (\E k \in Calls : ReadResponse(k)) \/ Deliver \/ ReadFails
WriteStep == PingBegins \/ PingEnds \/ WriteLoopDone
CloseRuns(x) == CloseEnters(x) \/ CloseSetsState(x) \/ CloseStops(x)
                \/ CloseClosesDone(x) \/ CloseCancels(x) \/ CloseClosesConn(x)
ConnectRest == ConnectRuns \/ ConnectSetsState \/ ConnectLoops

(* An unrecovered panic ends the process.                                  *)
Crashed == panic # "none" /\ UNCHANGED vars

Next ==
  \/ /\ panic = "none"
     /\ \/ ConnectDials \/ ConnectRest \/ ConnBreaks \/ ReadStep \/ WriteStep
        \/ \E k \in Calls : CallStep(k)
        \/ \E x \in AllClosers : CloseCalled(x) \/ CloseRuns(x)
  \/ Crashed

Spec == Init /\ [][Next]_vars

(* The goroutines run.  A response need not come, a context need not end,  *)
(* nobody needs to connect, close or break the connection.  The read from  *)
(* the network fails once the connection is gone.                          *)
Alive(A) == panic = "none" /\ A

Fairness ==
  /\ \A k \in Calls : WF_vars(Alive(CallRuns(k)))
  /\ \A x \in AllClosers : WF_vars(Alive(CloseRuns(x)))
  /\ WF_vars(Alive(ConnectRest))
  /\ WF_vars(Alive(Deliver \/ ReadFails)) /\ WF_vars(Alive(PingEnds \/ WriteLoopDone))

FairSpec == Spec /\ Fairness

-----------------------------------------------------------------------------
(* What the code guarantees.                                               *)

(* The regression client_close_test.go guards: concurrent Closes, by the   *)
(* caller and by the readLoop, close c.done once.                          *)
DoneClosedOnce == panic # "close"

(* The list of pending calls does not leak: a call is listed only while it *)
(* runs, although Close and the call itself both take entries off.         *)
PendingIsInFlight == \A k \in pending : pc[k] \in {"lock", "write", "wait", "cleanup"}

(* A Close that has returned leaves no usable connection behind, whoever   *)
(* of several Closes did the work, and the client no longer says that it is*)
(* connected - on a client connected once.  Only if the Close began before *)
(* Connect had set running and state can Connect put them back.            *)
ClosedForEverybody ==
  ~reused /\ conn # "nil" =>
    \A x \in AllClosers : cl[x] = "returned" =>
      conn = "closed" /\ done /\ (running \/ connected => overtook)

(* PROTOCOL_SPEC.md 8.1: when the connection goes away every waiting call  *)
(* returns - unless the process crashes or the client has been reused.     *)
DropReleasesCalls ==
  \A k \in Calls :
    (pc[k] \in {"lock", "write", "wait"} /\ conn \in {"broken", "closed"})
      ~> pc[k] = "returned" \/ panic # "none" \/ reused

(* Both loops of a closed client end.                                      *)
LoopsEnd ==
  conn = "closed" ~> (rl = "dead" /\ wl = "dead") \/ panic # "none" \/ reused

-----------------------------------------------------------------------------
(* What the repository says and the code does not do.                      *)

(* docs/gateway.md: Close cleans up the pending requests.  In the code the *)
(* readLoop may be about to answer one of them, and the process crashes.   *)
CloseIsSafe == panic # "send"
=============================================================================
