------------------------------ MODULE RoundTrip ------------------------------
(***************************************************************************)
(* A call from end to end: Client.Call on one side of a connection, the    *)
(* server's dispatch and the method handler on the other, and the way back *)
(* with the notifications that the handler streams before it answers.      *)
(*                                                                         *)
(* The way back is the lossy FIFO queue of module LossyFifo, which         *)
(* SendQueue is proved to implement: a full queue refuses, a broken        *)
(* connection loses a tail.  The order of the two sides is what matters    *)
(* here, so Close, the locks and the table are left to RpcClient and       *)
(* GatewayHub: a client whose connection is gone is closed by its readLoop,*)
(* and the server forgets a client when its readPump ends.                 *)
(***************************************************************************)
EXTENDS Naturals, Sequences

CONSTANTS
  Calls,        (* calls of Client.Call                                    *)
  ServerCalls,  (* calls of Server.Call to this client                     *)
  NoCall,       (* not a call                                              *)
  MaxNotes,     (* a method gets so many notifications accepted at most    *)
  Cap,          (* the send channel refuses from here on                   *)
  MaxFrame      (* a frame brings at most so many lines                    *)

ASSUME CallsAssumption == NoCall \notin Calls /\ Calls \cap ServerCalls = {}
ASSUME BoundsAssumption == MaxNotes \in Nat /\ Cap \in Nat /\ MaxFrame \in Nat

VARIABLES
  waiting, delivered, alive,   (* the way back, see LossyFifo; the client's*)
                (* readLoop takes the lines off delivered                  *)
  toServer,     (* lines under way to the server                           *)
  call,         (* how far each Client.Call is; "answered" says that its   *)
                (* channel holds the response                              *)
  rl,           (* the client's readLoop                                   *)
  note,         (* the call whose notification it handles                  *)
  nested,       (* the call that the handler has made                      *)
  method,       (* the goroutine that runs the method of each call         *)
  accepted,     (* the notifications it has sent and that were not refused *)
  handled,      (* those of them that the client has handled               *)
  unheard,      (* calls whose answer cannot reach them: the queue refused *)
                (* it, or the client does not take it for a response       *)
  removed,      (* the server's readPump is over                           *)
  scall         (* how far each Server.Call is, likewise                   *)

backVars   == <<waiting, delivered, alive>>
clientVars == <<rl, note, nested, handled>>
serverVars == <<method, accepted, unheard, removed, scall>>
vars == <<backVars, toServer, call, clientVars, serverVars>>

Line  == [kind : {"note", "response", "null"}, id : Calls] \cup [kind : {"request"}, id : ServerCalls]
Up    == [kind : {"request"}, id : Calls] \cup [kind : {"response"}, id : ServerCalls]
Back  == INSTANCE LossyFifo WITH Msgs <- Line

(* A call that has returned, with its response or with an error.           *)
Over == {"returned", "failed"}

(* The module's type invariant.                                            *)
TypeOK ==
  /\ waiting \in Seq(Line) /\ delivered \in Seq(Line) /\ alive \in BOOLEAN
  /\ toServer \in Seq(Up)
  /\ call \in [Calls -> {"idle", "write", "wait", "answered", "returned", "failed"}]
  /\ rl \in {"read", "handler", "dead"} /\ note \in Calls \cup {NoCall}
  /\ nested \in Calls \cup {NoCall}
  /\ method \in [Calls -> {"none", "running", "done"}]
  /\ accepted \in [Calls -> 0 .. MaxNotes] /\ handled \in [Calls -> 0 .. MaxNotes]
  /\ unheard \in SUBSET Calls /\ removed \in BOOLEAN
  /\ scall \in [ServerCalls -> {"idle", "wait", "answered", "over"}]

Init ==
  /\ Back!Init /\ toServer = <<>>
  /\ call = [k \in Calls |-> "idle"]
  /\ rl = "read" /\ note = NoCall /\ nested = NoCall
  /\ method = [k \in Calls |-> "none"]
  /\ accepted = [k \in Calls |-> 0]
  /\ handled = [k \in Calls |-> 0]
  /\ unheard = {} /\ removed = FALSE
  /\ scall = [m \in ServerCalls |-> "idle"]

-----------------------------------------------------------------------------
(* The connection: writePump brings frames over, until it breaks.          *)
Frame(n) == Back!Deliver(n) /\ UNCHANGED <<toServer, call, clientVars, serverVars>>

Breaks == Back!Break /\ UNCHANGED <<toServer, call, clientVars, serverVars>>

Loses(n) == Back!Lose(n) /\ UNCHANGED <<toServer, call, clientVars, serverVars>>

-----------------------------------------------------------------------------
(* Client.Call                                                             *)

Moves(k, from, to) ==
  /\ call[k] \in from /\ call' = [call EXCEPT ![k] = to]
  /\ UNCHANGED <<backVars, serverVars>>

Begins(k) == Moves(k, {"idle"}, "write") /\ UNCHANGED toServer

(* The channel is listed under c.pending before the request is written.    *)
CallRegisters(k) == Begins(k) /\ UNCHANGED clientVars

(* A notification handler that calls the server, with SendCommand.         *)
HandlerCalls(k) ==
  /\ rl = "handler" /\ nested = NoCall
  /\ Begins(k) /\ nested' = k
  /\ UNCHANGED <<rl, note, handled>>

(* The write; on a broken connection it fails or is lost in a buffer.      *)
CallWrites(k) ==
  /\ Moves(k, {"write"}, "wait") /\ UNCHANGED clientVars
  /\ toServer' = IF alive THEN Append(toServer, [kind |-> "request", id |-> k]) ELSE toServer

Ends(k, from, how) == Moves(k, from, how) /\ UNCHANGED <<toServer, clientVars>>

WriteFails(k) == ~alive /\ Ends(k, {"write"}, "failed")

CallAnswered(k) == Ends(k, {"answered"}, "returned")

(* Close, deferred by the readLoop, releases the calls.                    *)
CallClosed(k) == rl = "dead" /\ Ends(k, {"wait", "answered"}, "failed")

CallTimesOut(k) == Ends(k, {"wait", "answered"}, "failed")

-----------------------------------------------------------------------------
(* The client's readLoop: lines are handled one by one, in their order.    *)

NextLine == Head(delivered)

TakesLine(kind) ==
  /\ rl = "read" /\ delivered # <<>> /\ NextLine.kind = kind
  /\ delivered' = Tail(delivered)
  /\ UNCHANGED <<waiting, alive, nested, serverVars>>

(* Mutant: the handler runs in a goroutine, and the loop goes on.          *)
ReadNoteAsync ==
  /\ TakesLine("note")
  /\ UNCHANGED <<toServer, call, rl, note, handled>>

ReadNote ==
  /\ TakesLine("note") /\ rl' = "handler" /\ note' = NextLine.id
  /\ UNCHANGED <<toServer, call, handled>>

(* Mutant: the loop does not get past the notification.                    *)
HandlerReturnsToItself ==
  /\ rl = "handler" /\ (nested = NoCall \/ (nested # NoCall /\ call[nested] \in Over))
  /\ nested' = NoCall
  /\ handled' = [handled EXCEPT ![note] = @ + 1]
  /\ UNCHANGED <<backVars, toServer, call, rl, note, serverVars>>

(* The handler is over - not before the call that it made, if it made one. *)
HandlerReturns ==
  /\ rl = "handler" /\ (nested = NoCall \/ (nested # NoCall /\ call[nested] \in Over))
  /\ rl' = "read" /\ note' = NoCall /\ nested' = NoCall
  /\ handled' = [handled EXCEPT ![note] = @ + 1]
  /\ UNCHANGED <<backVars, toServer, call, serverVars>>

(* A response whose call has returned finds no channel.                    *)
ReadResponse ==
  /\ TakesLine("response")
  /\ call' = [call EXCEPT ![NextLine.id] = IF @ = "wait" THEN "answered" ELSE @]
  /\ UNCHANGED <<toServer, rl, note, handled>>

(* This client has no way to answer a request of the server; another       *)
(* implementation of the protocol has.                                     *)
ReadRequest ==
  /\ TakesLine("request")
  /\ toServer' \in {toServer, Append(toServer, [kind |-> "response", id |-> NextLine.id])}
  /\ UNCHANGED <<call, rl, note, handled>>

(* What the broken connection has brought may be read before or be lost.   *)
ReadLoopEnds ==
  /\ rl = "read" /\ ~alive
  /\ rl' = "dead"
  /\ UNCHANGED <<backVars, toServer, call, note, nested, handled, serverVars>>

(* A response whose result is null is no message the loop knows.           *)
ReadNull == TakesLine("null") /\ UNCHANGED <<toServer, call, rl, note, handled>>

-----------------------------------------------------------------------------
(* The server: readPump dispatches, methods run in goroutines.             *)

(* readPump hands the lines to dispatchMessage, which tells them apart.    *)
Dispatches(kind) ==
  /\ toServer # <<>> /\ ~removed /\ Head(toServer).kind = kind
  /\ toServer' = Tail(toServer)
  /\ UNCHANGED <<backVars, call, clientVars, accepted, unheard, removed>>

Arriving == Head(toServer).id

(* Mutant: a request with an id is taken for a notification.               *)
DispatchRequestAsNote == Dispatches("request") /\ UNCHANGED <<method, scall>>

(* A request starts a goroutine that runs its method.                      *)
DispatchRequest ==
  /\ Dispatches("request")
  /\ method' = [method EXCEPT ![Arriving] = "running"]
  /\ UNCHANGED scall

(* A response is handed to the Server.Call that still waits for it.        *)
DispatchResponse ==
  /\ Dispatches("response")
  /\ scall' = [scall EXCEPT ![Arriving] = IF @ = "wait" THEN "answered" ELSE @]
  /\ UNCHANGED method

PumpEnds ==
  /\ ~alive /\ ~removed
  /\ removed' = TRUE /\ toServer' = <<>>
  /\ UNCHANGED <<backVars, call, clientVars, method, accepted, unheard, scall>>

(* Notify: unknown clients get an error and nothing is sent.               *)
MethodNotifies(k) ==
  /\ method[k] = "running" /\ ~removed
  /\ \/ /\ accepted[k] < MaxNotes /\ Back!Accept([kind |-> "note", id |-> k])
        /\ accepted' = [accepted EXCEPT ![k] = @ + 1]
     \/ Back!Refuse /\ UNCHANGED accepted
  /\ UNCHANGED <<toServer, call, clientVars, method, unheard, removed, scall>>

(* Mutant: the request is answered when it is accepted, not when it is done.*)
MethodAnswersAtOnce(k) ==
  /\ method[k] = "running" /\ ~removed
  /\ Back!Accept([kind |-> "response", id |-> k]) \/ Back!Refuse
  /\ UNCHANGED <<toServer, call, clientVars, serverVars>>

(* The method returns and its result, or its error, is sent; the result of *)
(* a method that has none is null.  What is sent to a client that has left *)
(* reaches nobody; GatewayHub shows what else such a send can do.          *)
MethodAnswers(k) ==
  /\ method[k] = "running"
  /\ method' = [method EXCEPT ![k] = "done"]
  /\ \/ ~removed /\ Back!Accept([kind |-> "response", id |-> k]) /\ UNCHANGED unheard
     \/ /\ ~removed /\ (Back!Accept([kind |-> "null", id |-> k]) \/ Back!Refuse)
        /\ unheard' = unheard \cup {k}
     \/ removed /\ UNCHANGED <<backVars, unheard>>
  /\ UNCHANGED <<toServer, call, clientVars, accepted, removed, scall>>

(* Server.Call                                                             *)
ServerCall(m) ==
  /\ scall[m] = "idle" /\ ~removed
  /\ scall' = [scall EXCEPT ![m] = "wait"]
  /\ Back!Accept([kind |-> "request", id |-> m]) \/ Back!Refuse
  /\ UNCHANGED <<toServer, call, clientVars, method, accepted, unheard, removed>>

(* It returns with the response or with its context; a disconnect of the   *)
(* client does not release it.                                             *)
ServerCallReturns(m) ==
  /\ scall[m] \in {"wait", "answered"}
  /\ scall' = [scall EXCEPT ![m] = "over"]
  /\ UNCHANGED <<backVars, toServer, call, clientVars, method, accepted, unheard,
                 removed>>

-----------------------------------------------------------------------------
CallRuns(k) == CallWrites(k) \/ WriteFails(k) \/ CallAnswered(k) \/ CallClosed(k)
ReadRuns    == ReadNote \/ HandlerReturns \/ ReadResponse \/ ReadNull \/ ReadRequest
               \/ ReadLoopEnds
PumpRuns    == DispatchRequest \/ DispatchResponse \/ PumpEnds
FrameComes  == \E n \in 1 .. MaxFrame : Frame(n)

Next ==
  \/ FrameComes \/ Breaks
  \/ \E n \in 1 .. Len(waiting) : Loses(n)
  \/ \E k \in Calls : \/ CallRegisters(k) \/ HandlerCalls(k) \/ CallRuns(k)
                      \/ CallTimesOut(k) \/ MethodNotifies(k) \/ MethodAnswers(k)
  \/ ReadRuns \/ PumpRuns
  \/ \E m \in ServerCalls : ServerCall(m) \/ ServerCallReturns(m)

Spec == Init /\ [][Next]_vars

(* The goroutines run, methods return, and a call that a notification      *)
(* handler makes times out (SendCommand allows it 30 seconds).  No other   *)
(* call need time out, and nothing breaks the connection.                  *)
Fairness ==
  /\ WF_vars(FrameComes) /\ WF_vars(ReadRuns) /\ WF_vars(PumpRuns)
  /\ \A k \in Calls : /\ WF_vars(CallRuns(k)) /\ WF_vars(MethodAnswers(k))
                      /\ WF_vars(k = nested /\ CallTimesOut(k))

FairSpec == Spec /\ Fairness

-----------------------------------------------------------------------------
(* When a call returns with its answer, the client has handled every       *)
(* notification that the method streamed and the server did not refuse:    *)
(* one channel on the server and one loop on the client keep their order.  *)
NotesBeforeAnswer ==
  \A k \in Calls : call[k] = "returned" => handled[k] = accepted[k]

(* A response is never handed to a call before its method is done, and     *)
(* never when the server refused it or its result is null.                 *)
AnswerIsReal ==
  \A k \in Calls :
    call[k] \in {"answered", "returned"} => method[k] = "done" /\ k \notin unheard

(* From end to end a call is what StreamingCall promises: the connection,  *)
(* the queue and the two loops add nothing that its caller can see.        *)
Outcome ==
  [k \in Calls |-> IF call[k] \in {"write", "wait", "answered"} THEN "open" ELSE call[k]]

Streaming == INSTANCE StreamingCall WITH
  outcome <- Outcome, streamed <- accepted, unanswered <- unheard

StreamingSpec == Streaming!Spec

(* Every call returns, with a context or without: it is answered, or the   *)
(* disconnect releases it - unless its answer is refused by the server or  *)
(* is null, which only the context of the call can make up for.  A         *)
(* notification handler that calls back holds the readLoop up, and not for *)
(* ever.                                                                   *)
CallsReturn == \A k \in Calls : call[k] = "wait" ~> call[k] \in Over \/ k \in unheard
=============================================================================
