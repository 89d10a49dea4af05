---------------------------- MODULE StreamingCall ----------------------------
(***************************************************************************)
(* What Client.Call promises its caller, whatever is between the two sides:*)
(* the method runs once at most, and not unasked; the client handles no    *)
(* notification that the method has not streamed, and none twice; a call   *)
(* returns with an answer only when its method is done and everything that *)
(* it has streamed was handled, so that nothing comes after the answer.    *)
(* A call may fail at any time, and its method then runs on.               *)
(***************************************************************************)
EXTENDS Naturals

CONSTANTS
  Calls,     (* The calls.                                                 *)
  MaxNotes   (* A method streams so many notifications at most.            *)

VARIABLES
  outcome,     (* per call: not made, open, returned or failed             *)
  method,      (* per call: its method has not begun, runs or is done      *)
  streamed,    (* per call: the notifications of its method                *)
  handled,     (* per call: those that the client has handled              *)
  unanswered   (* the calls whose answer gets lost                         *)

vars == <<outcome, method, streamed, handled, unanswered>>

Init ==
  /\ outcome = [k \in Calls |-> "idle"] /\ method = [k \in Calls |-> "none"]
  /\ streamed = [k \in Calls |-> 0] /\ handled = [k \in Calls |-> 0]
  /\ unanswered = {}

Moves(k, from, to) ==
  /\ outcome[k] = from /\ outcome' = [outcome EXCEPT ![k] = to]
  /\ UNCHANGED <<method, streamed, handled, unanswered>>

Make(k) == Moves(k, "idle", "open")

Start(k) ==
  /\ outcome[k] # "idle" /\ method[k] = "none"
  /\ method' = [method EXCEPT ![k] = "running"]
  /\ UNCHANGED <<outcome, streamed, handled, unanswered>>

Stream(k) ==
  /\ method[k] = "running" /\ streamed[k] < MaxNotes
  /\ streamed' = [streamed EXCEPT ![k] = @ + 1]
  /\ UNCHANGED <<outcome, method, handled, unanswered>>

Handle(k) ==
  /\ handled[k] < streamed[k]
  /\ handled' = [handled EXCEPT ![k] = @ + 1]
  /\ UNCHANGED <<outcome, method, streamed, unanswered>>

Finish(k) ==
  /\ method[k] = "running"
  /\ method' = [method EXCEPT ![k] = "done"]
  /\ unanswered' \in {unanswered, unanswered \cup {k}}
  /\ UNCHANGED <<outcome, streamed, handled>>

Return(k) ==
  /\ method[k] = "done" /\ k \notin unanswered /\ handled[k] = streamed[k]
  /\ Moves(k, "open", "returned")

Fail(k) == Moves(k, "open", "failed")

Next ==
  \E k \in Calls : \/ Make(k) \/ Start(k) \/ Stream(k) \/ Handle(k)
                   \/ Finish(k) \/ Return(k) \/ Fail(k)

Spec == Init /\ [][Next]_vars
=============================================================================
