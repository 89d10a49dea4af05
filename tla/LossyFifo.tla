------------------------------ MODULE LossyFifo ------------------------------
(***************************************************************************)
(* What the server promises of the messages queued for one client: they    *)
(* arrive in the order they were accepted, none twice and none left out in *)
(* the middle; and when the connection breaks a tail of the accepted       *)
(* messages is lost.  A message is refused only while at least Cap others  *)
(* wait; as a refusal changes no variable, this is for the theorem         *)
(* RefusalsAreRight of SendQueueProofs to say.                             *)
(***************************************************************************)
EXTENDS Naturals, Sequences

CONSTANTS
  Msgs,     (* The messages.                                               *)
  Cap,      (* A message may be refused when this many are waiting.        *)
  MaxFrame  (* At most so many messages arrive at once.                    *)

VARIABLES
  waiting,    (* accepted messages that have not arrived                   *)
  delivered,  (* messages that have arrived                                *)
  alive       (* the connection still delivers                             *)

vars == <<waiting, delivered, alive>>

Init == waiting = <<>> /\ delivered = <<>> /\ alive = TRUE

Accept(m) == /\ waiting' = Append(waiting, m)
             /\ UNCHANGED <<delivered, alive>>

Refuse == Len(waiting) >= Cap /\ UNCHANGED vars

Deliver(n) ==
  /\ alive /\ n \in 1 .. MaxFrame /\ n <= Len(waiting)
  /\ delivered' = delivered \o SubSeq(waiting, 1, n)
  /\ waiting' = SubSeq(waiting, n + 1, Len(waiting))
  /\ alive' = alive

(* The connection breaks for good, and what still waits gets lost.         *)
Break == alive /\ alive' = FALSE /\ UNCHANGED <<waiting, delivered>>

Lose(n) ==
  /\ ~alive /\ n \in 1 .. Len(waiting)
  /\ waiting' = SubSeq(waiting, n + 1, Len(waiting))
  /\ UNCHANGED <<delivered, alive>>

Next ==
  \/ \E m \in Msgs : Accept(m)
  \/ Refuse
  \/ \E n \in 1 .. MaxFrame : Deliver(n)
  \/ Break
  \/ \E n \in 1 .. Len(waiting) : Lose(n)

Spec == Init /\ [][Next]_vars
=============================================================================
