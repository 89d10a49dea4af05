------------------------------ MODULE SendQueue ------------------------------
(***************************************************************************)
(* One client's send channel, the senders that fill it and the writePump   *)
(* that empties it (sendToClient and writePump in pkg/gateway/server.go).  *)
(* The pump takes one message, opens a WebSocket frame with it and adds    *)
(* what else is queued, counting up to a length that changes meanwhile:    *)
(*                                                                         *)
(*     for i := 0; i < len(c.send); i++ { ... w.Write(<-c.send) }          *)
(*                                                                         *)
(* Messages are numbered in the order in which senders offer them.  The    *)
(* teardown by the readPump is two steps here, cancelling the context and  *)
(* closing the channel; module GatewayHub has all of it, and what happens  *)
(* to a sender that comes after the close.                                 *)
(***************************************************************************)
EXTENDS Naturals, Sequences, SequencesExt

CONSTANTS
  Cap,       (* cap(c.send), 256 in the code                               *)
  MaxMsgs    (* bound on the messages offered                              *)

ASSUME CapAssumption == Cap \in Nat \ {0}
ASSUME MaxMsgsAssumption == MaxMsgs \in Nat

VARIABLES
  offered,   (* number of messages offered so far                          *)
  sent,      (* history: the messages sendToClient queued                  *)
  queue,     (* the buffer of c.send                                       *)
  closed,    (* c.send has been closed                                     *)
  ctxDone,   (* c.ctx has been cancelled                                   *)
  pump,      (* program counter of writePump                               *)
  i,         (* its loop variable                                          *)
  frame,     (* messages written to the frame that is open                 *)
  wire,      (* messages flushed to the peer                               *)
  connUp     (* writes succeed; a failed connection never recovers         *)

vars == <<offered, sent, queue, closed, ctxDone, pump, i, frame, wire, connUp>>

(* The module's type invariant.                                            *)
TypeOK ==
  /\ offered \in Nat /\ i \in Nat
  /\ sent \in Seq(Nat) /\ queue \in Seq(Nat) /\ Len(queue) <= Cap
  /\ frame \in Seq(Nat) /\ wire \in Seq(Nat)
  /\ closed \in BOOLEAN /\ ctxDone \in BOOLEAN /\ connUp \in BOOLEAN
  /\ pump \in {"select", "test", "receive", "dead"}

Init ==
  /\ offered = 0 /\ sent = <<>> /\ queue = <<>>
  /\ closed = FALSE /\ ctxDone = FALSE
  /\ pump = "select" /\ i = 0 /\ frame = <<>>
  /\ wire = <<>> /\ connUp = TRUE

-----------------------------------------------------------------------------
(* Mutant: the select without the default case, on a channel that grows.   *)
SendToClientUnbounded ==
  /\ offered < MaxMsgs /\ ~closed
  /\ offered' = offered + 1
  /\ queue' = Append(queue, offered') /\ sent' = Append(sent, offered')
  /\ UNCHANGED <<closed, ctxDone, pump, i, frame, wire, connUp>>

(* Mutant: a full channel makes room by dropping its oldest message.       *)
SendToClientDropsOldest ==
  /\ offered < MaxMsgs /\ ~closed
  /\ offered' = offered + 1
  /\ queue' = Append(IF Len(queue) < Cap THEN queue ELSE Tail(queue), offered')
  /\ sent' = Append(sent, offered')
  /\ UNCHANGED <<closed, ctxDone, pump, i, frame, wire, connUp>>

(* The message is queued if there is room, and dropped otherwise.          *)
SendToClient ==
  /\ offered < MaxMsgs /\ ~closed
  /\ offered' = offered + 1
  /\ IF Len(queue) < Cap
       THEN queue' = Append(queue, offered') /\ sent' = Append(sent, offered')
       ELSE UNCHANGED <<queue, sent>>
  /\ UNCHANGED <<closed, ctxDone, pump, i, frame, wire, connUp>>

-----------------------------------------------------------------------------
(* Mutant: the frame is opened, the first message is not written to it.    *)
TakeFirstUnwritten ==
  /\ pump = "select" /\ queue # <<>> /\ connUp
  /\ queue' = Tail(queue)
  /\ pump' = "test" /\ i' = 0
  /\ UNCHANGED <<offered, sent, closed, ctxDone, frame, wire, connUp>>

(* case data := <-c.send with a working connection: a frame is opened.     *)
TakeFirst ==
  /\ pump = "select" /\ queue # <<>> /\ connUp
  /\ queue' = Tail(queue)
  /\ frame' = <<Head(queue)>>
  /\ pump' = "test" /\ i' = 0
  /\ UNCHANGED <<offered, sent, closed, ctxDone, wire, connUp>>

(* The same on a failed connection: NextWriter returns the error, the      *)
(* message is gone and so is the pump.                                     *)
TakeFirstFails ==
  /\ pump = "select" /\ queue # <<>> /\ ~connUp
  /\ queue' = Tail(queue)
  /\ pump' = "dead"
  /\ UNCHANGED <<offered, sent, closed, ctxDone, i, frame, wire, connUp>>

(* Mutant: the length is read once too often, as with i <= len(c.send).    *)
TestMoreOffByOne ==
  /\ pump = "test" /\ i <= Len(queue)
  /\ pump' = "receive"
  /\ UNCHANGED <<offered, sent, queue, closed, ctxDone, i, frame, wire, connUp>>

TestMore ==
  /\ pump = "test" /\ i < Len(queue)
  /\ pump' = "receive"
  /\ UNCHANGED <<offered, sent, queue, closed, ctxDone, i, frame, wire, connUp>>

(* Mutant: the loop counts nothing, as with for len(c.send) > 0.           *)
ReceiveMoreUncounted ==
  /\ pump = "receive" /\ queue # <<>>
  /\ frame' = Append(frame, Head(queue))
  /\ queue' = Tail(queue)
  /\ pump' = "test"
  /\ UNCHANGED <<offered, sent, closed, ctxDone, i, wire, connUp>>

(* w.Write(<-c.send): it would block on an empty channel.                  *)
ReceiveMore ==
  /\ pump = "receive" /\ queue # <<>>
  /\ frame' = Append(frame, Head(queue))
  /\ queue' = Tail(queue)
  /\ pump' = "test" /\ i' = i + 1
  /\ UNCHANGED <<offered, sent, closed, ctxDone, wire, connUp>>

(* Mutant: the loop ends, the writer is not closed and never flushed.      *)
FlushForgotten ==
  /\ pump = "test" /\ ~(i < Len(queue))
  /\ pump' = "select"
  /\ UNCHANGED <<offered, sent, queue, closed, ctxDone, i, frame, wire, connUp>>

(* The loop ends and w.Close flushes the frame; its error is not looked at.*)
Flush ==
  /\ pump = "test" /\ ~(i < Len(queue))
  /\ wire' = IF connUp THEN wire \o frame ELSE wire
  /\ frame' = <<>>
  /\ pump' = "select"
  /\ UNCHANGED <<offered, sent, queue, closed, ctxDone, i, connUp>>

(* The select's other exits: the channel is closed and drained, the ping   *)
(* fails, or the context is done - the last with messages still queued.    *)
PumpReturns ==
  /\ pump = "select"
  /\ (closed /\ queue = <<>>) \/ ~connUp \/ ctxDone
  /\ pump' = "dead"
  /\ UNCHANGED <<offered, sent, queue, closed, ctxDone, i, frame, wire, connUp>>

-----------------------------------------------------------------------------
ConnFails ==
  /\ connUp /\ connUp' = FALSE
  /\ UNCHANGED <<offered, sent, queue, closed, ctxDone, pump, i, frame, wire>>

(* The readPump's deferred calls, in their order.                          *)
CancelContext ==
  /\ ~ctxDone /\ ctxDone' = TRUE
  /\ UNCHANGED <<offered, sent, queue, closed, pump, i, frame, wire, connUp>>

CloseSend ==
  /\ ctxDone /\ ~closed /\ closed' = TRUE
  /\ UNCHANGED <<offered, sent, queue, ctxDone, pump, i, frame, wire, connUp>>

Pump == TakeFirst \/ TakeFirstFails \/ TestMore \/ ReceiveMore \/ Flush \/ PumpReturns

Next == SendToClient \/ Pump \/ ConnFails \/ CancelContext \/ CloseSend

Spec == Init /\ [][Next]_vars

(* Go runs the pump; senders, failures and the teardown come or do not.    *)
FairSpec == Spec /\ WF_vars(Pump)

-----------------------------------------------------------------------------
(* The receive inside the batch loop finds a message: only the pump takes  *)
(* from the channel, so the length it has tested can only have grown.      *)
BatchNeverBlocks == pump = "receive" => queue # <<>>

(* However fast senders refill the channel while a frame is open, the frame*)
(* ends: it holds at most one channel's worth of messages and the first.   *)
FrameBounded == Len(frame) <= Cap + 1

(* While the connection works and the pump runs, every queued message is in*)
(* exactly one place and in order: on the wire, in the frame or queued.    *)
NothingVanishes == connUp /\ pump # "dead" => sent = wire \o frame \o queue

(* Whatever fails, and whenever: what arrives is a prefix of what was      *)
(* queued, with nothing missing in its middle.                             *)
NoGapOnWire == IsPrefix(wire, sent)

(* The channel and the pump implement the lossy first-in-first-out queue.  *)
Fifo == INSTANCE LossyFifo WITH
  Msgs      <- 1 .. MaxMsgs,
  MaxFrame  <- Cap + 1,
  waiting   <- frame \o queue,
  delivered <- wire,
  alive     <- connUp /\ pump # "dead"

FifoSpec == Fifo!Spec

(* A queued message arrives, unless the connection fails or is torn down:  *)
(* the batch loop cannot hold a frame back forever.                        *)
QueuedArrives ==
  \A n \in 1 .. MaxMsgs :
    Len(sent) >= n ~> Len(wire) >= n \/ ~connUp \/ ctxDone
=============================================================================
