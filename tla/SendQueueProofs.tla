--------------------------- MODULE SendQueueProofs ---------------------------
(***************************************************************************)
(* The batch loop of writePump for a channel of any capacity.  The loop    *)
(* variable counts what the frame holds beyond its first message, and it is*)
(* compared with a length that never exceeds the capacity.                 *)
(***************************************************************************)
EXTENDS SendQueue, SequenceTheorems, TLAPS

(* The loop is between its test and its next receive, or about to test.    *)
Batching == pump \in {"test", "receive"}

FrameCounts ==
  /\ Batching => Len(frame) = i + 1 /\ i <= Cap
  /\ ~Batching => frame = <<>>

ReceiveHasMore == pump = "receive" => i < Len(queue)

IInv == TypeOK /\ FrameCounts /\ ReceiveHasMore

(* An empty channel and no open frame.                                     *)
LEMMA InitIInv == Init => IInv
<1> SUFFICES ASSUME Init PROVE IInv
  OBVIOUS
<1>1. queue = <<>> /\ frame = <<>> /\ wire = <<>> /\ sent = <<>>
  BY DEF Init
<1>2. /\ queue \in Seq(Nat) /\ frame \in Seq(Nat) /\ wire \in Seq(Nat)
      /\ sent \in Seq(Nat) /\ Len(queue) = 0
  BY <1>1, EmptySeq
<1>3. TypeOK
  <2>1. closed \in BOOLEAN /\ ctxDone \in BOOLEAN /\ connUp \in BOOLEAN
    BY Zenon DEF Init
  <2>2. pump = "select" /\ offered = 0 /\ i = 0
    BY DEF Init
  <2>3. Len(queue) <= Cap
    BY <1>2, CapAssumption
  <2> QED BY <2>1, <2>2, <2>3, <1>2 DEF TypeOK
<1>4. FrameCounts /\ ReceiveHasMore
  BY <1>1 DEF Init, FrameCounts, ReceiveHasMore, Batching
<1> QED BY <1>3, <1>4 DEF IInv

(* Senders only lengthen the queue, and the pump is the only receiver.     *)
LEMMA NextIInv == IInv /\ [Next]_vars => IInv'
<1> SUFFICES ASSUME IInv, [Next]_vars PROVE IInv'
  OBVIOUS
<1> USE CapAssumption DEF IInv, TypeOK, FrameCounts, ReceiveHasMore, Batching
<1>1. CASE SendToClient
  <2>1. offered' \in Nat
    BY <1>1 DEF SendToClient
  <2>2. \A s \in Seq(Nat) : /\ Append(s, offered') \in Seq(Nat)
                           /\ Len(Append(s, offered')) = Len(s) + 1
    BY <2>1, AppendProperties
  <2>3. /\ queue' \in Seq(Nat) /\ sent' \in Seq(Nat)
        /\ Len(queue') <= Cap /\ Len(queue) <= Len(queue')
    <3>1. CASE Len(queue) < Cap
      <4>1. /\ queue' = Append(queue, offered') /\ sent' = Append(sent, offered')
        BY <1>1, <3>1 DEF SendToClient
      <4> QED BY <2>2, <3>1, <4>1
    <3>2. CASE ~(Len(queue) < Cap)
      BY <1>1, <3>2 DEF SendToClient
    <3> QED BY <3>1, <3>2
  <2> QED BY <1>1, <2>1, <2>3 DEF SendToClient
<1>2. CASE TakeFirst
  BY <1>2 DEF TakeFirst
<1>3. CASE TakeFirstFails
  BY <1>3 DEF TakeFirstFails
<1>4. CASE TestMore
  BY <1>4 DEF TestMore
<1>5. CASE ReceiveMore
  BY <1>5 DEF ReceiveMore
<1>6. CASE Flush
  BY <1>6 DEF Flush
<1>7. CASE PumpReturns
  BY <1>7 DEF PumpReturns
<1>8. CASE ConnFails
  BY <1>8 DEF ConnFails
<1>9. CASE CancelContext
  BY <1>9 DEF CancelContext
<1>10. CASE CloseSend
  BY <1>10 DEF CloseSend
<1>11. CASE UNCHANGED vars
  BY <1>11 DEF vars
<1> QED
  BY <1>1, <1>2, <1>3, <1>4, <1>5, <1>6, <1>7, <1>8, <1>9, <1>10, <1>11 DEF Next, Pump

(* The loop invariant holds throughout every behaviour.                    *)
THEOREM Inductive == Spec => []IInv
<1> QED BY InitIInv, NextIInv, PTL DEF Spec

(* The buffer never exceeds the capacity, and the state keeps its types.   *)
THEOREM TypeCorrect == Spec => []TypeOK
<1>1. IInv => TypeOK
  BY DEF IInv
<1> QED BY <1>1, Inductive, PTL

(* The receive inside the batch loop never blocks the pump.                *)
THEOREM BatchReceives == Spec => []BatchNeverBlocks
<1>1. IInv => BatchNeverBlocks
  BY DEF IInv, TypeOK, ReceiveHasMore, BatchNeverBlocks
<1> QED BY <1>1, Inductive, PTL

(* A frame holds at most one channel's worth of messages and the first.    *)
THEOREM FramesEnd == Spec => []FrameBounded
<1>1. IInv => FrameBounded
  BY CapAssumption DEF IInv, TypeOK, FrameCounts, Batching, FrameBounded
<1> QED BY <1>1, Inductive, PTL

-----------------------------------------------------------------------------
(* Three facts of sequences: concatenation is associative, appending to a  *)
(* concatenation appends to its last part, and a head moved from the right *)
(* part to the end of the left part changes nothing.                       *)
LEMMA ConcatRegroups ==
  ASSUME NEW a \in Seq(Nat), NEW b \in Seq(Nat), NEW e \in Seq(Nat)
  PROVE  (a \o b) \o e = a \o (b \o e)
BY ConcatAssociative, SMTT(60)

LEMMA AppendToConcat ==
  ASSUME NEW a \in Seq(Nat), NEW b \in Seq(Nat), NEW e \in Nat
  PROVE  a \o Append(b, e) = Append(a \o b, e)
<1>1. <<e>> \in Seq(Nat) /\ a \o b \in Seq(Nat)
  BY ConcatProperties
<1>2. Append(b, e) = b \o <<e>> /\ Append(a \o b, e) = (a \o b) \o <<e>>
  BY <1>1, AppendIsConcat
<1> QED BY <1>1, <1>2, ConcatRegroups

LEMMA HeadMoves ==
  ASSUME NEW a \in Seq(Nat), NEW b \in Seq(Nat), b # <<>>
  PROVE  Append(a, Head(b)) \o Tail(b) = a \o b
<1>1. Head(b) \in Nat /\ Tail(b) \in Seq(Nat) /\ <<Head(b)>> \in Seq(Nat)
  BY HeadTailProperties
<1>2. b = <<Head(b)>> \o Tail(b)
  <2>1. Len(b) \in Nat \ {0}
    BY EmptySeq
  <2>2. SubSeq(b, 1, Len(b)) = <<b[1]>> \o SubSeq(b, 2, Len(b))
    BY <2>1, SubSeqRecursiveFirst
  <2>3. Head(b) = b[1] /\ Tail(b) = SubSeq(b, 2, Len(b)) /\ SubSeq(b, 1, Len(b)) = b
    BY TailIsSubSeq, SubSeqFull
  <2> QED BY <2>2, <2>3
<1>3. Append(a, Head(b)) = a \o <<Head(b)>>
  BY <1>1, AppendIsConcat
<1>4. (a \o <<Head(b)>>) \o Tail(b) = a \o (<<Head(b)>> \o Tail(b))
  BY <1>1, ConcatRegroups
<1> QED BY <1>2, <1>3, <1>4

(* What is written but has not been flushed or is still queued, in order:  *)
(* the messages the peer has yet to get.                                   *)
Waiting == frame \o queue
Alive   == connUp /\ pump # "dead"

Ordered == Alive => sent = wire \o Waiting

(* How the steps that touch the messages change them.                      *)
LEMMA OfferSteps ==
  ASSUME IInv, SendToClient
  PROVE  /\ offered' \in Nat /\ wire' = wire /\ Waiting \in Seq(Nat)
         /\ \/ sent' = Append(sent, offered') /\ Waiting' = Append(Waiting, offered')
            \/ sent' = sent /\ Waiting' = Waiting /\ Len(queue) >= Cap
<1> USE DEF IInv, TypeOK, Waiting
<1>1. offered' \in Nat /\ wire' = wire /\ frame' = frame
  BY DEF SendToClient
<1>2. Waiting \in Seq(Nat)
  BY ConcatProperties
<1>3. CASE Len(queue) < Cap
  <2>1. sent' = Append(sent, offered') /\ queue' = Append(queue, offered')
    BY <1>3 DEF SendToClient
  <2>2. frame \o Append(queue, offered') = Append(frame \o queue, offered')
    BY <1>1, AppendToConcat
  <2> QED BY <1>1, <1>2, <2>1, <2>2
<1>4. CASE ~(Len(queue) < Cap)
  <2>1. sent' = sent /\ queue' = queue
    BY <1>4 DEF SendToClient
  <2>2. Len(queue) >= Cap
    BY <1>4, CapAssumption, LenProperties
  <2> QED BY <1>1, <1>2, <2>1, <2>2
<1> QED BY <1>3, <1>4

LEMMA TakeSteps ==
  ASSUME IInv, TakeFirst \/ ReceiveMore
  PROVE  Waiting' = Waiting /\ wire' = wire /\ sent' = sent
<1> USE DEF IInv, TypeOK, FrameCounts, Batching
<1>1. queue # <<>> /\ queue' = Tail(queue) /\ wire' = wire /\ sent' = sent
  BY DEF TakeFirst, ReceiveMore
<1>2. frame' = Append(frame, Head(queue))
  <2>1. CASE TakeFirst
    <3>1. frame = <<>> /\ frame' = <<Head(queue)>>
      BY <2>1 DEF TakeFirst
    <3>2. Append(<<>>, Head(queue)) = <<Head(queue)>>
      OBVIOUS
    <3> QED BY <3>1, <3>2
  <2> QED BY <2>1 DEF ReceiveMore
<1>3. Append(frame, Head(queue)) \o Tail(queue) = frame \o queue
  BY <1>1, HeadMoves
<1> QED BY <1>1, <1>2, <1>3 DEF Waiting

LEMMA FlushSteps ==
  ASSUME IInv, Flush
  PROVE  /\ Waiting' = queue /\ queue' = queue /\ sent' = sent /\ frame' = <<>>
         /\ wire' = IF connUp THEN wire \o frame ELSE wire
<1>1. frame' = <<>> /\ queue' = queue
  BY DEF Flush
<1>2. <<>> \o queue = queue
  BY ConcatEmptySeq DEF IInv, TypeOK
<1> QED BY <1>1, <1>2 DEF Flush, Waiting

(* Nothing vanishes while the pump and the connection work.                *)
LEMMA OrderedStep == IInv /\ Ordered /\ [Next]_vars => Ordered'
<1> SUFFICES ASSUME IInv, Ordered, [Next]_vars, Alive' PROVE sent' = (wire \o Waiting)'
  BY DEF Ordered
<1> USE DEF IInv, TypeOK
<1>1. Alive /\ sent = wire \o Waiting /\ Waiting \in Seq(Nat)
  <2>1. Alive
    BY DEF Alive, Next, Pump, vars, SendToClient, TakeFirst, TakeFirstFails, TestMore,
           ReceiveMore, Flush, PumpReturns, ConnFails, CancelContext, CloseSend
  <2> QED BY <2>1, ConcatProperties DEF Ordered, Waiting
<1>2. CASE SendToClient
  <2>1. \A m \in Nat : wire \o Append(Waiting, m) = Append(wire \o Waiting, m)
    BY <1>1, AppendToConcat
  <2> QED BY <1>1, <1>2, <2>1, OfferSteps
<1>3. CASE TakeFirst \/ ReceiveMore
  BY <1>1, <1>3, TakeSteps
<1>4. CASE Flush
  <2>1. wire' = wire \o frame /\ Waiting' = queue /\ sent' = sent
    BY <1>1, <1>4, FlushSteps DEF Alive
  <2>2. (wire \o frame) \o queue = wire \o (frame \o queue)
    BY ConcatRegroups
  <2> QED BY <1>1, <2>1, <2>2 DEF Waiting
<1>5. CASE TestMore \/ CancelContext \/ CloseSend \/ UNCHANGED vars
  BY <1>1, <1>5 DEF TestMore, CancelContext, CloseSend, vars, Waiting
<1>6. CASE TakeFirstFails \/ PumpReturns \/ ConnFails
  BY <1>6 DEF TakeFirstFails, PumpReturns, ConnFails, Alive
<1> QED BY <1>2, <1>3, <1>4, <1>5, <1>6 DEF Next, Pump

(* Every queued message is on the wire, in the frame or queued, in order,  *)
(* as long as the connection and the pump work.                            *)
THEOREM NoMessageVanishes == Spec => []NothingVanishes
<1>1. Init => Ordered
  BY ConcatEmptySeq, EmptySeq DEF Init, Ordered, Waiting
<1>2. IInv /\ Ordered => NothingVanishes
  <2>1. ASSUME IInv
        PROVE  wire \in Seq(Nat) /\ frame \in Seq(Nat) /\ queue \in Seq(Nat)
    BY <2>1 DEF IInv, TypeOK
  <2>2. ASSUME wire \in Seq(Nat), frame \in Seq(Nat), queue \in Seq(Nat)
        PROVE  (wire \o frame) \o queue = wire \o (frame \o queue)
    BY <2>2, ConcatRegroups
  <2> QED BY <2>1, <2>2 DEF Ordered, Alive, Waiting, NothingVanishes
<1> QED BY <1>1, <1>2, OrderedStep, Inductive, PTL DEF Spec

-----------------------------------------------------------------------------
(* IsPrefix, element by element.                                           *)
Begins(s, u) == Len(s) <= Len(u) /\ \A k \in 1 .. Len(s) : s[k] = u[k]

LEMMA BeginsIsPrefix ==
  ASSUME NEW s \in Seq(Nat), NEW u \in Seq(Nat), Begins(s, u)
  PROVE  IsPrefix(s, u)
<1>1. Len(s) \in Nat /\ Len(u) \in Nat /\ Len(s) <= Len(u)
  BY LenProperties DEF Begins
<1>2. SubSeq(s, 1, Len(s)) = s
  BY SubSeqFull
<1>3. \A k \in 1 .. Len(s) : u[k] \in Nat
  BY <1>1, ElementOfSeq
<1>4. /\ SubSeq(u, 1, Len(s)) \in Seq(Nat)
      /\ Len(SubSeq(u, 1, Len(s))) = Len(s)
      /\ \A k \in 1 .. Len(s) : SubSeq(u, 1, Len(s))[k] = u[k]
  BY <1>1, <1>3, SubSeqProperties
<1>5. s = SubSeq(u, 1, Len(s))
  BY <1>1, <1>4, SeqEqual DEF Begins
<1> QED BY <1>1, <1>2, <1>5 DEF IsPrefix

(* A flushed frame follows the wire in what was sent; everything else      *)
(* leaves the wire alone and can only append to what was sent.             *)
LEMMA BeginsStep ==
  IInv /\ Ordered /\ Begins(wire, sent) /\ [Next]_vars => Begins(wire, sent)'
<1> SUFFICES ASSUME IInv, Ordered, Begins(wire, sent), [Next]_vars
             PROVE  Begins(wire', sent')
  BY DEF Begins
<1> USE DEF IInv, TypeOK
<1>1. CASE SendToClient
  <2>1. /\ Len(Append(sent, offered')) = Len(sent) + 1
        /\ \A k \in 1 .. Len(sent) : Append(sent, offered')[k] = sent[k]
    BY <1>1, OfferSteps, AppendProperties
  <2>2. Len(wire) \in Nat /\ Len(sent) \in Nat
    BY LenProperties
  <2>3. CASE sent' = Append(sent, offered')
    <3>1. Len(wire) <= Len(sent')
      BY <2>1, <2>2, <2>3 DEF Begins
    <3>2. \A k \in 1 .. Len(wire) : wire[k] = sent'[k]
      BY <2>1, <2>2, <2>3 DEF Begins
    <3> QED BY <1>1, <3>1, <3>2, OfferSteps DEF Begins
  <2> QED BY <1>1, <2>3, OfferSteps
<1>2. CASE Flush
  <2>1. CASE ~connUp
    BY <1>2, <2>1, FlushSteps
  <2>2. CASE connUp
    <3>1. wire' = wire \o frame /\ sent' = sent
      BY <1>2, <2>2, FlushSteps
    <3>2. sent = (wire \o frame) \o queue
      <4>1. Alive
        BY <1>2, <2>2 DEF Flush, Alive
      <4>2. (wire \o frame) \o queue = wire \o (frame \o queue)
        BY ConcatRegroups
      <4> QED BY <4>1, <4>2 DEF Ordered, Waiting
    <3>3. /\ wire \o frame \in Seq(Nat) /\ Len(wire \o frame) \in Nat
          /\ Len(queue) \in Nat
      BY ConcatProperties, LenProperties
    <3>4. /\ Len(sent) = Len(wire \o frame) + Len(queue)
          /\ \A k \in 1 .. Len(wire \o frame) : sent[k] = (wire \o frame)[k]
      BY <3>2, <3>3, ConcatProperties
    <3> QED BY <3>1, <3>3, <3>4 DEF Begins
  <2> QED BY <2>1, <2>2
<1>3. CASE TakeFirst \/ ReceiveMore
  BY <1>3, TakeSteps
<1>4. CASE TakeFirstFails \/ TestMore \/ PumpReturns \/ ConnFails \/ CancelContext
           \/ CloseSend \/ UNCHANGED vars
  BY <1>4 DEF TakeFirstFails, TestMore, PumpReturns, ConnFails, CancelContext,
              CloseSend, vars
<1> QED BY <1>1, <1>2, <1>3, <1>4 DEF Next, Pump

(* Whatever fails and whenever, what arrives is a prefix of what was queued*)
(* for the client.                                                         *)
THEOREM NoGap == Spec => []NoGapOnWire
<1>1. Init => Begins(wire, sent) /\ Ordered
  <2> SUFFICES ASSUME Init PROVE Begins(wire, sent) /\ Ordered
    OBVIOUS
  <2>1. wire = <<>> /\ sent = <<>> /\ frame = <<>> /\ queue = <<>>
    BY DEF Init
  <2>2. Len(<<>>) = 0 /\ <<>> \o <<>> = <<>>
    BY EmptySeq, ConcatEmptySeq
  <2> QED BY <2>1, <2>2 DEF Begins, Ordered, Waiting
<1>2. IInv /\ Begins(wire, sent) => NoGapOnWire
  BY BeginsIsPrefix DEF IInv, TypeOK, NoGapOnWire
<1> QED BY <1>1, <1>2, OrderedStep, BeginsStep, Inductive, PTL DEF Spec

-----------------------------------------------------------------------------
(* A concatenation falls apart into its two parts.                         *)
LEMMA ConcatSplits ==
  ASSUME NEW a \in Seq(Nat), NEW b \in Seq(Nat)
  PROVE  /\ SubSeq(a \o b, 1, Len(a)) = a
         /\ SubSeq(a \o b, Len(a) + 1, Len(a \o b)) = b
<1> DEFINE ab == a \o b
<1>1. Len(a) \in Nat /\ Len(b) \in Nat
  BY LenProperties
<1>2. /\ ab \in Seq(Nat) /\ Len(ab) = Len(a) + Len(b)
      /\ \A k \in 1 .. Len(a) : ab[k] = a[k]
      /\ \A k \in 1 .. Len(b) : ab[Len(a) + k] = b[k]
  BY <1>1, ConcatProperties
<1>3. /\ \A k \in 1 .. Len(a) : ab[k] \in Nat
      /\ \A k \in Len(a) + 1 .. Len(ab) : ab[k] \in Nat
  BY <1>1, <1>2, ElementOfSeq
<1> HIDE DEF ab
<1>4. SubSeq(ab, 1, Len(a)) = a
  <2>1. /\ SubSeq(ab, 1, Len(a)) \in Seq(Nat)
        /\ Len(SubSeq(ab, 1, Len(a))) = Len(a)
        /\ \A k \in 1 .. Len(a) : SubSeq(ab, 1, Len(a))[k] = ab[k]
    BY <1>1, <1>3, SubSeqProperties
  <2> QED BY <1>2, <2>1, SeqEqual
<1>5. SubSeq(ab, Len(a) + 1, Len(ab)) = b
  <2> DEFINE sub == SubSeq(ab, Len(a) + 1, Len(ab))
  <2>1. /\ sub \in Seq(Nat) /\ Len(sub) = Len(b)
        /\ \A k \in 1 .. Len(b) : sub[k] = ab[Len(a) + k]
    BY <1>1, <1>2, <1>3, SubSeqProperties
  <2> HIDE DEF sub
  <2>2. sub = b
    BY <1>2, <2>1, SeqEqual
  <2> QED BY <2>2 DEF sub
<1> QED BY <1>4, <1>5 DEF ab

(* Every step of the channel and the pump is a step of the abstract queue, *)
(* or leaves it as it is.                                                  *)
LEMMA FifoStep == IInv /\ [Next]_vars => [Fifo!Next]_(Fifo!vars)
<1> SUFFICES ASSUME IInv, [Next]_vars PROVE [Fifo!Next]_(Fifo!vars)
  OBVIOUS
<1> USE DEF IInv, TypeOK, Waiting, Alive
<1>1. CASE SendToClient
  <2>1. Alive' = Alive /\ offered' \in 1 .. MaxMsgs
    BY <1>1, MaxMsgsAssumption DEF SendToClient
  <2>2. CASE Waiting' = Append(Waiting, offered')
    <3>1. Fifo!Accept(offered')
      BY <1>1, <2>1, <2>2, OfferSteps DEF Fifo!Accept
    <3> QED BY <2>1, <3>1 DEF Fifo!Next
  <2>3. CASE Waiting' = Waiting
    BY <1>1, <2>1, <2>3, OfferSteps DEF Fifo!vars
  <2> QED BY <1>1, <2>2, <2>3, OfferSteps
<1>2. CASE TakeFirst \/ ReceiveMore
  <2>1. Alive' = Alive
    BY <1>2 DEF TakeFirst, ReceiveMore
  <2> QED BY <1>2, <2>1, TakeSteps DEF Fifo!vars
<1>3. CASE Flush
  <2> DEFINE n == Len(frame)
  <2>1. n \in 1 .. Cap + 1 /\ n \in 1 .. Len(Waiting)
    <3>1. n = i + 1 /\ i <= Cap
      BY <1>3 DEF Flush, FrameCounts, Batching
    <3>2. Len(Waiting) = n + Len(queue) /\ Len(queue) \in Nat
      BY ConcatProperties, LenProperties
    <3> QED BY <3>1, <3>2, CapAssumption
  <2>2. /\ SubSeq(Waiting, 1, n) = frame
        /\ SubSeq(Waiting, n + 1, Len(Waiting)) = queue
    BY ConcatSplits
  <2>3. Alive' = Alive /\ (Alive <=> connUp) /\ connUp' = connUp
    BY <1>3 DEF Flush
  <2>4. CASE connUp
    <3>1. Fifo!Deliver(n)
      <4>1. Alive /\ Alive' = Alive
        BY <2>3, <2>4
      <4>2. /\ wire' = wire \o SubSeq(Waiting, 1, n)
            /\ Waiting' = SubSeq(Waiting, n + 1, Len(Waiting))
        BY <1>3, <2>2, <2>4, FlushSteps
      <4>3. n \in 1 .. Cap + 1 /\ n <= Len(Waiting)
        BY <2>1
      <4> QED BY Zenon, <4>1, <4>2, <4>3 DEF Fifo!Deliver
    <3> QED BY <2>1, <3>1 DEF Fifo!Next
  <2>5. CASE ~connUp
    <3>1. Fifo!Lose(n)
      BY <1>3, <2>1, <2>2, <2>3, <2>5, FlushSteps DEF Fifo!Lose
    <3> QED BY <2>1, <3>1 DEF Fifo!Next
  <2> QED BY <2>4, <2>5
<1>4. CASE TakeFirstFails
  <2>1. frame = <<>> /\ frame' = <<>> /\ queue # <<>> /\ queue' = Tail(queue)
    BY <1>4 DEF TakeFirstFails, FrameCounts, Batching
  <2>2. Waiting = queue /\ Waiting' = Tail(queue)
    <3>1. Tail(queue) \in Seq(Nat)
      BY <2>1, HeadTailProperties
    <3> QED BY <2>1, <3>1, ConcatEmptySeq
  <2>3. Tail(queue) = SubSeq(queue, 2, Len(queue)) /\ 1 \in 1 .. Len(queue)
    BY <2>1, TailIsSubSeq, EmptySeq
  <2>4. Fifo!Lose(1)
    <3>1. ~Alive /\ Alive' = Alive /\ wire' = wire
      BY <1>4 DEF TakeFirstFails
    <3>2. Waiting' = SubSeq(Waiting, 1 + 1, Len(Waiting)) /\ 1 \in 1 .. Len(Waiting)
      BY <2>2, <2>3
    <3> QED BY Zenon, <3>1, <3>2 DEF Fifo!Lose
  <2> QED BY <2>2, <2>3, <2>4 DEF Fifo!Next
<1>5. CASE PumpReturns \/ ConnFails
  <2>1. Waiting' = Waiting /\ wire' = wire /\ ~Alive'
    BY <1>5 DEF PumpReturns, ConnFails
  <2>2. CASE Alive
    <3>1. Fifo!Break
      BY <2>1, <2>2 DEF Fifo!Break
    <3> QED BY <3>1 DEF Fifo!Next
  <2>3. CASE ~Alive
    <3>1. Alive' = Alive
      BY <2>1, <2>3
    <3> QED BY <2>1, <3>1 DEF Fifo!vars
  <2> QED BY <2>2, <2>3
<1>6. CASE TestMore \/ CancelContext \/ CloseSend \/ UNCHANGED vars
  BY <1>6 DEF TestMore, CancelContext, CloseSend, vars, Fifo!vars
<1> QED BY <1>1, <1>2, <1>3, <1>4, <1>5, <1>6 DEF Next, Pump

(* The channel and the pump implement the lossy first-in-first-out queue,  *)
(* for a channel of any capacity.                                          *)
THEOREM ImplementsFifo == Spec => FifoSpec
<1>1. Init => Fifo!Init
  <2> SUFFICES ASSUME Init PROVE Fifo!Init
    OBVIOUS
  <2>1. frame = <<>> /\ queue = <<>> /\ wire = <<>> /\ connUp = TRUE /\ pump = "select"
    BY DEF Init
  <2>2. <<>> \o <<>> = <<>>
    BY EmptySeq, ConcatEmptySeq
  <2> QED BY <2>1, <2>2 DEF Fifo!Init
<1> QED BY <1>1, FifoStep, Inductive, PTL DEF Spec, FifoSpec, Fifo!Spec

(* An offered message is accepted, or it is refused and at least Cap others*)
(* wait: a refusal changes nothing the abstract queue has variables for, so*)
(* that its specification alone does not say so.                           *)
RefusedOnlyWhenFull == offered' # offered => Fifo!Accept(offered') \/ Fifo!Refuse

(* sendToClient's default case is taken on a full channel only.            *)
THEOREM RefusalsAreRight == Spec => [][RefusedOnlyWhenFull]_vars
<1>1. IInv /\ [Next]_vars => [RefusedOnlyWhenFull]_vars
  <2> SUFFICES ASSUME IInv, Next, offered' # offered
               PROVE  Fifo!Accept(offered') \/ Fifo!Refuse
    BY DEF RefusedOnlyWhenFull
  <2>1. SendToClient
    BY DEF Next, Pump, TakeFirst, TakeFirstFails, TestMore, ReceiveMore, Flush, PumpReturns,
           ConnFails, CancelContext, CloseSend
  <2>2. (connUp /\ pump # "dead")' = (connUp /\ pump # "dead") /\ wire' = wire
    BY <2>1 DEF SendToClient
  <2>3. CASE Waiting' = Append(Waiting, offered')
    BY <2>2, <2>3 DEF Fifo!Accept, Waiting
  <2>4. CASE Waiting' = Waiting /\ Len(queue) >= Cap
    <3>1. Len(frame \o queue) = Len(frame) + Len(queue) /\ Len(frame) \in Nat /\ Len(queue) \in Nat
      BY ConcatProperties, LenProperties DEF IInv, TypeOK
    <3>2. Len(frame \o queue) >= Cap
      BY <2>4, <3>1, CapAssumption
    <3> QED BY <2>2, <2>4, <3>2 DEF Fifo!Refuse, Fifo!vars, Waiting
  <2> QED BY <2>1, <2>3, <2>4, OfferSteps
<1> QED BY <1>1, Inductive, PTL DEF Spec
=============================================================================
