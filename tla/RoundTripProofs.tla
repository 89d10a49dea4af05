--------------------------- MODULE RoundTripProofs ---------------------------
(***************************************************************************)
(* A call that returns with its answer has seen the notifications that the *)
(* method streamed before it, whatever the number of calls, the capacity   *)
(* of the queue, the size of a frame and the number of notifications.      *)
(*                                                                         *)
(* The argument counts.  Every accepted notification is handled, is being  *)
(* handled or is still coming; this is lost when the connection breaks, but*)
(* not for a call whose answer is coming: what is ahead of a line that     *)
(* arrives arrives too.  An answer is behind all notifications of its call,*)
(* so that none of them is coming any more when the answer is read.        *)
(***************************************************************************)
EXTENDS RoundTrip, SequenceTheorems, FiniteSetTheorems, FunctionTheorems, TLAPS

NoteOf(k)    == [kind |-> "note", id |-> k]
AnswerTo(k)  == [kind |-> "response", id |-> k]
RequestOf(k) == [kind |-> "request", id |-> k]
NullTo(k)    == [kind |-> "null", id |-> k]

(* The positions of a line in a sequence, and their number.                *)
Places(m, s) == {i \in 1 .. Len(s) : s[i] = m}
Count(m, s)  == Cardinality(Places(m, s))

(* The lines that the client may still read.                               *)
Coming == IF alive THEN delivered \o waiting ELSE delivered

(* No notification of a call comes behind its answer.                      *)
InOrder(s) ==
  \A k \in Calls : \A i, j \in 1 .. Len(s) : i < j /\ s[i] = AnswerTo(k) => s[j] # NoteOf(k)

One(P) == IF P THEN 1 ELSE 0

(* The notifications of a call that the client has or will have.           *)
Given(k) == handled[k] + One(note = k) + Count(NoteOf(k), Coming)

InHand == rl = "handler" <=> note # NoCall

NotesCounted ==
  \A k \in Calls : /\ Given(k) <= accepted[k]
                   /\ alive \/ Count(AnswerTo(k), Coming) > 0 => Given(k) = accepted[k]

AnswerLast == InOrder(Coming)

UnheardIsDone == \A k \in unheard : method[k] = "done"

ComingIsReal ==
  \A k \in Calls : Count(AnswerTo(k), Coming) > 0 => method[k] = "done" /\ k \notin unheard

(* The first half of a return; NotesBeforeAnswer and AnswerIsReal follow.  *)
Settled ==
  \A k \in Calls : call[k] \in {"answered", "returned"} =>
                     handled[k] = accepted[k] /\ method[k] = "done" /\ k \notin unheard

(* A call is written once, and its method runs once.                       *)
RunsOnce ==
  \A k \in Calls : Count(RequestOf(k), toServer) + One(method[k] # "none")
                     <= One(call[k] \notin {"idle", "write"})

IInv == /\ TypeOK /\ InHand /\ NotesCounted /\ AnswerLast /\ UnheardIsDone
        /\ ComingIsReal /\ Settled /\ RunsOnce

-----------------------------------------------------------------------------
(* Lemmas about counting.                                                  *)

LEMMA CountType ==
  ASSUME NEW S, NEW s \in Seq(S), NEW m
  PROVE  /\ IsFiniteSet(Places(m, s)) /\ Count(m, s) \in Nat
         /\ Count(m, s) = 0 <=> \A i \in 1 .. Len(s) : s[i] # m
<1>1. IsFiniteSet(1 .. Len(s))
  BY LenProperties, FS_Interval
<1>2. IsFiniteSet(Places(m, s))
  BY <1>1, FS_Subset DEF Places
<1>3. Count(m, s) \in Nat /\ (Count(m, s) = 0 <=> Places(m, s) = {})
  BY <1>2, FS_CardinalityType, FS_EmptySet DEF Count
<1> QED BY <1>2, <1>3 DEF Places

LEMMA CountConcat ==
  ASSUME NEW S, NEW s \in Seq(S), NEW t \in Seq(S), NEW m
  PROVE  Count(m, s \o t) = Count(m, s) + Count(m, t)
<1> DEFINE A == Places(m, s)
           B == Places(m, t)
           B2 == {i \in Len(s) + 1 .. Len(s) + Len(t) : t[i - Len(s)] = m}
           shift == [i \in B |-> i + Len(s)]
<1>1. Len(s) \in Nat /\ Len(t) \in Nat /\ IsFiniteSet(A) /\ IsFiniteSet(B)
  BY LenProperties, CountType
<1>2. shift \in Bijection(B, B2)
  <2>1. \A i \in B : i \in 1 .. Len(t) /\ t[i] = m
    BY DEF Places
  <2>2. shift \in [B -> B2]
    <3>1. ASSUME NEW i \in B PROVE i + Len(s) \in B2
      <4>1. (i + Len(s)) - Len(s) = i /\ i + Len(s) \in Len(s) + 1 .. Len(s) + Len(t)
        BY <1>1, <2>1
      <4> QED BY <2>1, <4>1
    <3> QED BY <3>1
  <2>3. \A i, j \in B : shift[i] = shift[j] => i = j
    BY <1>1, <2>1
  <2>4. ASSUME NEW j \in B2 PROVE \E i \in B : shift[i] = j
    <3>1. j - Len(s) \in B /\ (j - Len(s)) + Len(s) = j
      BY <1>1 DEF Places
    <3> QED BY <3>1
  <2> QED BY <2>2, <2>3, <2>4, Fun_IsBij
<1>3. IsFiniteSet(B2) /\ Cardinality(B2) = Cardinality(B)
  BY <1>1, <1>2, FS_Bijection DEF ExistsBijection
<1>4. Places(m, s \o t) = A \cup B2
  <2>1. \A i \in 1 .. Len(s) + Len(t) :
          (s \o t)[i] = IF i <= Len(s) THEN s[i] ELSE t[i - Len(s)]
    BY ConcatProperties
  <2>2. Len(s \o t) = Len(s) + Len(t)
    BY ConcatProperties
  <2> QED BY <1>1, <2>1, <2>2 DEF Places
<1>5. A \cap B2 = {}
  BY <1>1 DEF Places
<1>6. Cardinality(A \cup B2) = Cardinality(A) + Cardinality(B2) - Cardinality({})
  <2> HIDE DEF A, B2
  <2>1. Cardinality(A \cup B2) = Cardinality(A) + Cardinality(B2) - Cardinality(A \cap B2)
    BY Zenon, <1>1, <1>3, FS_Union
  <2> QED BY <1>5, <2>1, Zenon
<1>7. Cardinality(A) \in Nat /\ Cardinality(B) \in Nat /\ Cardinality({}) = 0
  BY <1>1, FS_CardinalityType, FS_EmptySet
<1> QED BY <1>3, <1>4, <1>6, <1>7 DEF Count

LEMMA CountOfOne ==
  ASSUME NEW m, NEW e
  PROVE  Count(m, <<e>>) = One(e = m)
<1>1. Places(m, <<e>>) = IF e = m THEN {1} ELSE {}
  BY DEF Places
<1> QED BY <1>1, FS_Singleton, FS_EmptySet DEF Count, One

LEMMA CountAppend ==
  ASSUME NEW S, NEW s \in Seq(S), NEW e \in S, NEW m
  PROVE  Count(m, Append(s, e)) = Count(m, s) + One(e = m)
<1>1. Append(s, e) = s \o <<e>> /\ <<e>> \in Seq(S)
  BY AppendIsConcat
<1>2. Count(m, s \o <<e>>) = Count(m, s) + Count(m, <<e>>)
  BY <1>1, CountConcat
<1> QED BY <1>1, <1>2, CountOfOne

LEMMA CountTail ==
  ASSUME NEW S, NEW s \in Seq(S), s # <<>>, NEW m
  PROVE  Count(m, s) = One(Head(s) = m) + Count(m, Tail(s))
<1>1. /\ Head(s) \in S /\ Tail(s) \in Seq(S) /\ <<Head(s)>> \in Seq(S)
      /\ s = <<Head(s)>> \o Tail(s)
  BY HeadTailProperties
<1>2. Count(m, s) = Count(m, <<Head(s)>>) + Count(m, Tail(s))
  BY <1>1, CountConcat, Zenon
<1> QED BY <1>2, CountOfOne

-----------------------------------------------------------------------------
(* Lemmas about lines and their order.                                     *)

LEMMA Lines ==
  /\ \A k \in Calls : /\ NoteOf(k) \in Line /\ AnswerTo(k) \in Line /\ RequestOf(k) \in Up
                      /\ NullTo(k) \in Line
  /\ \A m \in ServerCalls : RequestOf(m) \in Line /\ AnswerTo(m) \in Up
  /\ \A j, k : /\ NoteOf(j) # AnswerTo(k) /\ NoteOf(j) # RequestOf(k)
               /\ AnswerTo(j) # RequestOf(k)
               /\ NullTo(j) # NoteOf(k) /\ NullTo(j) # AnswerTo(k)
               /\ NoteOf(j) = NoteOf(k) <=> j = k
               /\ AnswerTo(j) = AnswerTo(k) <=> j = k
               /\ RequestOf(j) = RequestOf(k) <=> j = k
BY DEF Line, Up, NoteOf, AnswerTo, RequestOf, NullTo

LEMMA LineKinds ==
  /\ \A l \in Line : /\ l.kind = "note" => l.id \in Calls /\ l = NoteOf(l.id)
                     /\ l.kind = "response" => l.id \in Calls /\ l = AnswerTo(l.id)
                     /\ l.kind = "request" => l.id \in ServerCalls /\ l = RequestOf(l.id)
  /\ \A l \in Up : /\ l.kind = "request" => l.id \in Calls /\ l = RequestOf(l.id)
                   /\ l.kind = "response" => l.id \in ServerCalls /\ l = AnswerTo(l.id)
BY DEF Line, Up, NoteOf, AnswerTo, RequestOf

LEMMA OrderAppend ==
  ASSUME NEW s \in Seq(Line), NEW e \in Line, InOrder(s),
         \A k \in Calls : e = NoteOf(k) => Count(AnswerTo(k), s) = 0
  PROVE  InOrder(Append(s, e))
<1> SUFFICES ASSUME NEW k \in Calls, NEW i \in 1 .. Len(Append(s, e)),
                    NEW j \in 1 .. Len(Append(s, e)), i < j,
                    Append(s, e)[i] = AnswerTo(k)
             PROVE  Append(s, e)[j] # NoteOf(k)
  BY DEF InOrder
<1>1. /\ Len(Append(s, e)) = Len(s) + 1 /\ Append(s, e)[Len(s) + 1] = e
      /\ \A n \in 1 .. Len(s) : Append(s, e)[n] = s[n]
      /\ Len(s) \in Nat
  BY AppendProperties, LenProperties
<1>2. i \in 1 .. Len(s) /\ s[i] = AnswerTo(k)
  BY <1>1
<1>3. CASE j \in 1 .. Len(s)
  BY <1>1, <1>2, <1>3 DEF InOrder
<1>4. CASE j = Len(s) + 1
  <2>1. Count(AnswerTo(k), s) # 0
    BY <1>2, CountType
  <2> QED BY <2>1, <1>1, <1>4
<1> QED BY <1>1, <1>3, <1>4

LEMMA OrderTail ==
  ASSUME NEW s \in Seq(Line), s # <<>>, InOrder(s)
  PROVE  /\ InOrder(Tail(s))
         /\ \A k \in Calls : Head(s) = AnswerTo(k) => Count(NoteOf(k), Tail(s)) = 0
<1>1. /\ Tail(s) \in Seq(Line) /\ Len(Tail(s)) = Len(s) - 1 /\ Len(s) \in Nat \ {0}
      /\ \A n \in 1 .. Len(Tail(s)) : Tail(s)[n] = s[n + 1]
      /\ Head(s) = s[1]
  BY HeadTailProperties, EmptySeq, LenProperties
<1>2. InOrder(Tail(s))
  <2> SUFFICES ASSUME NEW k \in Calls, NEW i \in 1 .. Len(Tail(s)),
                      NEW j \in 1 .. Len(Tail(s)), i < j, Tail(s)[i] = AnswerTo(k)
               PROVE  Tail(s)[j] # NoteOf(k)
    BY DEF InOrder
  <2>1. /\ i + 1 \in 1 .. Len(s) /\ j + 1 \in 1 .. Len(s) /\ i + 1 < j + 1
        /\ Tail(s)[i] = s[i + 1] /\ Tail(s)[j] = s[j + 1]
    BY <1>1
  <2> QED BY <2>1 DEF InOrder
<1>3. ASSUME NEW k \in Calls, Head(s) = AnswerTo(k)
      PROVE  Count(NoteOf(k), Tail(s)) = 0
  <2>1. ASSUME NEW n \in 1 .. Len(Tail(s)) PROVE Tail(s)[n] # NoteOf(k)
    <3>1. 1 \in 1 .. Len(s) /\ n + 1 \in 1 .. Len(s) /\ 1 < n + 1
      BY <1>1
    <3> QED BY <3>1, <1>1, <1>3 DEF InOrder
  <2> QED BY <1>1, <2>1, CountType
<1> QED BY <1>2, <1>3

LEMMA OrderPrefix ==
  ASSUME NEW s \in Seq(Line), NEW t \in Seq(Line), InOrder(s \o t)
  PROVE  /\ InOrder(s)
         /\ \A k \in Calls : Count(AnswerTo(k), s) > 0 => Count(NoteOf(k), t) = 0
<1>1. /\ Len(s) \in Nat /\ Len(t) \in Nat /\ Len(s \o t) = Len(s) + Len(t)
      /\ \A n \in 1 .. Len(s) + Len(t) :
           (s \o t)[n] = IF n <= Len(s) THEN s[n] ELSE t[n - Len(s)]
  BY ConcatProperties, LenProperties
<1>2. InOrder(s)
  <2> SUFFICES ASSUME NEW k \in Calls, NEW i \in 1 .. Len(s), NEW j \in 1 .. Len(s),
                      i < j, s[i] = AnswerTo(k)
               PROVE  s[j] # NoteOf(k)
    BY DEF InOrder
  <2>1. /\ i \in 1 .. Len(s \o t) /\ j \in 1 .. Len(s \o t)
        /\ (s \o t)[i] = s[i] /\ (s \o t)[j] = s[j]
    BY <1>1
  <2> QED BY <2>1 DEF InOrder
<1>3. ASSUME NEW k \in Calls, Count(AnswerTo(k), s) > 0
      PROVE  Count(NoteOf(k), t) = 0
  <2>1. PICK i \in 1 .. Len(s) : s[i] = AnswerTo(k)
    BY <1>3, CountType
  <2>2. ASSUME NEW n \in 1 .. Len(t) PROVE t[n] # NoteOf(k)
    <3>1. /\ i \in 1 .. Len(s \o t) /\ Len(s) + n \in 1 .. Len(s \o t) /\ i < Len(s) + n
          /\ (s \o t)[i] = s[i]
      BY <1>1
    <3>2. ~(Len(s) + n <= Len(s)) /\ (Len(s) + n) - Len(s) = n /\ Len(s) + n \in 1 .. Len(s) + Len(t)
      BY <1>1
    <3>3. (s \o t)[Len(s) + n] = t[n]
      BY <1>1, <3>2
    <3> QED BY <3>1, <3>3, <2>1 DEF InOrder
  <2> QED BY <2>2, CountType
<1> QED BY <1>2, <1>3

-----------------------------------------------------------------------------
(* What the steps of the way back do to the lines that come.               *)

LEMMA FrameKeeps ==
  ASSUME TypeOK, NEW n, Back!Deliver(n) \/ Back!Lose(n)
  PROVE  /\ waiting' \in Seq(Line) /\ delivered' \in Seq(Line) /\ alive' = alive
         /\ Coming' = Coming
<1>1. /\ delivered \in Seq(Line) /\ waiting \in Seq(Line) /\ Len(waiting) \in Nat
      /\ \A i \in 1 .. Len(waiting) : waiting[i] \in Line
  BY LenProperties, ElementOfSeq DEF TypeOK
<1>2. /\ n \in 1 .. Len(waiting) /\ alive' = alive
      /\ waiting' = SubSeq(waiting, n + 1, Len(waiting))
  BY <1>1, BoundsAssumption DEF Back!Deliver, Back!Lose
<1>3. SubSeq(waiting, 1, n) \in Seq(Line) /\ waiting' \in Seq(Line)
  BY <1>1, <1>2, SubSeqProperties
<1>4. CASE Back!Deliver(n)
  <2>1. alive /\ delivered' = delivered \o SubSeq(waiting, 1, n)
    BY <1>4 DEF Back!Deliver
  <2>2. SubSeq(waiting, 1, n) \o waiting' = SubSeq(waiting, 1, Len(waiting))
    BY <1>1, <1>2, ConcatAdjacentSubSeq
  <2>3. \A t, u \in Seq(Line) : (delivered \o t) \o u = delivered \o (t \o u)
    BY <1>1, ConcatAssociative
  <2>4. delivered' \o waiting' = delivered \o waiting
    <3>1. SubSeq(waiting, 1, Len(waiting)) = waiting
      BY <1>1, SubSeqFull
    <3>2. (delivered \o SubSeq(waiting, 1, n)) \o waiting'
            = delivered \o (SubSeq(waiting, 1, n) \o waiting')
      BY <1>3, <2>3
    <3> QED BY <2>1, <2>2, <3>1, <3>2
  <2>5. delivered' \in Seq(Line)
    BY <1>1, <1>3, <2>1, ConcatProperties
  <2> QED BY <1>2, <1>3, <2>1, <2>4, <2>5 DEF Coming
<1>5. CASE Back!Lose(n)
  BY <1>1, <1>2, <1>3, <1>5 DEF Back!Lose, Coming
<1> QED BY <1>4, <1>5

LEMMA AcceptComes ==
  ASSUME TypeOK, NEW m \in Line, Back!Accept(m)
  PROVE  /\ waiting' \in Seq(Line) /\ delivered' \in Seq(Line) /\ alive' = alive
         /\ Coming' = IF alive THEN Append(Coming, m) ELSE Coming
<1>1. /\ delivered \in Seq(Line) /\ waiting \in Seq(Line) /\ <<m>> \in Seq(Line)
      /\ delivered' = delivered /\ alive' = alive /\ waiting' = Append(waiting, m)
  BY DEF TypeOK, Back!Accept
<1>2. waiting' = waiting \o <<m>> /\ waiting' \in Seq(Line)
  BY <1>1, AppendIsConcat, AppendProperties
<1>3. delivered \o waiting \in Seq(Line)
  BY <1>1, ConcatProperties
<1>4. delivered \o waiting' = Append(delivered \o waiting, m)
  BY <1>1, <1>2, <1>3, ConcatAssociative, AppendIsConcat
<1> QED BY <1>1, <1>2, <1>4 DEF Coming

LEMMA TakenIsFirst ==
  ASSUME TypeOK, delivered # <<>>, delivered' = Tail(delivered),
         UNCHANGED <<waiting, alive>>
  PROVE  /\ delivered' \in Seq(Line) /\ NextLine \in Line
         /\ Coming \in Seq(Line) /\ Coming # <<>> /\ Head(Coming) = NextLine
         /\ Coming' = Tail(Coming)
<1> DEFINE h == Head(delivered)
           d == Tail(delivered)
<1>1. /\ delivered \in Seq(Line) /\ waiting \in Seq(Line)
      /\ h \in Line /\ d \in Seq(Line) /\ <<h>> \in Seq(Line)
      /\ delivered = <<h>> \o d
  BY HeadTailProperties DEF TypeOK
<1>2. d \o waiting \in Seq(Line) /\ delivered \o waiting \in Seq(Line)
  BY <1>1, ConcatProperties
<1>3. delivered \o waiting = <<h>> \o (d \o waiting)
  BY <1>1, ConcatAssociative
<1>4. \A t \in Seq(Line) : /\ <<h>> \o t # <<>> /\ Head(<<h>> \o t) = h
                           /\ Tail(<<h>> \o t) = t
  BY <1>1
<1>5. /\ Coming \in Seq(Line) /\ Coming # <<>> /\ Head(Coming) = h
      /\ Tail(Coming) = IF alive THEN d \o waiting ELSE d
  BY <1>1, <1>2, <1>3, <1>4 DEF Coming
<1> QED BY <1>1, <1>5 DEF Coming, NextLine

LEMMA ComingType ==
  ASSUME TypeOK
  PROVE  Coming \in Seq(Line)
<1>1. delivered \in Seq(Line) /\ waiting \in Seq(Line)
  BY DEF TypeOK
<1>2. delivered \o waiting \in Seq(Line)
  BY <1>1, ConcatProperties
<1> QED BY <1>1, <1>2 DEF Coming

(* The counters of a call and of a sequence are numbers.                   *)
LEMMA Numbers ==
  ASSUME TypeOK
  PROVE  /\ \A k \in Calls : /\ handled[k] \in Nat /\ handled[k] <= MaxNotes
                             /\ accepted[k] \in Nat /\ accepted[k] <= MaxNotes
                             /\ method[k] \in {"none", "running", "done"}
                             /\ call[k] \in {"idle", "write", "wait", "answered", "returned", "failed"}
         /\ \A m : Count(m, Coming) \in Nat /\ Count(m, toServer) \in Nat
         /\ MaxNotes \in Nat
<1>1. Coming \in Seq(Line) /\ toServer \in Seq(Up)
  BY ComingType DEF TypeOK
<1>2. \A m : Count(m, Coming) \in Nat /\ Count(m, toServer) \in Nat
  BY <1>1, CountType
<1> QED BY <1>2, BoundsAssumption DEF TypeOK

-----------------------------------------------------------------------------
(* The steps, one lemma for each part of the system.                       *)

LEMMA InitInv == Init => IInv
<1> SUFFICES ASSUME Init PROVE IInv
  OBVIOUS
<1>1. waiting = <<>> /\ delivered = <<>> /\ alive = TRUE /\ toServer = <<>>
  BY DEF Init, Back!Init
<1>2. Coming = <<>>
  BY <1>1 DEF Coming
<1>3. TypeOK
  <2>1. alive \in BOOLEAN /\ removed \in BOOLEAN
    BY <1>1, Zenon DEF Init
  <2>2. 0 \in 0 .. MaxNotes
    BY BoundsAssumption
  <2> QED BY <1>1, <2>1, <2>2 DEF TypeOK, Init
<1>4. \A m : Count(m, <<>>) = 0
  <2>1. <<>> \in Seq(Line) /\ \A i \in 1 .. Len(<<>>) : FALSE
    BY EmptySeq
  <2> QED BY <2>1, CountType
<1>5. InHand /\ Settled /\ UnheardIsDone
  BY DEF Init, InHand, Settled, UnheardIsDone
<1>6. NotesCounted /\ ComingIsReal
  BY <1>2, <1>4, CallsAssumption DEF Init, NotesCounted, ComingIsReal, Given, One
<1>7. AnswerLast
  BY <1>2 DEF AnswerLast, InOrder
<1>8. RunsOnce
  <2> SUFFICES ASSUME NEW k \in Calls
               PROVE  Count(RequestOf(k), toServer) + One(method[k] # "none")
                        <= One(call[k] \notin {"idle", "write"})
    BY DEF RunsOnce
  <2>1. method[k] = "none" /\ call[k] = "idle" /\ Count(RequestOf(k), toServer) = 0
    BY <1>1, <1>4 DEF Init
  <2> QED BY <2>1 DEF One
<1> QED BY <1>3, <1>5, <1>6, <1>7, <1>8 DEF IInv

(* Frames come over and the connection breaks.                             *)
LEMMA ConnectionStep ==
  ASSUME IInv, NEW n, Frame(n) \/ Breaks \/ Loses(n)
  PROVE  IInv'
<1> USE DEF IInv
<1>1. /\ toServer' = toServer /\ call' = call /\ rl' = rl /\ note' = note /\ nested' = nested
      /\ method' = method /\ accepted' = accepted /\ handled' = handled
      /\ unheard' = unheard /\ removed' = removed /\ scall' = scall
  BY DEF Frame, Breaks, Loses, clientVars, serverVars
<1>2. InHand' /\ UnheardIsDone' /\ Settled' /\ RunsOnce'
  BY <1>1 DEF InHand, UnheardIsDone, Settled, RunsOnce
<1>3. CASE Frame(n) \/ Loses(n)
  <2>1. /\ waiting' \in Seq(Line) /\ delivered' \in Seq(Line) /\ alive' = alive
        /\ Coming' = Coming
    BY <1>3, FrameKeeps DEF Frame, Loses
  <2>2. TypeOK'
    BY <1>1, <2>1 DEF TypeOK
  <2>3. NotesCounted' /\ AnswerLast' /\ ComingIsReal'
    BY <1>1, <2>1 DEF NotesCounted, AnswerLast, ComingIsReal, Given
  <2> QED BY <1>2, <2>2, <2>3
<1>4. CASE Breaks
  <2>1. alive /\ alive' = FALSE /\ waiting' = waiting /\ delivered' = delivered
    BY <1>4 DEF Breaks, Back!Break
  <2>2. TypeOK'
    <3>1. alive' \in BOOLEAN
      BY <2>1, Zenon
    <3> QED BY <1>1, <2>1, <3>1 DEF TypeOK
  <2>3. delivered \in Seq(Line) /\ waiting \in Seq(Line)
    BY DEF TypeOK
  <2>4. Coming = delivered \o waiting /\ Coming' = delivered
    BY <2>1 DEF Coming
  <2>5. \A m : /\ Count(m, Coming) = Count(m, delivered) + Count(m, waiting)
               /\ Count(m, delivered) \in Nat /\ Count(m, waiting) \in Nat
    BY <2>3, <2>4, CountConcat, CountType
  <2>6. /\ InOrder(delivered)
        /\ \A k \in Calls : Count(AnswerTo(k), delivered) > 0 => Count(NoteOf(k), waiting) = 0
    BY <2>3, <2>4, OrderPrefix DEF AnswerLast
  <2>7. NotesCounted'
    BY <1>1, <2>1, <2>4, <2>5, <2>6, Numbers DEF NotesCounted, Given, One
  <2>8. AnswerLast' /\ ComingIsReal'
    BY <1>1, <2>4, <2>5, <2>6 DEF AnswerLast, ComingIsReal
  <2> QED BY <1>2, <2>2, <2>7, <2>8
<1> QED BY <1>3, <1>4

(* A call moves on, and nothing that comes back is touched.                *)
LEMMA CallStep ==
  ASSUME IInv, NEW k \in Calls,
         \/ CallRegisters(k) \/ HandlerCalls(k) \/ CallRuns(k) \/ CallTimesOut(k)
  PROVE  IInv'
<1> USE DEF IInv
<1>1. /\ waiting' = waiting /\ delivered' = delivered /\ alive' = alive
      /\ rl' = rl /\ note' = note /\ nested' \in {nested, k} /\ handled' = handled
      /\ method' = method /\ accepted' = accepted /\ unheard' = unheard
      /\ removed' = removed /\ scall' = scall
  BY DEF CallRegisters, HandlerCalls, CallRuns, CallTimesOut, CallWrites, WriteFails,
         CallAnswered, CallClosed, Ends, Begins, Moves, backVars, clientVars, serverVars
<1>2. Coming' = Coming
  BY <1>1 DEF Coming
<1>3. InHand' /\ UnheardIsDone' /\ NotesCounted' /\ AnswerLast' /\ ComingIsReal'
  BY <1>1, <1>2 DEF InHand, UnheardIsDone, NotesCounted, AnswerLast, ComingIsReal, Given
<1>4. \/ /\ call[k] = "idle" /\ call' = [call EXCEPT ![k] = "write"] /\ toServer' = toServer
      \/ /\ call[k] = "write" /\ call' = [call EXCEPT ![k] = "wait"]
         /\ toServer' \in {toServer, Append(toServer, RequestOf(k))}
      \/ /\ call[k] = "answered" /\ call' = [call EXCEPT ![k] = "returned"] /\ toServer' = toServer
      \/ /\ call[k] \in {"write", "wait", "answered"} /\ call' = [call EXCEPT ![k] = "failed"]
         /\ toServer' = toServer
  BY DEF CallRegisters, HandlerCalls, CallRuns, CallTimesOut, CallWrites, WriteFails,
         CallAnswered, CallClosed, Ends, Begins, Moves, RequestOf
<1>5. /\ Append(toServer, RequestOf(k)) \in Seq(Up)
      /\ \A m : Count(m, Append(toServer, RequestOf(k)))
                  = Count(m, toServer) + One(RequestOf(k) = m)
  BY AppendProperties, CountAppend, Lines DEF TypeOK
<1>6. TypeOK'
  BY <1>1, <1>4, <1>5 DEF TypeOK
<1>7. Settled'
  BY <1>1, <1>4 DEF Settled, TypeOK
<1>8. RunsOnce'
  <2> SUFFICES ASSUME NEW j \in Calls
               PROVE  Count(RequestOf(j), toServer') + One(method[j] # "none")
                        <= One(call'[j] \notin {"idle", "write"})
    BY <1>1 DEF RunsOnce
  <2>1. /\ Count(RequestOf(j), toServer) + One(method[j] # "none")
             <= One(call[j] \notin {"idle", "write"})
        /\ Count(RequestOf(j), toServer) \in Nat
    BY Numbers DEF RunsOnce
  <2>2. CASE j = k
    <3>1. Count(RequestOf(k), toServer') \in
            {Count(RequestOf(k), toServer), Count(RequestOf(k), toServer) + 1}
      BY <1>4, <1>5 DEF One
    <3> QED BY <1>4, <2>1, <2>2, <3>1 DEF One, TypeOK
  <2>3. CASE j # k
    <3>1. Count(RequestOf(j), toServer') = Count(RequestOf(j), toServer)
      <4>1. RequestOf(k) # RequestOf(j)
        BY <2>3, Lines
      <4>2. Count(RequestOf(j), Append(toServer, RequestOf(k))) = Count(RequestOf(j), toServer)
        BY <1>5, <2>1, <4>1 DEF One
      <4> QED BY <1>4, <4>2
    <3>2. call'[j] = call[j]
      BY <1>4, <2>3 DEF TypeOK
    <3> QED BY <2>1, <3>1, <3>2
  <2> QED BY <2>2, <2>3
<1> QED BY <1>3, <1>6, <1>7, <1>8

(* The client's readLoop takes the next line and handles it.               *)
LEMMA ReadStep ==
  ASSUME IInv, ReadNote \/ ReadResponse \/ ReadNull \/ ReadRequest
  PROVE  IInv'
<1> USE DEF IInv
<1> DEFINE l == NextLine
<1>1. /\ rl = "read" /\ delivered # <<>> /\ delivered' = Tail(delivered)
      /\ waiting' = waiting /\ alive' = alive /\ nested' = nested
      /\ method' = method /\ accepted' = accepted /\ unheard' = unheard
      /\ removed' = removed /\ scall' = scall /\ handled' = handled
  BY DEF ReadNote, ReadResponse, ReadNull, ReadRequest, TakesLine, serverVars
<1>2. /\ delivered' \in Seq(Line) /\ l \in Line
      /\ Coming \in Seq(Line) /\ Coming # <<>> /\ Head(Coming) = l /\ Coming' = Tail(Coming)
  BY <1>1, TakenIsFirst
<1>3. \A m : /\ Count(m, Coming) = One(l = m) + Count(m, Coming')
             /\ Count(m, Coming') \in Nat
  <2>1. Tail(Coming) \in Seq(Line)
    BY <1>2, HeadTailProperties
  <2> QED BY <1>2, <2>1, CountTail, CountType
<1>4. /\ InOrder(Coming')
      /\ \A k \in Calls : l = AnswerTo(k) => Count(NoteOf(k), Coming') = 0
  BY <1>2, OrderTail DEF AnswerLast
<1>5. note = NoCall /\ \A k \in Calls : k # NoCall
  BY <1>1, CallsAssumption DEF InHand
<1>6. \A m : Count(m, Coming') <= Count(m, Coming)
  BY <1>3 DEF One
<1>7. AnswerLast' /\ UnheardIsDone'
  BY <1>1, <1>4 DEF AnswerLast, UnheardIsDone
<1>8. ComingIsReal'
  <2> SUFFICES ASSUME NEW k \in Calls, Count(AnswerTo(k), Coming') > 0
               PROVE  method[k] = "done" /\ k \notin unheard
    BY <1>1 DEF ComingIsReal
  <2>1. Count(AnswerTo(k), Coming) > 0
    BY <1>3, <1>6, Numbers
  <2> QED BY <2>1 DEF ComingIsReal
<1>9. ASSUME NEW k \in Calls,
             One(note' = k) + Count(NoteOf(k), Coming') = Count(NoteOf(k), Coming)
      PROVE  /\ (Given(k) <= accepted[k])'
             /\ alive' \/ Count(AnswerTo(k), Coming') > 0 => (Given(k) = accepted[k])'
  <2>1. One(note = k) = 0
    BY <1>5 DEF One
  <2>2. Given(k)' = handled[k] + Count(NoteOf(k), Coming) /\ handled[k] \in Nat
    <3>1. Given(k)' = handled[k] + One(note' = k) + Count(NoteOf(k), Coming')
      BY <1>1 DEF Given
    <3>2. handled[k] \in Nat /\ Count(NoteOf(k), Coming') \in Nat /\ One(note' = k) \in Nat
      BY <1>3, Numbers DEF One
    <3> QED BY <1>9, <3>1, <3>2
  <2>3. Given(k)' = Given(k)
    BY <2>1, <2>2, Numbers DEF Given
  <2>4. Count(AnswerTo(k), Coming') > 0 => Count(AnswerTo(k), Coming) > 0
    BY <1>3, <1>6, Numbers
  <2> QED BY <1>1, <2>3, <2>4 DEF NotesCounted
<1>10. CASE ReadNote
  <2>1. /\ l.kind = "note" /\ rl' = "handler" /\ note' = l.id
        /\ toServer' = toServer /\ call' = call
    BY <1>10 DEF ReadNote, TakesLine
  <2>2. l.id \in Calls /\ l = NoteOf(l.id)
    BY <1>2, <2>1, LineKinds
  <2>3. TypeOK' /\ InHand'
    BY <1>1, <1>2, <1>5, <2>1, <2>2 DEF TypeOK, InHand
  <2>4. Settled' /\ RunsOnce'
    BY <1>1, <2>1 DEF Settled, RunsOnce
  <2>5. ASSUME NEW k \in Calls
        PROVE  One(note' = k) + Count(NoteOf(k), Coming') = Count(NoteOf(k), Coming)
    <3>1. l = NoteOf(k) <=> note' = k
      BY <2>1, <2>2, Lines
    <3> QED BY <1>3, <3>1 DEF One
  <2>6. NotesCounted'
    BY <1>9, <2>5 DEF NotesCounted, One
  <2> QED BY <1>7, <1>8, <2>3, <2>4, <2>6
<1>11. CASE ReadResponse \/ ReadNull \/ ReadRequest
  <2>1. /\ l.kind \in {"response", "null", "request"} /\ rl' = rl /\ note' = note
    BY <1>11 DEF ReadResponse, ReadNull, ReadRequest, TakesLine
  <2>2. \A k \in Calls : l # NoteOf(k)
    BY <2>1 DEF NoteOf
  <2>3. \A k \in Calls : One(note' = k) + Count(NoteOf(k), Coming') = Count(NoteOf(k), Coming)
    BY <1>3, <1>5, <2>1, <2>2 DEF One
  <2>4. NotesCounted'
    BY <1>9, <2>3 DEF NotesCounted, One
  <2>5. InHand'
    BY <1>1, <2>1 DEF InHand
  <2>6. TypeOK' /\ Settled' /\ RunsOnce'
    <3>1. CASE ReadResponse
      <4>1. /\ toServer' = toServer /\ l.kind = "response"
            /\ call' = [call EXCEPT ![l.id] = IF @ = "wait" THEN "answered" ELSE @]
        BY <3>1 DEF ReadResponse, TakesLine
      <4>2. l.id \in Calls /\ l = AnswerTo(l.id)
        BY <1>2, <4>1, LineKinds
      <4>3. TypeOK'
        BY <1>1, <1>2, <2>1, <4>1, <4>2 DEF TypeOK
      <4>4. RunsOnce'
        <5> SUFFICES ASSUME NEW k \in Calls
                     PROVE  One(call'[k] \notin {"idle", "write"}) = One(call[k] \notin {"idle", "write"})
          BY <1>1, <4>1 DEF RunsOnce
        <5> QED BY <4>1, <4>2 DEF One, TypeOK
      <4>5. handled[l.id] = accepted[l.id] /\ method[l.id] = "done" /\ l.id \notin unheard
        <5>1. Count(AnswerTo(l.id), Coming) > 0
          BY <1>3, <4>2 DEF One
        <5>2. Count(NoteOf(l.id), Coming) = 0
          BY <1>3, <1>4, <2>2, <4>2 DEF One
        <5>3. Given(l.id) = accepted[l.id]
          BY <4>2, <5>1 DEF NotesCounted
        <5>4. One(note = l.id) = 0
          BY <1>5, <4>2 DEF One
        <5> QED BY <4>2, <5>1, <5>2, <5>3, <5>4, Numbers DEF Given, ComingIsReal
      <4>6. Settled'
        BY <1>1, <4>1, <4>2, <4>5 DEF Settled, TypeOK
      <4> QED BY <4>3, <4>4, <4>6
    <3>2. CASE ReadRequest
      <4>1. /\ call' = call /\ l.kind = "request"
            /\ toServer' \in {toServer, Append(toServer, AnswerTo(l.id))}
        BY <3>2 DEF ReadRequest, TakesLine, AnswerTo
      <4>2. l.id \in ServerCalls
        BY <1>2, <4>1, LineKinds
      <4>3. /\ Append(toServer, AnswerTo(l.id)) \in Seq(Up)
            /\ \A m : Count(m, Append(toServer, AnswerTo(l.id)))
                        = Count(m, toServer) + One(AnswerTo(l.id) = m)
        BY <4>2, AppendProperties, CountAppend, Lines DEF TypeOK
      <4>4. TypeOK'
        BY <1>1, <1>2, <2>1, <4>1, <4>3 DEF TypeOK
      <4>5. \A k : Count(RequestOf(k), toServer') = Count(RequestOf(k), toServer)
        <5> TAKE k
        <5>1. AnswerTo(l.id) # RequestOf(k) /\ Count(RequestOf(k), toServer) \in Nat
          BY Lines, Numbers
        <5>2. Count(RequestOf(k), Append(toServer, AnswerTo(l.id))) = Count(RequestOf(k), toServer)
          BY <4>3, <5>1 DEF One
        <5> QED BY <4>1, <5>2
      <4>6. RunsOnce' /\ Settled'
        BY <1>1, <4>1, <4>5 DEF RunsOnce, Settled
      <4> QED BY <4>4, <4>6
    <3>3. CASE ReadNull
      <4>1. call' = call /\ toServer' = toServer
        BY <3>3 DEF ReadNull
      <4>2. TypeOK'
        BY <1>1, <1>2, <2>1, <4>1 DEF TypeOK
      <4>3. RunsOnce' /\ Settled'
        BY <1>1, <4>1 DEF RunsOnce, Settled
      <4> QED BY <4>2, <4>3
    <3> QED BY <1>11, <3>1, <3>2, <3>3
  <2> QED BY <1>7, <1>8, <2>4, <2>5, <2>6
<1> QED BY <1>10, <1>11

(* The handler returns, or the readLoop ends.                              *)
LEMMA LoopStep ==
  ASSUME IInv, HandlerReturns \/ ReadLoopEnds
  PROVE  IInv'
<1> USE DEF IInv
<1>1. /\ waiting' = waiting /\ delivered' = delivered /\ alive' = alive
      /\ toServer' = toServer /\ call' = call
      /\ method' = method /\ accepted' = accepted /\ unheard' = unheard
      /\ removed' = removed /\ scall' = scall
  BY DEF HandlerReturns, ReadLoopEnds, backVars, serverVars
<1>2. Coming' = Coming
  BY <1>1 DEF Coming
<1>3. UnheardIsDone' /\ AnswerLast' /\ ComingIsReal' /\ RunsOnce'
  BY <1>1, <1>2 DEF UnheardIsDone, AnswerLast, ComingIsReal, RunsOnce
<1>4. CASE HandlerReturns
  <2>1. /\ rl = "handler" /\ rl' = "read" /\ note' = NoCall /\ nested' = NoCall
        /\ handled' = [handled EXCEPT ![note] = @ + 1]
    BY <1>4 DEF HandlerReturns
  <2>2. note \in Calls /\ note # NoCall
    BY <2>1 DEF InHand, TypeOK
  <2>3. \A k \in Calls : /\ handled'[k] = handled[k] + One(note = k)
                         /\ One(note' = k) = 0 /\ One(note = k) \in Nat
    BY <2>1, <2>2, Numbers, CallsAssumption DEF One, TypeOK
  <2>4. \A k \in Calls : handled[k] + One(note = k) <= accepted[k]
    BY <2>3, Numbers DEF NotesCounted, Given
  <2>5. TypeOK'
    <3>1. handled[note] + 1 \in 0 .. MaxNotes
      BY <2>2, <2>4, Numbers DEF One
    <3> QED BY <1>1, <2>1, <3>1 DEF TypeOK
  <2>6. InHand'
    BY <2>1 DEF InHand
  <2>7. NotesCounted'
    <3>1. ASSUME NEW k \in Calls PROVE Given(k)' = Given(k)
      <4>1. Given(k)' = handled'[k] + One(note' = k) + Count(NoteOf(k), Coming)
        BY <1>2 DEF Given
      <4>2. Given(k)' = handled[k] + One(note = k) + 0 + Count(NoteOf(k), Coming)
        BY <2>3, <4>1, Numbers
      <4> QED BY <2>3, <4>2, Numbers DEF Given
    <3> QED BY <1>1, <1>2, <3>1 DEF NotesCounted
  <2>8. Settled'
    <3> SUFFICES ASSUME NEW k \in Calls, call[k] \in {"answered", "returned"}
                 PROVE  /\ handled'[k] = accepted[k] /\ method[k] = "done"
                        /\ k \notin unheard
      BY <1>1 DEF Settled
    <3>1. handled[k] = accepted[k] /\ method[k] = "done" /\ k \notin unheard
      BY DEF Settled
    <3> QED BY <3>1, <2>3, <2>4, Numbers
  <2> QED BY <1>3, <2>5, <2>6, <2>7, <2>8
<1>5. CASE ReadLoopEnds
  <2>1. rl = "read" /\ rl' = "dead" /\ note' = note /\ nested' = nested /\ handled' = handled
    BY <1>5 DEF ReadLoopEnds
  <2> QED BY <1>1, <1>2, <1>3, <2>1 DEF TypeOK, InHand, NotesCounted, Given, Settled
<1> QED BY <1>4, <1>5

(* The request that arrives is the only one of its call, and its method    *)
(* has not started.                                                        *)
LEMMA RequestIsNew ==
  ASSUME IInv, DispatchRequest
  PROVE  Arriving \in Calls /\ Head(toServer) = RequestOf(Arriving) /\ method[Arriving] = "none"
<1> DEFINE l == Head(toServer)
<1>1. toServer \in Seq(Up) /\ toServer # <<>> /\ l.kind = "request"
  BY DEF IInv, TypeOK, DispatchRequest, Dispatches
<1>2. l \in Up /\ Tail(toServer) \in Seq(Up)
  BY <1>1, HeadTailProperties
<1>3. l.id \in Calls /\ l = RequestOf(l.id)
  BY <1>1, <1>2, LineKinds
<1>4. /\ Count(RequestOf(l.id), toServer) = One(l = RequestOf(l.id)) + Count(RequestOf(l.id), Tail(toServer))
      /\ Count(RequestOf(l.id), Tail(toServer)) \in Nat
  BY <1>1, <1>2, CountTail, CountType
<1>5. Count(RequestOf(l.id), toServer) > 0
  BY <1>3, <1>4 DEF One
<1>6. Count(RequestOf(l.id), toServer) + One(method[l.id] # "none")
        <= One(call[l.id] \notin {"idle", "write"})
  BY <1>3 DEF IInv, RunsOnce
<1>7. method[l.id] = "none"
  BY <1>4, <1>5, <1>6 DEF One
<1> QED BY <1>3, <1>7 DEF Arriving

(* The server dispatches what arrives.                                     *)
LEMMA DispatchStep ==
  ASSUME IInv, PumpRuns
  PROVE  IInv'
<1> USE DEF IInv
<1>1. /\ waiting' = waiting /\ delivered' = delivered /\ alive' = alive
      /\ call' = call /\ rl' = rl /\ note' = note /\ nested' = nested /\ handled' = handled
      /\ accepted' = accepted /\ unheard' = unheard
  BY DEF PumpRuns, DispatchRequest, DispatchResponse, PumpEnds, Dispatches,
         backVars, clientVars
<1>2. Coming' = Coming
  BY <1>1 DEF Coming
<1>3. InHand' /\ NotesCounted' /\ AnswerLast'
  BY <1>1, <1>2 DEF InHand, NotesCounted, AnswerLast, Given
<1>4. toServer \in Seq(Up) /\ \A m : Count(m, toServer) \in Nat
  BY Numbers DEF TypeOK
<1>5. CASE DispatchRequest \/ DispatchResponse
  <2> DEFINE l == Head(toServer)
  <2>1. toServer # <<>> /\ toServer' = Tail(toServer) /\ removed' = removed
    BY <1>5 DEF DispatchRequest, DispatchResponse, Dispatches
  <2>2. l \in Up /\ toServer' \in Seq(Up)
    BY <1>4, <2>1, HeadTailProperties
  <2>3. \A m : /\ Count(m, toServer) = One(l = m) + Count(m, toServer')
               /\ Count(m, toServer') \in Nat
    BY <1>4, <2>1, <2>2, CountTail, CountType
  <2>4. CASE DispatchRequest
    <3>1. /\ l.kind = "request" /\ scall' = scall
          /\ method' = [method EXCEPT ![l.id] = "running"]
      BY <2>4 DEF DispatchRequest, Dispatches, Arriving
    <3>2. l.id \in Calls /\ l = RequestOf(l.id)
      BY <2>2, <3>1, LineKinds
    <3>3. method[l.id] = "none"
      BY <2>4, RequestIsNew DEF Arriving
    <3>4. TypeOK'
      BY <1>1, <2>1, <2>2, <3>1, <3>2 DEF TypeOK
    <3>5. \A k \in Calls : method[k] = "done" => method'[k] = "done"
      BY <3>1, <3>3 DEF TypeOK
    <3>6. UnheardIsDone' /\ ComingIsReal' /\ Settled'
      BY <1>1, <1>2, <3>5 DEF UnheardIsDone, ComingIsReal, Settled, TypeOK
    <3>7. RunsOnce'
      <4> SUFFICES ASSUME NEW k \in Calls
                   PROVE  Count(RequestOf(k), toServer') + One(method'[k] # "none")
                            <= One(call[k] \notin {"idle", "write"})
        BY <1>1 DEF RunsOnce
      <4>1. /\ Count(RequestOf(k), toServer) + One(method[k] # "none")
                 <= One(call[k] \notin {"idle", "write"})
            /\ Count(RequestOf(k), toServer) = One(l = RequestOf(k)) + Count(RequestOf(k), toServer')
            /\ Count(RequestOf(k), toServer') \in Nat
        BY <2>3 DEF RunsOnce
      <4>2. CASE k = l.id
        <5>1. l = RequestOf(k) /\ method[k] = "none" /\ method'[k] = "running"
          BY <3>1, <3>2, <3>3, <4>2 DEF TypeOK
        <5> QED BY <4>1, <5>1 DEF One
      <4>3. CASE k # l.id
        <5>1. l # RequestOf(k) /\ method'[k] = method[k]
          BY <3>1, <3>2, <4>3, Lines DEF TypeOK
        <5> QED BY <4>1, <5>1 DEF One
      <4> QED BY <4>2, <4>3
    <3> QED BY <1>3, <3>4, <3>6, <3>7
  <2>5. CASE DispatchResponse
    <3>1. /\ l.kind = "response" /\ method' = method
          /\ scall' = [scall EXCEPT ![l.id] = IF @ = "wait" THEN "answered" ELSE @]
      BY <2>5 DEF DispatchResponse, Dispatches, Arriving
    <3>2. l.id \in ServerCalls /\ l = AnswerTo(l.id)
      BY <2>2, <3>1, LineKinds
    <3>3. TypeOK'
      BY <1>1, <2>1, <2>2, <3>1, <3>2 DEF TypeOK
    <3>4. \A k \in Calls : Count(RequestOf(k), toServer') = Count(RequestOf(k), toServer)
      <4>1. \A k : l # RequestOf(k)
        BY <3>1 DEF RequestOf
      <4> QED BY <2>3, <4>1 DEF One
    <3>5. UnheardIsDone' /\ ComingIsReal' /\ Settled' /\ RunsOnce'
      BY <1>1, <1>2, <3>1, <3>4 DEF UnheardIsDone, ComingIsReal, Settled, RunsOnce
    <3> QED BY <1>3, <3>3, <3>5
  <2> QED BY <1>5, <2>4, <2>5
<1>6. CASE PumpEnds
  <2>1. removed' = TRUE /\ toServer' = <<>> /\ method' = method /\ scall' = scall
    BY <1>6 DEF PumpEnds
  <2>2. TypeOK'
    <3>1. removed' \in BOOLEAN
      BY <2>1, Zenon
    <3>2. toServer' \in Seq(Up)
      BY <2>1, EmptySeq
    <3> QED BY <1>1, <2>1, <3>1, <3>2 DEF TypeOK
  <2>3. \A m : Count(m, toServer') = 0
    <3>1. <<>> \in Seq(Up) /\ \A i \in 1 .. Len(<<>>) : FALSE
      BY EmptySeq
    <3> QED BY <2>1, <3>1, CountType
  <2>4. RunsOnce'
    <3> SUFFICES ASSUME NEW k \in Calls
                 PROVE  Count(RequestOf(k), toServer') + One(method[k] # "none")
                          <= One(call[k] \notin {"idle", "write"})
      BY <1>1, <2>1 DEF RunsOnce
    <3>1. /\ Count(RequestOf(k), toServer) + One(method[k] # "none")
               <= One(call[k] \notin {"idle", "write"})
          /\ Count(RequestOf(k), toServer) \in Nat
      BY <1>4 DEF RunsOnce
    <3>2. Count(RequestOf(k), toServer') = 0
      BY <2>3
    <3> QED BY <3>1, <3>2 DEF One
  <2>5. UnheardIsDone' /\ ComingIsReal' /\ Settled'
    BY <1>1, <1>2, <2>1 DEF UnheardIsDone, ComingIsReal, Settled
  <2> QED BY <1>3, <2>2, <2>4, <2>5
<1> QED BY <1>5, <1>6 DEF PumpRuns

(* A line that is not refused comes behind all others, or is lost.         *)
LEMMA CountAccept ==
  ASSUME TypeOK, NEW e \in Line, Back!Accept(e)
  PROVE  \A m : Count(m, Coming') = Count(m, Coming) + One(alive /\ e = m)
<1> SUFFICES ASSUME NEW m PROVE Count(m, Coming') = Count(m, Coming) + One(alive /\ e = m)
  OBVIOUS
<1>1. Coming' = IF alive THEN Append(Coming, e) ELSE Coming
  BY AcceptComes
<1>2. /\ Count(m, Append(Coming, e)) = Count(m, Coming) + One(e = m)
      /\ Count(m, Coming) \in Nat
  BY ComingType, CountAppend, Numbers
<1> QED BY <1>1, <1>2 DEF One

(* A method streams a notification, or it is refused.                      *)
LEMMA NotifyStep ==
  ASSUME IInv, NEW k \in Calls, MethodNotifies(k)
  PROVE  IInv'
<1> USE DEF IInv
<1>1. /\ toServer' = toServer /\ call' = call /\ rl' = rl /\ note' = note
      /\ nested' = nested /\ handled' = handled /\ method' = method /\ unheard' = unheard
      /\ removed' = removed /\ scall' = scall /\ method[k] = "running"
  BY DEF MethodNotifies, clientVars
<1>2. InHand' /\ UnheardIsDone' /\ RunsOnce'
  BY <1>1 DEF InHand, UnheardIsDone, RunsOnce
<1>3. CASE Back!Refuse /\ UNCHANGED accepted
  <2>1. waiting' = waiting /\ delivered' = delivered /\ alive' = alive /\ accepted' = accepted
    BY <1>3 DEF Back!Refuse, Back!vars
  <2>2. Coming' = Coming
    BY <2>1 DEF Coming
  <2> QED BY <1>1, <1>2, <2>1, <2>2
          DEF TypeOK, NotesCounted, AnswerLast, ComingIsReal, Settled, Given
<1>4. CASE /\ accepted[k] < MaxNotes /\ Back!Accept(NoteOf(k))
           /\ accepted' = [accepted EXCEPT ![k] = @ + 1]
  <2>1. /\ waiting' \in Seq(Line) /\ delivered' \in Seq(Line) /\ alive' = alive
        /\ Coming' = IF alive THEN Append(Coming, NoteOf(k)) ELSE Coming
        /\ NoteOf(k) \in Line /\ Coming \in Seq(Line)
    BY <1>4, AcceptComes, Lines, ComingType
  <2>2. \A m : Count(m, Coming') = Count(m, Coming) + One(alive /\ NoteOf(k) = m)
    BY <1>4, <2>1, CountAccept
  <2>3. TypeOK'
    <3>1. accepted[k] + 1 \in 0 .. MaxNotes
      BY <1>4, Numbers
    <3> QED BY <1>1, <1>4, <2>1, <3>1 DEF TypeOK
  <2>4. \A j \in Calls : Count(AnswerTo(j), Coming') = Count(AnswerTo(j), Coming)
    <3> TAKE j \in Calls
    <3>1. NoteOf(k) # AnswerTo(j) /\ Count(AnswerTo(j), Coming) \in Nat
      BY Lines, Numbers
    <3>2. One(alive /\ NoteOf(k) = AnswerTo(j)) = 0
      BY <3>1 DEF One
    <3>3. Count(AnswerTo(j), Coming') = Count(AnswerTo(j), Coming) + One(alive /\ NoteOf(k) = AnswerTo(j))
      BY <2>2
    <3> QED BY <3>1, <3>2, <3>3
  <2>5. ComingIsReal'
    BY <1>1, <2>4 DEF ComingIsReal
  <2>6. Count(AnswerTo(k), Coming) = 0
    BY <1>1, Numbers DEF ComingIsReal
  <2>7. AnswerLast'
    <3>1. \A j \in Calls : NoteOf(k) = NoteOf(j) => Count(AnswerTo(j), Coming) = 0
      BY <2>6, Lines
    <3> QED BY <2>1, <3>1, OrderAppend DEF AnswerLast
  <2>8. Settled'
    <3>1. \A j \in Calls : method[j] = "done" => accepted'[j] = accepted[j]
      BY <1>1, <1>4 DEF TypeOK
    <3> QED BY <1>1, <3>1 DEF Settled
  <2>9. NotesCounted'
    <3> SUFFICES ASSUME NEW j \in Calls
                 PROVE  /\ Given(j)' <= accepted'[j]
                        /\ alive \/ Count(AnswerTo(j), Coming) > 0 => Given(j)' = accepted'[j]
      BY <2>1, <2>4 DEF NotesCounted
    <3>1. /\ Given(j) <= accepted[j]
          /\ alive \/ Count(AnswerTo(j), Coming) > 0 => Given(j) = accepted[j]
      BY DEF NotesCounted
    <3>2. Given(j)' = handled[j] + One(note = j) + Count(NoteOf(j), Coming')
      BY <1>1 DEF Given
    <3>3. Count(NoteOf(j), Coming') = Count(NoteOf(j), Coming) + One(alive /\ NoteOf(k) = NoteOf(j))
      BY <2>2
    <3>4. /\ handled[j] \in Nat /\ accepted[j] \in Nat /\ Count(NoteOf(j), Coming) \in Nat
          /\ One(note = j) \in Nat
      BY Numbers DEF One
    <3>5. CASE j = k
      <4>1. accepted'[j] = accepted[j] + 1
        BY <1>4, <3>5 DEF TypeOK
      <4>2. NoteOf(k) = NoteOf(j)
        BY <3>5
      <4>3. Given(j)' = Given(j) + One(alive)
        BY <3>2, <3>3, <3>4, <4>2 DEF Given, One
      <4> QED BY <2>6, <3>1, <3>4, <3>5, <4>1, <4>3 DEF One, Given
    <3>6. CASE j # k
      <4>1. accepted'[j] = accepted[j]
        BY <1>4, <3>6 DEF TypeOK
      <4>2. NoteOf(k) # NoteOf(j)
        BY <3>6, Lines
      <4>3. Given(j)' = Given(j)
        BY <3>2, <3>3, <3>4, <4>2 DEF Given, One
      <4> QED BY <3>1, <4>1, <4>3
    <3> QED BY <3>5, <3>6
  <2> QED BY <1>2, <2>3, <2>5, <2>7, <2>8, <2>9
<1> QED BY <1>3, <1>4 DEF MethodNotifies, NoteOf

(* An answer or a request of the server comes: the notifications that come *)
(* are the same, and they keep their place.                                *)
LEMMA NoNoteComes ==
  ASSUME IInv, NEW e \in Line, \A k \in Calls : e # NoteOf(k), Back!Accept(e),
         UNCHANGED <<note, handled, accepted>>
  PROVE  /\ AnswerLast'
         /\ \A k \in Calls : /\ Given(k)' = Given(k)
                             /\ e # AnswerTo(k) =>
                                  Count(AnswerTo(k), Coming') = Count(AnswerTo(k), Coming)
                             /\ ~alive =>
                                  Count(AnswerTo(k), Coming') = Count(AnswerTo(k), Coming)
<1> USE DEF IInv
<1>1. /\ Coming' = IF alive THEN Append(Coming, e) ELSE Coming
      /\ Coming \in Seq(Line)
  BY AcceptComes, ComingType
<1>2. AnswerLast'
  BY <1>1, OrderAppend DEF AnswerLast
<1>3. ASSUME NEW m, e # m \/ ~alive PROVE Count(m, Coming') = Count(m, Coming)
  <2>1. Count(m, Coming') = Count(m, Coming) + One(alive /\ e = m)
    BY CountAccept
  <2> QED BY <1>3, <2>1, Numbers DEF One
<1>4. \A k \in Calls : Given(k)' = Given(k)
  BY <1>3 DEF Given
<1> QED BY <1>2, <1>3, <1>4

(* A method is over, and its answer is queued - for the client to take it  *)
(* for a response or not - or refused or not sent.                         *)
LEMMA AnswerStep ==
  ASSUME IInv, NEW k \in Calls, MethodAnswers(k)
  PROVE  IInv'
<1> USE DEF IInv
<1>1. /\ toServer' = toServer /\ call' = call /\ rl' = rl /\ note' = note
      /\ nested' = nested /\ handled' = handled /\ accepted' = accepted
      /\ removed' = removed /\ scall' = scall
      /\ method[k] = "running" /\ method' = [method EXCEPT ![k] = "done"]
  BY DEF MethodAnswers, clientVars
<1>2. \/ Back!Accept(AnswerTo(k)) /\ unheard' = unheard
      \/ Back!Accept(NullTo(k)) /\ unheard' = unheard \cup {k}
      \/ /\ waiting' = waiting /\ delivered' = delivered /\ alive' = alive
         /\ unheard' \in {unheard, unheard \cup {k}}
  BY DEF MethodAnswers, AnswerTo, NullTo, Back!Refuse, Back!vars, backVars
<1>3. \A j \in Calls : method[j] = "done" => method'[j] = "done" /\ j # k
  BY <1>1 DEF TypeOK
<1>4. k \notin unheard /\ unheard' \in {unheard, unheard \cup {k}} /\ method'[k] = "done"
  BY <1>1, <1>2 DEF UnheardIsDone, TypeOK
<1>5. \A j \in Calls : method[j] = "done" /\ j \notin unheard =>
                         method'[j] = "done" /\ j \notin unheard'
  BY <1>3, <1>4
<1>6. InHand' /\ UnheardIsDone' /\ Settled'
  <2>1. InHand'
    BY <1>1 DEF InHand
  <2>2. UnheardIsDone'
    BY <1>3, <1>4 DEF UnheardIsDone, TypeOK
  <2>3. Settled'
    BY <1>1, <1>5 DEF Settled
  <2> QED BY <2>1, <2>2, <2>3
<1>7. RunsOnce'
  <2>1. \A j \in Calls : method'[j] # "none" <=> method[j] # "none"
    BY <1>1 DEF TypeOK
  <2> SUFFICES ASSUME NEW j \in Calls
               PROVE  Count(RequestOf(j), toServer) + One(method'[j] # "none")
                        <= One(call[j] \notin {"idle", "write"})
    BY <1>1 DEF RunsOnce
  <2>2. Count(RequestOf(j), toServer) + One(method[j] # "none")
          <= One(call[j] \notin {"idle", "write"})
    BY DEF RunsOnce
  <2> QED BY <2>1, <2>2 DEF One
<1>8. TypeOK' /\ NotesCounted' /\ AnswerLast' /\ ComingIsReal'
  <2>1. CASE Back!Accept(AnswerTo(k)) /\ unheard' = unheard
    <3>1. AnswerTo(k) \in Line /\ \A j \in Calls : AnswerTo(k) # NoteOf(j)
      BY Lines
    <3>2. /\ waiting' \in Seq(Line) /\ delivered' \in Seq(Line) /\ alive' = alive
      BY <2>1, <3>1, AcceptComes
    <3>3. TypeOK'
      BY <1>1, <2>1, <3>2 DEF TypeOK
    <3>4. /\ AnswerLast'
          /\ \A j \in Calls :
               /\ Given(j)' = Given(j)
               /\ j # k \/ ~alive => Count(AnswerTo(j), Coming') = Count(AnswerTo(j), Coming)
      BY <1>1, <2>1, <3>1, NoNoteComes, Lines
    <3>5. NotesCounted'
      <4> SUFFICES ASSUME NEW j \in Calls
                   PROVE  /\ Given(j)' <= accepted[j]
                          /\ alive \/ Count(AnswerTo(j), Coming') > 0 => Given(j)' = accepted[j]
        BY <1>1, <3>2 DEF NotesCounted
      <4> QED BY <3>4 DEF NotesCounted
    <3>6. ComingIsReal'
      <4> SUFFICES ASSUME NEW j \in Calls, Count(AnswerTo(j), Coming') > 0
                   PROVE  method'[j] = "done" /\ j \notin unheard'
        BY DEF ComingIsReal
      <4>1. CASE j = k
        BY <1>4, <2>1, <4>1
      <4>2. CASE j # k
        BY <1>5, <3>4, <4>2 DEF ComingIsReal
      <4> QED BY <4>1, <4>2
    <3> QED BY <3>3, <3>4, <3>5, <3>6
  <2>2. CASE waiting' = waiting /\ delivered' = delivered /\ alive' = alive
    <3>1. Coming' = Coming
      BY <2>2 DEF Coming
    <3>2. TypeOK'
      BY <1>1, <1>4, <2>2 DEF TypeOK
    <3>3. NotesCounted' /\ AnswerLast'
      BY <1>1, <2>2, <3>1 DEF NotesCounted, AnswerLast, Given
    <3>4. ComingIsReal'
      BY <1>5, <3>1 DEF ComingIsReal
    <3> QED BY <3>2, <3>3, <3>4
  <2>3. CASE Back!Accept(NullTo(k)) /\ unheard' = unheard \cup {k}
    <3>1. /\ NullTo(k) \in Line
          /\ \A j \in Calls : NullTo(k) # NoteOf(j) /\ NullTo(k) # AnswerTo(j)
      BY Lines
    <3>2. waiting' \in Seq(Line) /\ delivered' \in Seq(Line) /\ alive' = alive
      BY <2>3, <3>1, AcceptComes
    <3>3. TypeOK'
      BY <1>1, <2>3, <3>2 DEF TypeOK
    <3>4. /\ AnswerLast'
          /\ \A j \in Calls : /\ Given(j)' = Given(j)
                              /\ Count(AnswerTo(j), Coming') = Count(AnswerTo(j), Coming)
      BY <1>1, <2>3, <3>1, NoNoteComes
    <3>5. NotesCounted'
      BY <1>1, <3>2, <3>4 DEF NotesCounted
    <3>6. ComingIsReal'
      BY <1>5, <3>4 DEF ComingIsReal
    <3> QED BY <3>3, <3>4, <3>5, <3>6
  <2> QED BY <1>2, <2>1, <2>2, <2>3
<1> QED BY <1>6, <1>7, <1>8

(* Server.Call sends its request, or returns.                              *)
LEMMA ServerCallStep ==
  ASSUME IInv, NEW m \in ServerCalls, ServerCall(m) \/ ServerCallReturns(m)
  PROVE  IInv'
<1> USE DEF IInv
<1>1. /\ toServer' = toServer /\ call' = call /\ rl' = rl /\ note' = note
      /\ nested' = nested /\ handled' = handled /\ accepted' = accepted
      /\ removed' = removed /\ method' = method /\ unheard' = unheard
      /\ scall' \in {[scall EXCEPT ![m] = "wait"], [scall EXCEPT ![m] = "over"]}
  BY DEF ServerCall, ServerCallReturns, clientVars
<1>2. \/ Back!Accept(RequestOf(m))
      \/ waiting' = waiting /\ delivered' = delivered /\ alive' = alive
  BY DEF ServerCall, ServerCallReturns, RequestOf, Back!Refuse, Back!vars, backVars
<1>3. InHand' /\ UnheardIsDone' /\ Settled' /\ RunsOnce'
  BY <1>1 DEF InHand, UnheardIsDone, Settled, RunsOnce
<1>4. CASE Back!Accept(RequestOf(m))
  <2>1. /\ RequestOf(m) \in Line
        /\ \A j \in Calls : RequestOf(m) # NoteOf(j) /\ RequestOf(m) # AnswerTo(j)
    BY Lines
  <2>2. waiting' \in Seq(Line) /\ delivered' \in Seq(Line) /\ alive' = alive
    BY <1>4, <2>1, AcceptComes
  <2>3. TypeOK'
    BY <1>1, <2>2 DEF TypeOK
  <2>4. /\ AnswerLast'
        /\ \A j \in Calls : /\ Given(j)' = Given(j)
                            /\ Count(AnswerTo(j), Coming') = Count(AnswerTo(j), Coming)
    BY <1>1, <1>4, <2>1, NoNoteComes
  <2>5. NotesCounted' /\ ComingIsReal'
    BY <1>1, <2>2, <2>4 DEF NotesCounted, ComingIsReal
  <2> QED BY <1>3, <2>3, <2>4, <2>5
<1>5. CASE waiting' = waiting /\ delivered' = delivered /\ alive' = alive
  <2>1. Coming' = Coming
    BY <1>5 DEF Coming
  <2>2. TypeOK'
    BY <1>1, <1>5 DEF TypeOK
  <2>3. NotesCounted' /\ AnswerLast' /\ ComingIsReal'
    BY <1>1, <1>5, <2>1 DEF NotesCounted, AnswerLast, ComingIsReal, Given
  <2> QED BY <1>3, <2>2, <2>3
<1> QED BY <1>2, <1>4, <1>5

LEMMA StepInv == IInv /\ [Next]_vars => IInv'
<1> SUFFICES ASSUME IInv, [Next]_vars PROVE IInv'
  OBVIOUS
<1>1. CASE FrameComes \/ Breaks \/ \E n \in 1 .. Len(waiting) : Loses(n)
  BY <1>1, ConnectionStep DEF FrameComes
<1>2. CASE \E k \in Calls : \/ CallRegisters(k) \/ HandlerCalls(k) \/ CallRuns(k)
                            \/ CallTimesOut(k)
  BY <1>2, CallStep
<1>3. CASE \E k \in Calls : MethodNotifies(k) \/ MethodAnswers(k)
  BY <1>3, NotifyStep, AnswerStep
<1>4. CASE ReadRuns
  BY <1>4, ReadStep, LoopStep DEF ReadRuns
<1>5. CASE PumpRuns
  BY <1>5, DispatchStep
<1>6. CASE \E m \in ServerCalls : ServerCall(m) \/ ServerCallReturns(m)
  BY <1>6, ServerCallStep
<1>7. CASE UNCHANGED vars
  <2>1. /\ waiting' = waiting /\ delivered' = delivered /\ alive' = alive
        /\ toServer' = toServer /\ call' = call /\ rl' = rl /\ note' = note
        /\ nested' = nested /\ handled' = handled /\ method' = method
        /\ accepted' = accepted /\ unheard' = unheard /\ removed' = removed
        /\ scall' = scall
    BY <1>7 DEF vars, backVars, clientVars, serverVars
  <2>2. Coming' = Coming
    BY <2>1 DEF Coming
  <2>3. /\ TypeOK' /\ InHand' /\ NotesCounted' /\ AnswerLast' /\ UnheardIsDone'
        /\ ComingIsReal' /\ Settled' /\ RunsOnce'
    BY <2>1, <2>2 DEF IInv, TypeOK, InHand, NotesCounted, AnswerLast, UnheardIsDone,
                      ComingIsReal, Settled, RunsOnce, Given
  <2> QED BY <2>3 DEF IInv
<1> QED BY <1>1, <1>2, <1>3, <1>4, <1>5, <1>6, <1>7 DEF Next

(* Every accepted notification is handled, in hand or still coming as long *)
(* as the connection holds or the answer of its call is coming, and no     *)
(* answer comes before its notifications.                                  *)
THEOREM Invariance == Spec => []IInv
BY InitInv, StepInv, PTL DEF Spec

-----------------------------------------------------------------------------
(* The types of the round trip's variables.                                *)
THEOREM TypeCorrect == Spec => []TypeOK
<1>1. IInv => TypeOK
  BY DEF IInv
<1> QED BY <1>1, Invariance, PTL

(* When Client.Call returns with its answer, the client has handled every  *)
(* notification that the method streamed and the server did not refuse.    *)
THEOREM NotesFirst == Spec => []NotesBeforeAnswer
<1>1. IInv => NotesBeforeAnswer
  BY DEF IInv, Settled, NotesBeforeAnswer
<1> QED BY <1>1, Invariance, PTL

(* An answer that reaches its call was sent by the method that is done.    *)
THEOREM AnswersAreReal == Spec => []AnswerIsReal
<1>1. IInv => AnswerIsReal
  BY DEF IInv, Settled, AnswerIsReal
<1> QED BY <1>1, Invariance, PTL

(* The server runs the method of a call at most once and lets it answer    *)
(* once: readPump never starts it again, although it does not look.        *)
NeverAgain ==
  \A k \in Calls : /\ method[k] # "none" => method'[k] # "none"
                   /\ method[k] = "done" => method'[k] = "done"

(* No step starts a method a second time or revives one that is done.      *)
THEOREM MethodsRunOnce == Spec => [][NeverAgain]_vars
<1>1. IInv /\ [Next]_vars => [NeverAgain]_vars
  <2> SUFFICES ASSUME IInv, Next PROVE NeverAgain
    BY DEF vars
  <2>1. CASE DispatchRequest
    <3>1. Arriving \in Calls /\ method[Arriving] = "none"
      BY <2>1, RequestIsNew
    <3>2. method' = [method EXCEPT ![Arriving] = "running"]
      BY <2>1 DEF DispatchRequest
    <3> QED BY <3>1, <3>2 DEF IInv, TypeOK, NeverAgain
  <2>2. CASE \E k \in Calls : MethodAnswers(k)
    <3>1. PICK k \in Calls : method' = [method EXCEPT ![k] = "done"] /\ method[k] = "running"
      BY <2>2 DEF MethodAnswers
    <3> QED BY <3>1 DEF IInv, TypeOK, NeverAgain
  <2>3. CASE method' = method
    BY <2>3 DEF NeverAgain
  <2>4. \/ DispatchRequest \/ (\E k \in Calls : MethodAnswers(k)) \/ method' = method
    <3>1. ASSUME NEW n, Frame(n) \/ Breaks \/ Loses(n) PROVE method' = method
      BY <3>1 DEF Frame, Breaks, Loses, serverVars
    <3>2. ASSUME NEW k \in Calls,
                 \/ CallRegisters(k) \/ HandlerCalls(k) \/ CallRuns(k) \/ CallTimesOut(k)
                 \/ MethodNotifies(k)
          PROVE  method' = method
      BY <3>2 DEF CallRegisters, HandlerCalls, CallRuns, CallTimesOut, CallWrites, WriteFails,
                  CallAnswered, CallClosed, Ends, Begins, Moves, MethodNotifies, serverVars
    <3>3. ReadRuns => method' = method
      BY DEF ReadRuns, ReadNote, HandlerReturns, ReadResponse, ReadNull, ReadRequest, ReadLoopEnds,
             TakesLine, serverVars
    <3>4. PumpRuns => DispatchRequest \/ method' = method
      BY DEF PumpRuns, DispatchResponse, PumpEnds
    <3>5. ASSUME NEW m \in ServerCalls, ServerCall(m) \/ ServerCallReturns(m)
          PROVE  method' = method
      BY <3>5 DEF ServerCall, ServerCallReturns
    <3> QED BY <3>1, <3>2, <3>3, <3>4, <3>5 DEF Next, FrameComes
  <2> QED BY <2>1, <2>2, <2>3, <2>4
<1> QED BY <1>1, Invariance, PTL DEF Spec

-----------------------------------------------------------------------------
(* The round trip implements StreamingCall.                                *)

(* What a step of a call is to its caller.                                 *)
LEMMA OutcomeMoves ==
  ASSUME TypeOK, NEW k \in Calls, NEW to, call' = [call EXCEPT ![k] = to]
  PROVE  Outcome' = [Outcome EXCEPT ![k] =
                       IF to \in {"write", "wait", "answered"} THEN "open" ELSE to]
<1>1. call \in [Calls -> {"idle", "write", "wait", "answered", "returned", "failed"}]
  BY DEF TypeOK
<1>2. \A j \in Calls : call'[j] = IF j = k THEN to ELSE call[j]
  BY <1>1
<1> DEFINE seen == IF to \in {"write", "wait", "answered"} THEN "open" ELSE to
<1>3. \A j \in Calls : Outcome'[j] = IF j = k THEN seen ELSE Outcome[j]
  BY <1>2 DEF Outcome
<1> QED BY <1>3 DEF Outcome

LEMMA CallStreams ==
  ASSUME IInv, NEW k \in Calls,
         \/ CallRegisters(k) \/ HandlerCalls(k) \/ CallRuns(k) \/ CallTimesOut(k)
  PROVE  [Streaming!Next]_(Streaming!vars)
<1>1. /\ method' = method /\ accepted' = accepted /\ handled' = handled /\ unheard' = unheard
  BY DEF CallRegisters, HandlerCalls, CallRuns, CallTimesOut, CallWrites, WriteFails,
         CallAnswered, CallClosed, Ends, Begins, Moves, clientVars, serverVars
<1>2. \/ call[k] = "idle" /\ call' = [call EXCEPT ![k] = "write"]
      \/ call[k] = "write" /\ call' = [call EXCEPT ![k] = "wait"]
      \/ call[k] = "answered" /\ call' = [call EXCEPT ![k] = "returned"]
      \/ call[k] \in {"write", "wait", "answered"} /\ call' = [call EXCEPT ![k] = "failed"]
  BY DEF CallRegisters, HandlerCalls, CallRuns, CallTimesOut, CallWrites, WriteFails,
         CallAnswered, CallClosed, Ends, Begins, Moves
<1>3. TypeOK /\ Outcome = [Outcome EXCEPT ![k] = Outcome[k]]
  BY DEF IInv, Outcome
<1>4. CASE call[k] = "idle" /\ call' = [call EXCEPT ![k] = "write"]
  <2>1. Outcome[k] = "idle" /\ Outcome' = [Outcome EXCEPT ![k] = "open"]
    <3>1. Outcome[k] = "idle"
      BY <1>4 DEF Outcome
    <3>2. Outcome' = [Outcome EXCEPT ![k] = "open"]
      BY <1>3, <1>4, OutcomeMoves
    <3> QED BY <3>1, <3>2
  <2>2. Streaming!Make(k)
    BY <1>1, <2>1 DEF Streaming!Make, Streaming!Moves
  <2> QED BY <2>2 DEF Streaming!Next
<1>5. CASE call[k] = "write" /\ call' = [call EXCEPT ![k] = "wait"]
  <2>1. Outcome[k] = "open" /\ Outcome' = [Outcome EXCEPT ![k] = "open"]
    <3>1. Outcome[k] = "open"
      BY <1>5 DEF Outcome
    <3>2. Outcome' = [Outcome EXCEPT ![k] = "open"]
      BY <1>3, <1>5, OutcomeMoves
    <3> QED BY <3>1, <3>2
  <2> QED BY <1>1, <1>3, <2>1 DEF Streaming!vars
<1>6. CASE call[k] = "answered" /\ call' = [call EXCEPT ![k] = "returned"]
  <2>1. Outcome[k] = "open" /\ Outcome' = [Outcome EXCEPT ![k] = "returned"]
    <3>1. Outcome[k] = "open"
      BY <1>6 DEF Outcome
    <3>2. Outcome' = [Outcome EXCEPT ![k] = "returned"]
      BY <1>3, <1>6, OutcomeMoves
    <3> QED BY <3>1, <3>2
  <2>2. method[k] = "done" /\ k \notin unheard /\ handled[k] = accepted[k]
    BY <1>6 DEF IInv, Settled
  <2>3. Streaming!Return(k)
    BY <1>1, <2>1, <2>2 DEF Streaming!Return, Streaming!Moves
  <2> QED BY <2>3 DEF Streaming!Next
<1>7. CASE call[k] \in {"write", "wait", "answered"} /\ call' = [call EXCEPT ![k] = "failed"]
  <2>1. Outcome[k] = "open" /\ Outcome' = [Outcome EXCEPT ![k] = "failed"]
    <3>1. Outcome[k] = "open"
      BY <1>7 DEF Outcome
    <3>2. Outcome' = [Outcome EXCEPT ![k] = "failed"]
      BY <1>3, <1>7, OutcomeMoves
    <3> QED BY <3>1, <3>2
  <2>2. Streaming!Fail(k)
    BY <1>1, <2>1 DEF Streaming!Fail, Streaming!Moves
  <2> QED BY <2>2 DEF Streaming!Next
<1> QED BY <1>2, <1>4, <1>5, <1>6, <1>7

(* The readLoop handles a notification, or does what no caller sees.        *)
LEMMA ReadStreams ==
  ASSUME IInv, ReadRuns
  PROVE  [Streaming!Next]_(Streaming!vars)
<1>1. /\ method' = method /\ accepted' = accepted /\ unheard' = unheard
  BY DEF ReadRuns, ReadNote, HandlerReturns, ReadResponse, ReadNull, ReadRequest, ReadLoopEnds,
         TakesLine, serverVars
<1>2. CASE HandlerReturns
  <2>1. /\ call' = call /\ handled' = [handled EXCEPT ![note] = @ + 1] /\ rl = "handler"
    BY <1>2 DEF HandlerReturns
  <2>2. note \in Calls
    BY <2>1 DEF IInv, TypeOK, InHand
  <2>3. handled[note] < accepted[note]
    <3>1. Given(note) <= accepted[note] /\ One(note = note) = 1
      BY <2>2 DEF IInv, NotesCounted, One
    <3>2. /\ handled[note] \in Nat /\ accepted[note] \in Nat
          /\ Count(NoteOf(note), Coming) \in Nat
      BY <2>2, Numbers DEF IInv
    <3> QED BY <3>1, <3>2 DEF Given
  <2>4. Outcome' = Outcome
    BY <2>1 DEF Outcome
  <2>5. Streaming!Handle(note)
    BY <1>1, <2>1, <2>3, <2>4 DEF Streaming!Handle
  <2> QED BY <2>2, <2>5 DEF Streaming!Next
<1>3. CASE ReadNote \/ ReadNull \/ ReadRequest \/ ReadLoopEnds
  <2>1. call' = call /\ handled' = handled
    BY <1>3 DEF ReadNote, ReadNull, ReadRequest, ReadLoopEnds, TakesLine
  <2> QED BY <1>1, <2>1 DEF Outcome, Streaming!vars
<1>4. CASE ReadResponse
  <2>1. /\ handled' = handled
        /\ call' = [call EXCEPT ![NextLine.id] = IF @ = "wait" THEN "answered" ELSE @]
    BY <1>4 DEF ReadResponse
  <2>2. call \in [Calls -> {"idle", "write", "wait", "answered", "returned", "failed"}]
    BY DEF IInv, TypeOK
  <2>3. \A j \in Calls : \/ call'[j] = call[j]
                         \/ call[j] = "wait" /\ call'[j] = "answered"
    BY <2>1, <2>2
  <2>4. Outcome' = Outcome
    BY <2>3 DEF Outcome
  <2> QED BY <1>1, <2>1, <2>4 DEF Streaming!vars
<1> QED BY <1>2, <1>3, <1>4 DEF ReadRuns

(* The server starts the methods, which stream and answer.                 *)
LEMMA ServerStreams ==
  ASSUME IInv, PumpRuns \/ \E k \in Calls : MethodNotifies(k) \/ MethodAnswers(k)
  PROVE  [Streaming!Next]_(Streaming!vars)
<1>1. call' = call /\ handled' = handled
  BY DEF PumpRuns, DispatchRequest, DispatchResponse, PumpEnds, Dispatches, MethodNotifies,
         MethodAnswers, clientVars
<1>2. Outcome' = Outcome
  BY <1>1 DEF Outcome
<1>3. CASE DispatchRequest
  <2>1. /\ Arriving \in Calls /\ method[Arriving] = "none"
        /\ Head(toServer) = RequestOf(Arriving) /\ toServer # <<>>
    BY <1>3, RequestIsNew DEF DispatchRequest, Dispatches
  <2>2. call[Arriving] # "idle"
    <3>1. toServer \in Seq(Up)
      BY DEF IInv, TypeOK
    <3>2. /\ Count(RequestOf(Arriving), toServer)
               = One(Head(toServer) = RequestOf(Arriving)) + Count(RequestOf(Arriving), Tail(toServer))
          /\ Count(RequestOf(Arriving), Tail(toServer)) \in Nat
      <4>1. Tail(toServer) \in Seq(Up)
        BY <2>1, <3>1, HeadTailProperties
      <4> QED BY <2>1, <3>1, <4>1, CountTail, CountType
    <3>3. Count(RequestOf(Arriving), toServer) > 0
      BY <2>1, <3>2 DEF One
    <3>4. Count(RequestOf(Arriving), toServer) + One(method[Arriving] # "none")
            <= One(call[Arriving] \notin {"idle", "write"})
      BY <2>1 DEF IInv, RunsOnce
    <3>5. One(method[Arriving] # "none") = 0 /\ Count(RequestOf(Arriving), toServer) \in Nat
      BY <2>1, Numbers DEF One, IInv
    <3> QED BY <3>3, <3>4, <3>5 DEF One
  <2>3. Outcome[Arriving] # "idle"
    BY <2>1, <2>2 DEF Outcome
  <2>4. /\ method' = [method EXCEPT ![Arriving] = "running"]
        /\ accepted' = accepted /\ unheard' = unheard
    BY <1>3 DEF DispatchRequest, Dispatches
  <2>5. Streaming!Start(Arriving)
    BY <1>1, <1>2, <2>1, <2>3, <2>4 DEF Streaming!Start
  <2> QED BY <2>1, <2>5 DEF Streaming!Next
<1>4. CASE DispatchResponse \/ PumpEnds
  <2>1. method' = method /\ accepted' = accepted /\ unheard' = unheard
    BY <1>4 DEF DispatchResponse, PumpEnds, Dispatches
  <2> QED BY <1>1, <1>2, <2>1 DEF Streaming!vars
<1>5. ASSUME NEW k \in Calls, MethodNotifies(k) PROVE [Streaming!Next]_(Streaming!vars)
  <2>1. method[k] = "running" /\ method' = method /\ unheard' = unheard
    BY <1>5 DEF MethodNotifies
  <2>2. \/ accepted[k] < MaxNotes /\ accepted' = [accepted EXCEPT ![k] = @ + 1]
        \/ accepted' = accepted
    BY <1>5 DEF MethodNotifies
  <2>3. CASE accepted[k] < MaxNotes /\ accepted' = [accepted EXCEPT ![k] = @ + 1]
    <3>1. Streaming!Stream(k)
      BY <1>1, <1>2, <2>1, <2>3 DEF Streaming!Stream
    <3> QED BY <3>1 DEF Streaming!Next
  <2>4. CASE accepted' = accepted
    BY <1>1, <1>2, <2>1, <2>4 DEF Streaming!vars
  <2> QED BY <2>2, <2>3, <2>4
<1>6. ASSUME NEW k \in Calls, MethodAnswers(k) PROVE [Streaming!Next]_(Streaming!vars)
  <2>1. /\ method[k] = "running" /\ method' = [method EXCEPT ![k] = "done"]
        /\ accepted' = accepted /\ unheard' \in {unheard, unheard \cup {k}}
    BY <1>6 DEF MethodAnswers
  <2>2. Streaming!Finish(k)
    BY <1>1, <1>2, <2>1 DEF Streaming!Finish
  <2> QED BY <2>2 DEF Streaming!Next
<1> QED BY <1>3, <1>4, <1>5, <1>6 DEF PumpRuns

LEMMA StreamingStep == IInv /\ [Next]_vars => [Streaming!Next]_(Streaming!vars)
<1> SUFFICES ASSUME IInv, [Next]_vars PROVE [Streaming!Next]_(Streaming!vars)
  OBVIOUS
<1>1. CASE FrameComes \/ Breaks \/ (\E n \in 1 .. Len(waiting) : Loses(n)) \/ UNCHANGED vars
  <2>1. call' = call /\ method' = method /\ accepted' = accepted /\ handled' = handled
        /\ unheard' = unheard
    BY <1>1 DEF FrameComes, Frame, Breaks, Loses, vars, clientVars, serverVars
  <2> QED BY <2>1 DEF Outcome, Streaming!vars
<1>2. CASE \E k \in Calls : \/ CallRegisters(k) \/ HandlerCalls(k) \/ CallRuns(k)
                            \/ CallTimesOut(k)
  BY <1>2, CallStreams
<1>3. CASE PumpRuns \/ \E k \in Calls : MethodNotifies(k) \/ MethodAnswers(k)
  BY <1>3, ServerStreams
<1>4. CASE ReadRuns
  BY <1>4, ReadStreams
<1>5. CASE \E m \in ServerCalls : ServerCall(m) \/ ServerCallReturns(m)
  <2>1. call' = call /\ method' = method /\ accepted' = accepted /\ handled' = handled
        /\ unheard' = unheard
    BY <1>5 DEF ServerCall, ServerCallReturns, clientVars
  <2> QED BY <2>1 DEF Outcome, Streaming!vars
<1> QED BY <1>1, <1>2, <1>3, <1>4, <1>5 DEF Next

(* From end to end a call is what StreamingCall promises: its method runs  *)
(* once, its notifications are handled once each, and nothing comes after  *)
(* the answer.                                                             *)
THEOREM ImplementsStreaming == Spec => StreamingSpec
<1>1. Init => Streaming!Init
  BY DEF Init, Streaming!Init, Outcome
<1> QED BY <1>1, StreamingStep, Invariance, PTL DEF Spec, StreamingSpec, Streaming!Spec
=============================================================================
