-------------------------- MODULE ConnectionProofs --------------------------
(***************************************************************************)
(* Proofs about one connection of the server: the gate of first-message    *)
(* authentication (AuthGate), for any number of frames and lines, the      *)
(* keepalive (Keepalive), for any periods and deadlines, and the session   *)
(* manager (Sessions), for any number of sessions and frames; and about    *)
(* the four components that MCServerSide puts side by side.                *)
(***************************************************************************)
EXTENDS MCServerSide, ServerLifecycleProofs, SequenceTheorems, FiniteSetTheorems, TLAPS

(***************************************************************************)
(* AuthGate.  agPending says whether the connection was accepted: that is  *)
(* what the history variables agPassed and agServed are compared with.  As *)
(* long as the connection is pending its timer may be in any state; when   *)
(* TimerStopped is through, the timer is stopped or was late.              *)
(***************************************************************************)
BeforeUpgrade == agPump \in {"handshake", "refused"}

AuthInv ==
    /\ AuthTypeOK
    /\ BeforeUpgrade => ~agPassed /\ agTimer = "none"
    /\ ~BeforeUpgrade => (agPassed <=> ~agPending)
    /\ agPump = "stops" => agPassed /\ agFrame # <<>>
    /\ agServed => agPassed
    /\ agTimedOut => agTimer = "done"
    /\ agPassed /\ agPump # "stops" => agTimer \in {"none", "stopped"} \/ agLate

LEMMA AuthInitInv == AuthInit => AuthInv
<1> SUFFICES ASSUME AuthInit PROVE AuthInv  OBVIOUS
<1>1. MaxFrames \in Nat /\ MaxLines \in Nat  BY AuthBounds
<1>2. <<>> \in Seq(Lines) /\ Len(<<>>) = 0  BY EmptySeq
<1>3. {agPending, agPassed, agLate, agTimedOut, agServed} \subseteq BOOLEAN
  BY Zenon DEF AuthInit
<1>4. AuthTypeOK  BY <1>1, <1>2, <1>3 DEF AuthInit, AuthTypeOK
<1> QED  BY <1>4 DEF AuthInit, AuthInv, BeforeUpgrade

(* Going through a frame line by line stays within the frame.              *)
LEMMA TailOfFrame ==
  ASSUME AuthTypeOK, agFrame # <<>>
  PROVE  Tail(agFrame) \in Seq(Lines) /\ Len(Tail(agFrame)) <= MaxLines
<1>1. Len(agFrame) \in Nat /\ MaxLines \in Nat
  BY AuthBounds, LenProperties DEF AuthTypeOK
<1>2. Tail(agFrame) \in Seq(Lines) /\ Len(Tail(agFrame)) = Len(agFrame) - 1
  BY HeadTailProperties DEF AuthTypeOK
<1> QED  BY <1>1, <1>2 DEF AuthTypeOK

LEMMA FramesAreSequences ==
  ASSUME NEW f \in Frames
  PROVE  f \in Seq(Lines) /\ Len(f) <= MaxLines
<1>1. PICK n \in 1 .. MaxLines : f \in [1 .. n -> Lines]  BY DEF Frames
<1>2. n \in Nat /\ n <= MaxLines  BY AuthBounds
<1> QED  BY <1>1, <1>2

LEMMA AuthStepInv == AuthInv /\ [AuthNext]_agVars => AuthInv'
<1> SUFFICES ASSUME AuthInv, [AuthNext]_agVars PROVE AuthInv'  OBVIOUS
<1> USE DEF AuthInv, BeforeUpgrade
<1>1. CASE HandshakeRefused  BY <1>1 DEF HandshakeRefused, AuthTypeOK
<1>2. CASE Upgraded
  <2>1. AuthTypeOK'
    <3>1. agPending' \in BOOLEAN /\ agPassed' \in BOOLEAN  BY <1>2, Zenon DEF Upgraded
    <3> QED  BY <1>2, <3>1 DEF Upgraded, AuthTypeOK
  <2> QED  BY <1>2, <2>1 DEF Upgraded, AuthTypeOK
<1>3. CASE Registered  BY <1>3 DEF Registered, AuthTypeOK
<1>4. CASE FrameArrives
  <2>1. agFrame' \in Seq(Lines) /\ Len(agFrame') <= MaxLines
    BY <1>4, FramesAreSequences DEF FrameArrives
  <2>2. agSent' \in 0 .. MaxFrames  BY <1>4, AuthBounds DEF FrameArrives, AuthTypeOK
  <2> QED  BY <1>4, <2>1, <2>2 DEF FrameArrives, AuthTypeOK
<1>5. CASE ReadEnds  BY <1>5 DEF ReadEnds, AuthTypeOK
<1>6. CASE FrameDone  BY <1>6 DEF FrameDone, AuthTypeOK
<1>7. CASE MessageAccepted  BY <1>7 DEF MessageAccepted, AuthTypeOK
<1>8. CASE TimerStopped
  <2>1. agFrame # <<>>  BY <1>8 DEF TimerStopped
  <2>2. agLate' \in BOOLEAN
    <3>1. agLate' = (agTimer \in {"fired", "done"})  BY <1>8 DEF TimerStopped
    <3> QED  BY <3>1
  <2> QED  BY <1>8, <2>1, <2>2, TailOfFrame DEF TimerStopped, AuthTypeOK
<1>9. CASE MessageRefused  BY <1>9, TailOfFrame DEF MessageRefused, AuthTypeOK
<1>10. CASE MessageDispatched  BY <1>10, TailOfFrame DEF MessageDispatched, AuthTypeOK
<1>11. CASE TimerFires  BY <1>11 DEF TimerFires, AuthTypeOK
<1>12. CASE TimerCloses
  <2>1. agTimedOut' \in BOOLEAN  BY <1>12, Zenon DEF TimerCloses
  <2> QED  BY <1>12, <2>1 DEF TimerCloses, AuthTypeOK
<1>13. CASE UNCHANGED agVars  BY <1>13 DEF agVars, AuthTypeOK
<1> QED
  BY <1>1, <1>2, <1>3, <1>4, <1>5, <1>6, <1>7, <1>8, <1>9, <1>10, <1>11, <1>12, <1>13
     DEF AuthNext

(* A connection is accepted exactly when it is not pending any more, and   *)
(* its timer is stopped unless it had run out before.                      *)
THEOREM AuthInductive == AuthSpec => []AuthInv
<1> QED  BY AuthInitInv, AuthStepInv, PTL DEF AuthSpec

(* Every variable of the gate keeps its type, however many frames come.    *)
THEOREM AuthTypeCorrect == AuthSpec => []AuthTypeOK
<1>1. AuthInv => AuthTypeOK  BY DEF AuthInv
<1> QED  BY <1>1, AuthInductive, PTL

(* Nothing is dispatched for a connection that was not accepted, and the   *)
(* timer spares one that was accepted before it ran out.                   *)
THEOREM GateIsTight == AuthSpec => []GateHolds
<1>1. AuthInv => GateHolds  BY DEF AuthInv, GateHolds
<1> QED  BY <1>1, AuthInductive, PTL

-----------------------------------------------------------------------------
(***************************************************************************)
(* Keepalive.  While no pong is due, the read deadline outlasts the next   *)
(* ping by Latency at least; while one is due, it outlasts the pong, and   *)
(* the next ping is still away.  That is enough if a ping period and a     *)
(* latency fit into the read timeout.                                      *)
(***************************************************************************)
IdleMargin ==
    PingPeriod + Latency <= ReadTimeout /\ kaPeer /\ ~kaWriteErr =>
      /\ kaConn # "closed"
      /\ kaPong = 0 => kaRead >= kaPing + Latency
      /\ kaPong > 0 => kaRead >= kaPong /\ kaPing = PingPeriod - (Latency - kaPong)

\* A pong that is still on its way when the peer is gone comes within Latency.
SilenceMargin ==
    /\ kaPeer => kaSilent = 0
    /\ kaConn = "new" => kaSilent = 0
    /\ kaPong > 0 => kaSilent + kaPong <= Latency
    /\ kaConn # "closed" => kaRead + kaSilent <= ReadTimeout + Latency

KeepaliveInv == KeepaliveTypeOK /\ IdleMargin /\ SilenceMargin

LEMMA TimesAreNat ==
  /\ PingPeriod \in Nat /\ PingPeriod > 0
  /\ ReadTimeout \in Nat /\ ReadTimeout > 0
  /\ WriteWait \in Nat /\ Latency \in Nat /\ Latency > 0
  /\ Latency < PingPeriod /\ GoClient \in BOOLEAN
<1>1. {PingPeriod, ReadTimeout, WriteWait, Latency} \subseteq Nat \ {0}
  BY KeepaliveTimes
<1>2. Latency < PingPeriod /\ GoClient \in BOOLEAN  BY KeepaliveTimes
<1>3. \A n \in {PingPeriod, ReadTimeout, WriteWait, Latency} : n \in Nat /\ n > 0
  BY <1>1
<1> QED  BY <1>2, <1>3

LEMMA KeepaliveInitInv == KeepaliveInit => KeepaliveInv
<1> SUFFICES ASSUME KeepaliveInit PROVE KeepaliveInv  OBVIOUS
<1> USE TimesAreNat
<1>1. {kaPeer, kaWriteErr} \subseteq BOOLEAN  BY Zenon DEF KeepaliveInit
<1>2. kaDeadline \in [set : BOOLEAN, left : 0 .. WriteWait]  BY DEF KeepaliveInit, None
<1>3. KeepaliveTypeOK  BY <1>1, <1>2 DEF KeepaliveInit, KeepaliveTypeOK
<1> QED  BY <1>3 DEF KeepaliveInit, KeepaliveInv, IdleMargin, SilenceMargin

LEMMA KeepaliveStepInv == KeepaliveInv /\ [KeepaliveNext]_kaVars => KeepaliveInv'
<1> SUFFICES ASSUME KeepaliveInv, [KeepaliveNext]_kaVars PROVE KeepaliveInv'  OBVIOUS
<1> USE TimesAreNat DEF KeepaliveInv, KeepaliveTypeOK, IdleMargin, SilenceMargin
<1>1. CASE PumpsStart  BY <1>1 DEF PumpsStart
<1>2. CASE ServerPings  BY <1>2 DEF ServerPings
<1>3. CASE PongArrives  BY <1>3 DEF PongArrives
<1>4. CASE ReadTimesOut  BY <1>4 DEF ReadTimesOut
<1>5. CASE PeerLost  BY <1>5 DEF PeerLost
<1>6. CASE ClientPings  BY <1>6 DEF ClientPings
<1>7. CASE ClientCalls
  <2>1. kaWriteErr' \in BOOLEAN /\ (kaWriteErr => kaWriteErr')
    BY <1>7, Zenon DEF ClientCalls
  <2> QED  BY <1>7, <2>1 DEF ClientCalls
<1>8. CASE KeepaliveClock
  <2>1. KeepaliveTypeOK'
    <3>1. kaDeadline' \in [set : BOOLEAN, left : 0 .. WriteWait]
      BY <1>8 DEF KeepaliveClock, Down
    <3> QED  BY <1>8, <3>1 DEF KeepaliveClock, Down
  <2>2. IdleMargin'  BY <1>8 DEF KeepaliveClock, Down
  <2>3. SilenceMargin'  BY <1>8 DEF KeepaliveClock, Down
  <2> QED  BY <2>1, <2>2, <2>3
<1>9. CASE UNCHANGED kaVars  BY <1>9 DEF kaVars
<1> QED
  BY <1>1, <1>2, <1>3, <1>4, <1>5, <1>6, <1>7, <1>8, <1>9 DEF KeepaliveNext

(* While the peer answers the read deadline is ahead of its next pong, and *)
(* once it is silent every unit of silence comes off the deadline.         *)
THEOREM KeepaliveInductive == KeepaliveSpec => []KeepaliveInv
<1> QED  BY KeepaliveInitInv, KeepaliveStepInv, PTL DEF KeepaliveSpec

(* The timers stay within their periods, the silence within its bound.     *)
THEOREM KeepaliveTypeCorrect == KeepaliveSpec => []KeepaliveTypeOK
<1>1. KeepaliveInv => KeepaliveTypeOK  BY DEF KeepaliveInv
<1> QED  BY <1>1, KeepaliveInductive, PTL

(* For any periods: an idle peer stays connected if a ping period and a    *)
(* latency fit into the read timeout, and a peer that is gone is noticed   *)
(* within a read timeout and a latency in any case.                        *)
THEOREM SilenceAlone == KeepaliveSpec => []OnlySilenceEnds
<1>1. KeepaliveInv => OnlySilenceEnds
  BY DEF KeepaliveInv, IdleMargin, SilenceMargin, OnlySilenceEnds, IdlePeerStays,
         GonePeerNoticed
<1> QED  BY <1>1, KeepaliveInductive, PTL

-----------------------------------------------------------------------------
(***************************************************************************)
(* Sessions.  What was given to a session since it was made is what it     *)
(* holds; and what the cleanupLoop has yet to remove is past its timeout,  *)
(* unless it was made again.                                               *)
(***************************************************************************)
GivenAreFrames == \A i \in Listed : smGiven[i] = smSessions[i].frames

DueAreOld == \A i \in Listed \cap smDue["loop"] : smSessions[i].old \/ i \in smAgain

SessionInv ==
    /\ SessionTypeOK /\ IsFiniteSet(Listed)
    /\ GivenAreFrames /\ DueAreOld /\ AssembledComplete /\ OnlyOldAreCleaned

SessionRecord == [client : SClients, frames : SUBSET Indexes, total : Totals, old : BOOLEAN]

LEMMA SessionInitInv == SessionInit => SessionInv
<1> SUFFICES ASSUME SessionInit PROVE SessionInv  OBVIOUS
<1>1. Listed = {}  BY DEF SessionInit, Listed
<1>2. IsFiniteSet(Listed) /\ Cardinality(Listed) <= MaxSessions
  BY <1>1, FS_EmptySet, SessionBounds
<1>3. smLast.complete = FALSE  BY DEF SessionInit
<1>4. smLast.complete \in BOOLEAN  BY <1>3, Zenon
<1>5. SessionTypeOK  BY <1>1, <1>2, <1>4 DEF SessionInit, SessionTypeOK
<1> QED
  BY <1>1, <1>2, <1>3, <1>5
     DEF SessionInit, SessionInv, GivenAreFrames, DueAreOld, AssembledComplete,
         OnlyOldAreCleaned

(* Taking sessions out disturbs none of the others.                        *)
LEMMA Removed ==
  ASSUME SessionInv, NEW i, smSessions' = Restrict(smSessions, Listed \ {i})
  PROVE  /\ Listed' = Listed \ {i} /\ \A j \in Listed' : smSessions'[j] = smSessions[j]
         /\ IsFiniteSet(Listed') /\ Cardinality(Listed') <= MaxSessions
<1>1. Listed' = Listed \ {i} /\ \A j \in Listed' : smSessions'[j] = smSessions[j]
  BY DEF Listed, Restrict
<1>2. /\ IsFiniteSet(Listed') /\ Cardinality(Listed') <= Cardinality(Listed)
      /\ Cardinality(Listed') \in Nat /\ Cardinality(Listed) \in Nat
  BY <1>1, FS_Subset, FS_CardinalityType DEF SessionInv
<1>3. Cardinality(Listed) <= MaxSessions /\ MaxSessions \in Nat
  BY SessionBounds DEF SessionInv, SessionTypeOK
<1> QED  BY <1>1, <1>2, <1>3

(* A message that is complete is what was given.                           *)
LEMMA CompleteIsWhole ==
  ASSUME NEW s \in SessionRecord, Complete(s)
  PROVE  /\ Assembled(s) # <<>> /\ IsInjective(Assembled(s))
         /\ Range(Assembled(s)) = s.frames
         /\ \A m, n \in DOMAIN Assembled(s) : m < n => Assembled(s)[m] < Assembled(s)[n]
<1>1. /\ MaxIndex \in Nat /\ s.total \in Nat /\ s.total > 0 /\ s.frames \subseteq -1 .. MaxIndex
  BY SessionBounds DEF SessionRecord, Complete, Totals, Indexes
<1>2. /\ IsFiniteSet(s.frames) /\ IsFiniteSet(0 .. s.total - 1)
      /\ Cardinality(0 .. s.total - 1) = s.total
  <2>1. IsFiniteSet(-1 .. MaxIndex)  BY <1>1, FS_Interval
  <2>2. IsFiniteSet(s.frames)  BY <1>1, <2>1, FS_Subset
  <2>3. 0 \in Int /\ s.total - 1 \in Int /\ ~(0 > s.total - 1) /\ s.total - 1 - 0 + 1 = s.total
    BY <1>1
  <2> QED  BY <2>2, <2>3, FS_Interval
<1>3. 0 .. s.total - 1 = s.frames
  BY <1>2, FS_Subset DEF Complete
<1>4. Range(Assembled(s)) = 0 .. s.total - 1
  <2>1. \A n \in 1 .. s.total : n - 1 \in 0 .. s.total - 1  BY <1>1
  <2>2. \A m \in 0 .. s.total - 1 : m + 1 \in 1 .. s.total /\ (m + 1) - 1 = m  BY <1>1
  <2>3. \A m \in 0 .. s.total - 1 : \E n \in 1 .. s.total : n - 1 = m  BY <2>2
  <2> QED  BY <2>1, <2>3 DEF Range, Assembled
<1>5. Assembled(s) # <<>>
  <2>1. 1 \in DOMAIN Assembled(s)  BY <1>1 DEF Assembled
  <2> QED  BY <2>1
<1>6. IsInjective(Assembled(s))  BY <1>1 DEF IsInjective, Assembled
<1> QED  BY <1>1, <1>3, <1>4, <1>5, <1>6 DEF Assembled

LEMMA SessionStepInv == SessionInv /\ [SessionNext]_smVars => SessionInv'
<1> SUFFICES ASSUME SessionInv, [SessionNext]_smVars PROVE SessionInv'  OBVIOUS
<1> USE DEF SessionInv
<1>1. CASE \E i \in Ids, c \in SClients : Create(i, c)
  <2>1. PICK i \in Ids, c \in SClients : Create(i, c)  BY <1>1
  <2>2. /\ Listed' = Listed \cup {i} /\ i \notin Listed
        /\ smSessions'[i] = NewSession(c) /\ \A j \in Listed : smSessions'[j] = smSessions[j]
        /\ smGiven' = [smGiven EXCEPT ![i] = {}]
        /\ smAgain' = IF i \in smDue["loop"] THEN smAgain \cup {i} ELSE smAgain
        /\ UNCHANGED <<smLoop, smDue, smLast, smLost>>
    BY <2>1 DEF Create, Listed
  <2>3. IsFiniteSet(Listed') /\ Cardinality(Listed') <= MaxSessions
    <3>1. Cardinality(Listed) < MaxSessions /\ Cardinality(Listed) \in Nat
      BY <2>1, FS_CardinalityType DEF Create
    <3>2. /\ IsFiniteSet(Listed \cup {i})
          /\ Cardinality(Listed \cup {i}) = Cardinality(Listed) + 1
      BY <2>2, FS_AddElement
    <3>3. MaxSessions \in Nat  BY SessionBounds
    <3> QED  BY <2>2, <3>1, <3>2, <3>3
  <2>4. NewSession(c) \in SessionRecord /\ NewSession(c).frames = {}
    BY SessionBounds DEF NewSession, SessionRecord, Totals
  <2>5. SessionTypeOK'
    <3>1. \A j \in Listed' : smSessions'[j] \in SessionRecord
      BY <2>2, <2>4 DEF SessionTypeOK, SessionRecord
    <3>2. smLast'.complete \in BOOLEAN  BY <2>2 DEF SessionTypeOK
    <3> QED  BY <2>2, <2>3, <3>1, <3>2 DEF SessionTypeOK, SessionRecord
  <2>6. GivenAreFrames'  BY <2>2, <2>4 DEF GivenAreFrames, SessionTypeOK
  <2>7. DueAreOld' /\ OnlyOldAreCleaned'  BY <2>2 DEF DueAreOld, OnlyOldAreCleaned
  <2> QED  BY <2>2, <2>3, <2>5, <2>6, <2>7 DEF AssembledComplete
<1>2. CASE \E i \in Ids, n \in Indexes, t \in Totals : AddFrame(i, n, t)
  <2>1. PICK i \in Ids, n \in Indexes, t \in Totals : AddFrame(i, n, t)  BY <1>2
  <2>2. /\ i \in Listed /\ smGiven' = [smGiven EXCEPT ![i] = @ \cup {n}]
        /\ smSessions' = [smSessions EXCEPT ![i].frames = @ \cup {n}, ![i].total = t]
        /\ UNCHANGED <<smLoop, smDue, smLast, smAgain, smLost>>
    BY <2>1 DEF AddFrame
  <2>3. \A j \in Listed : smSessions[j] \in SessionRecord
    BY DEF SessionTypeOK, SessionRecord
  <2>4. /\ Listed' = Listed /\ \A j \in Listed \ {i} : smSessions'[j] = smSessions[j]
        /\ smSessions'[i] \in SessionRecord /\ smSessions'[i].old = smSessions[i].old
        /\ smSessions'[i].frames = smSessions[i].frames \cup {n}
    BY <2>2, <2>3 DEF Listed, SessionRecord
  <2>5. SessionTypeOK'
    <3>1. smLast'.complete \in BOOLEAN  BY <2>2 DEF SessionTypeOK
    <3> QED  BY <2>2, <2>3, <2>4, <3>1 DEF SessionTypeOK, SessionRecord
  <2>6. GivenAreFrames'  BY <2>2, <2>4 DEF GivenAreFrames, SessionTypeOK
  <2>7. DueAreOld'  BY <2>2, <2>4 DEF DueAreOld
  <2> QED  BY <2>2, <2>4, <2>5, <2>6, <2>7 DEF AssembledComplete, OnlyOldAreCleaned
<1>3. CASE \E i \in Ids : AssembleAndRemove(i)
  <2>1. PICK i \in Ids : AssembleAndRemove(i)  BY <1>3
  <2> DEFINE s == smSessions[i]
  <2>2. /\ i \in Listed /\ smSessions' = Restrict(smSessions, Listed \ {i})
        /\ smLast' = IF Complete(s)
                       THEN [complete |-> TRUE, parts |-> Assembled(s), given |-> smGiven[i]]
                       ELSE [complete |-> FALSE, parts |-> <<>>, given |-> {}]
        /\ UNCHANGED <<smLoop, smDue, smGiven, smAgain, smLost>>
    BY <2>1 DEF AssembleAndRemove
  <2>3. /\ Listed' = Listed \ {i} /\ \A j \in Listed' : smSessions'[j] = smSessions[j]
        /\ IsFiniteSet(Listed') /\ Cardinality(Listed') <= MaxSessions
    BY <2>2, Removed
  <2>4. s \in SessionRecord /\ smGiven[i] = s.frames
    BY <2>2 DEF SessionTypeOK, SessionRecord, GivenAreFrames
  <2>5. AssembledComplete' /\ smLast'.complete \in BOOLEAN
    <3>1. CASE Complete(s)
      <4>1. /\ smLast'.complete = TRUE /\ smLast'.parts = Assembled(s)
            /\ smLast'.given = smGiven[i]
        BY <2>2, <3>1
      <4>2. smLast'.complete \in BOOLEAN  BY <4>1, Zenon
      <4> QED  BY <2>4, <3>1, <4>1, <4>2, CompleteIsWhole DEF AssembledComplete
    <3>2. CASE ~Complete(s)
      <4>1. smLast'.complete = FALSE  BY <2>2, <3>2
      <4>2. smLast'.complete \in BOOLEAN  BY <4>1, Zenon
      <4> QED  BY <4>1, <4>2 DEF AssembledComplete
    <3> QED  BY <3>1, <3>2
  <2>6. SessionTypeOK'  BY <2>2, <2>3, <2>5 DEF SessionTypeOK
  <2>7. GivenAreFrames' /\ DueAreOld'  BY <2>2, <2>3 DEF GivenAreFrames, DueAreOld
  <2> QED  BY <2>2, <2>3, <2>5, <2>6, <2>7 DEF OnlyOldAreCleaned
<1>4. CASE \E i \in Ids : Expires(i)
  <2>1. PICK i \in Ids : Expires(i)  BY <1>4
  <2>2. /\ i \in Listed /\ smSessions' = [smSessions EXCEPT ![i].old = TRUE]
        /\ UNCHANGED <<smLoop, smDue, smLast, smGiven, smAgain, smLost>>
    BY <2>1 DEF Expires
  <2>3. \A j \in Listed : smSessions[j] \in SessionRecord
    BY DEF SessionTypeOK, SessionRecord
  <2>4. /\ Listed' = Listed /\ \A j \in Listed \ {i} : smSessions'[j] = smSessions[j]
        /\ smSessions'[i] \in SessionRecord
        /\ smSessions'[i].frames = smSessions[i].frames
    BY <2>2, <2>3 DEF Listed, SessionRecord
  <2>5. smSessions'[i].old
    <3>1. smSessions'[i].old = TRUE  BY <2>2, <2>3 DEF Listed, SessionRecord
    <3> QED  BY <3>1
  <2>6. SessionTypeOK'
    <3>1. smLast'.complete \in BOOLEAN  BY <2>2 DEF SessionTypeOK
    <3> QED  BY <2>2, <2>3, <2>4, <3>1 DEF SessionTypeOK, SessionRecord
  <2>7. GivenAreFrames'  BY <2>2, <2>4 DEF GivenAreFrames, SessionTypeOK
  <2>8. DueAreOld'  BY <2>2, <2>4, <2>5 DEF DueAreOld
  <2> QED  BY <2>2, <2>4, <2>6, <2>7, <2>8 DEF AssembledComplete, OnlyOldAreCleaned
<1>5. CASE Close \/ LoopReturns \/ UNCHANGED smVars
  <2>1. /\ smLoop' \in {"closed", "ended", smLoop}
        /\ UNCHANGED <<smSessions, smDue, smLast, smGiven, smAgain, smLost>>
    BY <1>5 DEF Close, LoopReturns, smVars
  <2>2. Listed' = Listed  BY <2>1 DEF Listed
  <2>3. smLast'.complete \in BOOLEAN  BY <2>1 DEF SessionTypeOK
  <2> QED
    BY <2>1, <2>2, <2>3
       DEF SessionTypeOK, GivenAreFrames, DueAreOld, AssembledComplete, OnlyOldAreCleaned
<1>6. CASE CleanupTicks \/ \E c \in SClients : CleanupClient(c)
  <2>1. PICK k \in Cleaners, due \in SUBSET Listed :
          /\ smDue[k] = {} /\ smDue' = [smDue EXCEPT ![k] = due]
          /\ k = "loop" => /\ due = {i \in Listed : smSessions[i].old}
                           /\ smAgain' = {} /\ smLost' = {}
          /\ k # "loop" => UNCHANGED <<smAgain, smLost>>
          /\ UNCHANGED <<smSessions, smLoop, smLast, smGiven>>
    <3>1. CASE CleanupTicks
      <4> DEFINE due == {i \in Listed : smSessions[i].old}
      <4>1. Collect("loop", due)  BY <3>1 DEF CleanupTicks
      <4>2. due \in SUBSET Listed /\ "loop" \in Cleaners  BY DEF Cleaners
      <4> QED  BY <4>1, <4>2 DEF Collect
    <3>2. CASE \E c \in SClients : CleanupClient(c)
      <4>1. PICK c \in SClients : Collect("client", {i \in Listed : smSessions[i].client = c})
        BY <3>2 DEF CleanupClient
      <4> QED  BY <4>1 DEF Collect, Cleaners
    <3> QED  BY <1>6, <3>1, <3>2
  <2>2. Listed' = Listed  BY <2>1 DEF Listed
  <2>3. smLast'.complete \in BOOLEAN  BY <2>1 DEF SessionTypeOK
  <2>4. SessionTypeOK'  BY <2>1, <2>2, <2>3 DEF SessionTypeOK
  <2>5. GivenAreFrames' /\ AssembledComplete' /\ OnlyOldAreCleaned'
    BY <2>1, <2>2 DEF GivenAreFrames, AssembledComplete, OnlyOldAreCleaned
  <2>6. DueAreOld'
    BY <2>1, <2>2 DEF DueAreOld, SessionTypeOK, Cleaners
  <2> QED  BY <2>2, <2>4, <2>5, <2>6
<1>7. CASE \E k \in Cleaners : CleanupRemoves(k)
  <2>1. PICK k \in Cleaners, i \in Ids :
          /\ i \in smDue[k] /\ smDue' = [smDue EXCEPT ![k] = @ \ {i}]
          /\ smLost' = IF k = "loop" /\ i \in Listed /\ ~smSessions[i].old
                         THEN smLost \cup {i} ELSE smLost
          /\ smSessions' = Restrict(smSessions, Listed \ {i})
          /\ UNCHANGED <<smLoop, smLast, smGiven, smAgain>>
    BY <1>7 DEF CleanupRemoves, SessionTypeOK
  <2>2. /\ Listed' = Listed \ {i} /\ \A j \in Listed' : smSessions'[j] = smSessions[j]
        /\ IsFiniteSet(Listed') /\ Cardinality(Listed') <= MaxSessions
    BY <2>1, Removed
  <2>3. smDue' \in [Cleaners -> SUBSET Ids]
    BY <2>1 DEF SessionTypeOK
  <2>4. smLast'.complete \in BOOLEAN  BY <2>1 DEF SessionTypeOK
  <2>5. SessionTypeOK'  BY <2>1, <2>2, <2>3, <2>4 DEF SessionTypeOK
  <2>6. GivenAreFrames' /\ AssembledComplete'
    BY <2>1, <2>2 DEF GivenAreFrames, AssembledComplete
  <2>7. DueAreOld'
    <3>1. smDue'["loop"] \subseteq smDue["loop"]
      BY <2>1 DEF SessionTypeOK, Cleaners
    <3> QED  BY <2>1, <2>2, <3>1 DEF DueAreOld
  <2>8. OnlyOldAreCleaned'  BY <2>1 DEF OnlyOldAreCleaned, DueAreOld
  <2> QED  BY <2>2, <2>5, <2>6, <2>7, <2>8
<1> QED  BY <1>1, <1>2, <1>3, <1>4, <1>5, <1>6, <1>7 DEF SessionNext

(* The frames of a session are those that were given under its id, and the *)
(* loop has collected only sessions that were old.                         *)
THEOREM SessionInductive == SessionSpec => []SessionInv
<1> QED  BY SessionInitInv, SessionStepInv, PTL DEF SessionSpec

(* For any number of sessions, frames and totals: a message that is called *)
(* complete has every part that was given once and in order, and the loop  *)
(* takes no session before its time whose id was not used again.           *)
THEOREM SessionsAreSound == SessionSpec => []SessionsSound
<1>1. SessionInv => SessionsSound  BY DEF SessionInv, SessionsSound
<1> QED  BY <1>1, SessionInductive, PTL

-----------------------------------------------------------------------------
(***************************************************************************)
(* The four components side by side, as MCServerSide runs them.            *)
(***************************************************************************)
THEOREM SideBySide == MCSpec => [](ServerInv /\ AuthInv /\ KeepaliveInv /\ SessionInv)
<1> DEFINE Inv == ServerInv /\ AuthInv /\ KeepaliveInv /\ SessionInv
           all == <<slVars, agVars, kaVars, smVars>>
<1>1. MCInit => Inv
  BY ServerInitInv, AuthInitInv, KeepaliveInitInv, SessionInitInv DEF MCInit
<1>2. Inv /\ [MCNext]_all => Inv'
  <2>1. [MCNext]_all => /\ [ServerNext]_slVars /\ [AuthNext]_agVars
                        /\ [KeepaliveNext]_kaVars /\ [SessionNext]_smVars
    BY DEF MCNext
  <2> QED  BY <2>1, ServerStepInv, AuthStepInv, KeepaliveStepInv, SessionStepInv
<1> QED  BY <1>1, <1>2, PTL DEF MCSpec

(* Every variable of the four components keeps its type, and the table of  *)
(* sessions its limit, for any bounds.                                     *)
THEOREM ServerSideTypeCorrect == MCSpec => []ServerSideTypeOK
<1>1. ServerInv /\ AuthInv /\ KeepaliveInv /\ SessionInv => ServerSideTypeOK
  BY DEF ServerInv, AuthInv, KeepaliveInv, SessionInv, ServerSideTypeOK
<1> QED  BY <1>1, SideBySide, PTL
=============================================================================
