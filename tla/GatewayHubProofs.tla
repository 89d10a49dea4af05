-------------------------- MODULE GatewayHubProofs --------------------------
(***************************************************************************)
(* Safety of the connection table for any set of connections and any set   *)
(* of senders.  None of the properties is inductive by itself: a broadcast *)
(* is safe because the clients it still has to send to are in the table,   *)
(* those have open send channels, and a connection the hub is about to     *)
(* insert cannot have been closed before.  IInv says this.                 *)
(***************************************************************************)
EXTENDS GatewayHub, TLAPS

(* The connection is on its way into the table: not registered yet, or in  *)
(* the hub's hands.                                                        *)
Entering(c) == \/ ws[c] \in {"new", "register"}
               \/ hubPc \in {"insert", "insertWait"} /\ hubConn = c

(* What the hub is about to insert has been received, and no pump runs     *)
(* before the handler has started it.                                      *)
HubHasConn ==
  hubPc \in {"insert", "insertWait"} =>
    hubConn \in Conns /\ ws[hubConn] \in {"spawn", "served"}

UnservedHasNoPump == \A c \in Conns : ws[c] # "served" => rp[c] = "none"

EnteringIsFresh ==
  \A c \in Conns : Entering(c) => /\ c \notin clients
                                  /\ ~sendClosed[c]
                                  /\ rp[c] # "closeSend"

ClosingIsUnlisted ==
  \A c \in Conns : rp[c] = "closeSend" \/ sendClosed[c] => c \notin clients

BroadcastSeesTable == \A s \in Senders : sndPc[s] = "bcast" => sndTo[s] \subseteq clients

RunningUntilShutdown == running <=> shutPc \in {"idle", "beginWait"}

ServedKeepSessions ==
  \A c \in Conns :
    /\ ws[c] # "new" /\ (Entering(c) \/ c \in clients)
    /\ rp[c] \in {"none", "reading", "sessions"}
    => sess[c] = "open"

RemovingIsAnnounced ==
  \A c \in Conns : rp[c] \in {"remove", "removeWait"} => discCb[c]

IInv ==
  /\ TypeOK
  /\ HubHasConn
  /\ UnservedHasNoPump
  /\ EnteringIsFresh
  /\ ClosingIsUnlisted
  /\ BroadcastSeesTable
  /\ RunningUntilShutdown
  /\ ServedKeepSessions
  /\ RemovingIsAnnounced
  /\ DrainIsFinal
  /\ BroadcastNeverPanics

(* The sets the program counters range over, the two lock guards and the   *)
(* tuples of the UNCHANGED clauses are visible in every step below.        *)
USE DEF HubPc, WsPc, RpPc, WpPc, ConnSt, ShutPc, SndPc, MayWriteLock, MayReadLock,
        hubVars, pumpVars, connVars, sndVars, srvVars

-----------------------------------------------------------------------------
(* The initial states satisfy the invariant: nothing is listed, closing or *)
(* being sent to.                                                          *)
LEMMA InitIInv == Init => IInv
<1> SUFFICES ASSUME Init PROVE IInv
  OBVIOUS
<1> USE DEF Init
<1>1. TypeOK
  BY DEF TypeOK
<1>2. HubHasConn /\ UnservedHasNoPump /\ EnteringIsFresh /\ ClosingIsUnlisted
  BY DEF HubHasConn, UnservedHasNoPump, EnteringIsFresh, ClosingIsUnlisted
<1>3. BroadcastSeesTable /\ RunningUntilShutdown /\ RemovingIsAnnounced
  BY DEF BroadcastSeesTable, RunningUntilShutdown, RemovingIsAnnounced
<1>4. ServedKeepSessions
  BY DEF ServedKeepSessions
<1>5. DrainIsFinal /\ BroadcastNeverPanics
  BY DEF DrainIsFinal, BroadcastNeverPanics
<1> QED BY <1>1, <1>2, <1>3, <1>4, <1>5 DEF IInv

-----------------------------------------------------------------------------
(* The one step that lists a client: only a running hub takes it, and what *)
(* it inserts is fresh, so the entry is neither closed nor closing.        *)
LEMMA HubInsertIInv == IInv /\ HubInsert => IInv'
<1> SUFFICES ASSUME IInv, HubInsert PROVE IInv'
  OBVIOUS
<1> USE DEF IInv, HubInsert
<1>1. /\ hubConn \in Conns /\ ws[hubConn] \notin {"new", "register"}
      /\ Entering(hubConn)
  BY DEF HubHasConn, Entering
<1>2. hubConn \notin clients /\ ~sendClosed[hubConn] /\ rp[hubConn] # "closeSend"
  BY <1>1 DEF EnteringIsFresh
<1>3. clients' = clients \/ (running /\ clients' = clients \cup {hubConn})
  OBVIOUS
<1>4. TypeOK' /\ HubHasConn' /\ UnservedHasNoPump'
  BY <1>1 DEF TypeOK, HubHasConn, UnservedHasNoPump
<1>5. EnteringIsFresh'
  BY <1>1, <1>3 DEF EnteringIsFresh, Entering
<1>6. ClosingIsUnlisted'
  BY <1>1, <1>2, <1>3 DEF ClosingIsUnlisted
<1>7. BroadcastSeesTable' /\ RunningUntilShutdown' /\ RemovingIsAnnounced'
  BY DEF BroadcastSeesTable, RunningUntilShutdown, RemovingIsAnnounced
<1>8. ServedKeepSessions'
  BY <1>1, <1>3 DEF ServedKeepSessions, Entering
<1>9. DrainIsFinal' /\ BroadcastNeverPanics'
  BY <1>3 DEF DrainIsFinal, RunningUntilShutdown, BroadcastNeverPanics
<1> QED BY <1>4, <1>5, <1>6, <1>7, <1>8, <1>9 DEF IInv

(* The step that takes a client out and commits its readPump to closing the*)
(* send channel: no broadcast is under way, so none loses its client.      *)
LEMMA RemoveClientIInv == ASSUME NEW c \in Conns, IInv, RemoveClient(c) PROVE IInv'
<1> USE DEF IInv, RemoveClient
<1>1. ~Entering(c) \/ c \notin clients
  BY DEF EnteringIsFresh
<1>2. TypeOK' /\ HubHasConn'
  BY DEF TypeOK, HubHasConn
<1>3. UnservedHasNoPump'
  BY DEF UnservedHasNoPump, TypeOK
<1>4. EnteringIsFresh' /\ ClosingIsUnlisted'
  BY DEF TypeOK, EnteringIsFresh, Entering, ClosingIsUnlisted
<1>5. BroadcastSeesTable' /\ RunningUntilShutdown' /\ RemovingIsAnnounced'
  BY DEF TypeOK, BroadcastSeesTable, RunningUntilShutdown, RemovingIsAnnounced
<1>6. ServedKeepSessions'
  BY DEF TypeOK, ServedKeepSessions, Entering
<1>7. DrainIsFinal' /\ BroadcastNeverPanics'
  BY DEF DrainIsFinal, BroadcastNeverPanics
<1> QED BY <1>2, <1>3, <1>4, <1>5, <1>6, <1>7 DEF IInv

(* A send of a broadcast meets an open channel, because the client is still*)
(* listed while the read lock is held.                                     *)
LEMMA BroadcastSendIInv ==
  ASSUME NEW s \in Senders, NEW c \in Conns, IInv, BroadcastSend(s, c) PROVE IInv'
<1> USE DEF IInv, BroadcastSend
<1>1. c \in clients
  BY DEF BroadcastSeesTable
<1>2. ~sendClosed[c]
  BY <1>1 DEF ClosingIsUnlisted
<1>3. TypeOK'
  BY <1>2 DEF TypeOK
<1>4. BroadcastSeesTable'
  BY DEF TypeOK, BroadcastSeesTable
<1>5. BroadcastNeverPanics'
  BY <1>2 DEF BroadcastNeverPanics
<1>6. /\ HubHasConn' /\ UnservedHasNoPump' /\ EnteringIsFresh' /\ ClosingIsUnlisted'
      /\ RunningUntilShutdown' /\ ServedKeepSessions' /\ RemovingIsAnnounced'
      /\ DrainIsFinal'
  BY DEF HubHasConn, UnservedHasNoPump, EnteringIsFresh, Entering, ClosingIsUnlisted,
         RunningUntilShutdown, ServedKeepSessions, RemovingIsAnnounced, DrainIsFinal
<1> QED BY <1>3, <1>4, <1>5, <1>6 DEF IInv

-----------------------------------------------------------------------------
(* The remaining steps move one program counter and what belongs to it, and*)
(* each is one leaf.  First the hub.                                       *)
LEMMA HubStepIInv == IInv /\ HubStep => IInv'
<1> SUFFICES ASSUME IInv, HubStep PROVE IInv'
  OBVIOUS
<1> USE DEF IInv, TypeOK, HubHasConn, UnservedHasNoPump, EnteringIsFresh, Entering,
            ClosingIsUnlisted, BroadcastSeesTable, RunningUntilShutdown,
            ServedKeepSessions, RemovingIsAnnounced, DrainIsFinal,
            BroadcastNeverPanics
<1>1. CASE HubRangeEnds
  BY <1>1 DEF HubRangeEnds
<1>2. CASE HubWaits
  BY <1>2 DEF HubWaits
<1>3. CASE HubInsert
  BY <1>3, HubInsertIInv
<1>4. CASE HubConnectHandler
  BY <1>4 DEF HubConnectHandler
<1>5. ASSUME NEW c \in Conns, HubReceive(c) PROVE IInv'
  BY <1>5 DEF HubReceive
<1> QED BY <1>1, <1>2, <1>3, <1>4, <1>5 DEF HubStep

(* The handler, the pumps and the peer of one connection.                  *)
LEMMA ConnStepIInv == ASSUME NEW c \in Conns, IInv, ConnStep(c) PROVE IInv'
<1> USE DEF IInv, TypeOK, HubHasConn, UnservedHasNoPump, EnteringIsFresh, Entering,
            ClosingIsUnlisted, BroadcastSeesTable, RunningUntilShutdown,
            ServedKeepSessions, RemovingIsAnnounced, DrainIsFinal,
            BroadcastNeverPanics
<1>1. CASE Accept(c)
  BY <1>1 DEF Accept
<1>2. CASE RegisterPanics(c)
  BY <1>2 DEF RegisterPanics
<1>3. CASE SpawnPumps(c)
  BY <1>3 DEF SpawnPumps
<1>4. CASE PeerGone(c)
  BY <1>4 DEF PeerGone
<1>5. CASE ReadFails(c)
  BY <1>5 DEF ReadFails
<1>6. CASE CleanupSessions(c)
  BY <1>6 DEF CleanupSessions
<1>7. CASE DisconnectHandler(c)
  BY <1>7 DEF DisconnectHandler
<1>8. CASE RemoveWaits(c)
  BY <1>8 DEF RemoveWaits
<1>9. CASE RemoveClient(c)
  BY <1>9, RemoveClientIInv
<1>10. CASE CloseSend(c)
  BY <1>10 DEF CloseSend
<1>11. CASE CloseConn(c)
  BY <1>11 DEF CloseConn
<1>12. CASE WritePumpReturns(c)
  BY <1>12 DEF WritePumpReturns, WritePumpDies
<1>13. CASE WriteTimesOut(c)
  BY <1>13 DEF WriteTimesOut, WritePumpDies
<1> QED BY <1>1, <1>2, <1>3, <1>4, <1>5, <1>6, <1>7, <1>8, <1>9, <1>10, <1>11, <1>12, <1>13 DEF ConnStep

(* A sender.                                                               *)
LEMMA SenderStepIInv == ASSUME NEW s \in Senders, IInv, SenderStep(s) PROVE IInv'
<1> USE DEF IInv, TypeOK, HubHasConn, UnservedHasNoPump, EnteringIsFresh, Entering,
            ClosingIsUnlisted, BroadcastSeesTable, RunningUntilShutdown,
            ServedKeepSessions, RemovingIsAnnounced, DrainIsFinal,
            BroadcastNeverPanics
<1>1. ASSUME NEW c \in Conns, HandleRequest(s, c) PROVE IInv'
  BY <1>1 DEF HandleRequest
<1>2. ASSUME NEW c \in Conns, NEW use \in {"direct", "disconnect"}, GetClient(s, c, use)
      PROVE  IInv'
  BY <1>2 DEF GetClient
<1>3. ASSUME NEW c \in Conns, BroadcastSend(s, c) PROVE IInv'
  BY <1>3, BroadcastSendIInv
<1>4. CASE SendToClient(s)
  BY <1>4 DEF SendToClient
<1>5. CASE DisconnectClient(s)
  BY <1>5 DEF DisconnectClient
<1>6. CASE BroadcastLock(s)
  BY <1>6 DEF BroadcastLock
<1>7. CASE BroadcastUnlock(s)
  BY <1>7 DEF BroadcastUnlock
<1> QED BY <1>1, <1>2, <1>3, <1>4, <1>5, <1>6, <1>7 DEF SenderStep

(* The caller of Shutdown.                                                 *)
LEMMA ShutdownStepIInv == IInv /\ ShutdownStep => IInv'
<1> SUFFICES ASSUME IInv, ShutdownStep PROVE IInv'
  OBVIOUS
<1> USE DEF IInv, TypeOK, HubHasConn, UnservedHasNoPump, EnteringIsFresh, Entering,
            ClosingIsUnlisted, BroadcastSeesTable, RunningUntilShutdown,
            ServedKeepSessions, RemovingIsAnnounced, DrainIsFinal,
            BroadcastNeverPanics
<1>1. CASE ShutdownWaits
  BY <1>1 DEF ShutdownWaits
<1>2. CASE ShutdownBegins
  BY <1>2 DEF ShutdownBegins
<1>3. CASE ShutdownClosesRegister
  BY <1>3 DEF ShutdownClosesRegister
<1>4. CASE ShutdownPurges
  BY <1>4 DEF ShutdownPurges
<1>5. CASE ShutdownStopsListener
  BY <1>5 DEF ShutdownStopsListener
<1> QED BY <1>1, <1>2, <1>3, <1>4, <1>5 DEF ShutdownStep

-----------------------------------------------------------------------------
(* Every step preserves the invariant; a crashed process takes none.       *)
LEMMA NextIInv == IInv /\ [Next]_vars => IInv'
<1> SUFFICES ASSUME IInv, [Next]_vars PROVE IInv'
  OBVIOUS
<1>1. CASE UNCHANGED vars
  BY <1>1 DEF vars, IInv, TypeOK, HubHasConn, UnservedHasNoPump, EnteringIsFresh,
              Entering, ClosingIsUnlisted, BroadcastSeesTable, RunningUntilShutdown,
              ServedKeepSessions, RemovingIsAnnounced, DrainIsFinal,
              BroadcastNeverPanics
<1>2. CASE HubStep
  BY <1>2, HubStepIInv
<1>3. ASSUME NEW c \in Conns, ConnStep(c) PROVE IInv'
  BY <1>3, ConnStepIInv
<1>4. ASSUME NEW s \in Senders, SenderStep(s) PROVE IInv'
  BY <1>4, SenderStepIInv
<1>5. CASE ShutdownStep
  BY <1>5, ShutdownStepIInv
<1> QED BY <1>1, <1>2, <1>3, <1>4, <1>5 DEF Next, Crashed

(* The inductive invariant holds throughout every behaviour.               *)
THEOREM Inductive == Spec => []IInv
<1>1. Init => IInv
  BY InitIInv
<1>2. IInv /\ [Next]_vars => IInv'
  BY NextIInv
<1> QED BY <1>1, <1>2, PTL DEF Spec

(* The types of the hub's, the pumps' and the senders' state are kept; that*)
(* the hub inserts only a connection it received is part of the argument.  *)
THEOREM TypeCorrect == Spec => []TypeOK
<1>1. IInv => TypeOK
  BY DEF IInv
<1> QED BY <1>1, Inductive, PTL

(* BroadcastNotification never sends on a closed channel (server.go 985 to *)
(* 1001 against removeClient, hubLoop and Shutdown).                       *)
THEOREM BroadcastSafe == Spec => []BroadcastNeverPanics
<1>1. IInv => BroadcastNeverPanics
  BY DEF IInv
<1> QED BY <1>1, Inductive, PTL

(* A client whose send channel is closed is not in the table, ever again.  *)
THEOREM ClosedStaysUnlisted == Spec => []ClosedMeansUnlisted
<1>1. IInv => ClosedMeansUnlisted
  BY DEF IInv, ClosingIsUnlisted, ClosedMeansUnlisted
<1> QED BY <1>1, Inductive, PTL

(* The table stays empty once Shutdown has emptied it, although the hub may*)
(* hold a connection it received before.                                   *)
THEOREM DrainHolds == Spec => []DrainIsFinal
<1>1. IInv => DrainIsFinal
  BY DEF IInv
<1> QED BY <1>1, Inductive, PTL

(* A listed client that is being served has an open SessionManager.        *)
THEOREM SessionsHold == Spec => []ListedClientsKeepSessions
<1>1. IInv => ListedClientsKeepSessions
  <2> SUFFICES ASSUME IInv, NEW c \in clients, rp[c] \in {"none", "reading", "sessions"}
               PROVE  sess[c] = "open"
    BY DEF ListedClientsKeepSessions
  <2>1. c \in Conns /\ ws[c] # "new"
    BY DEF IInv, TypeOK, EnteringIsFresh, Entering
  <2> QED BY <2>1 DEF IInv, ServedKeepSessions
<1> QED BY <1>1, Inductive, PTL

(* Only a client whose disconnectHandler has returned leaves the table, or *)
(* Shutdown takes it out.                                                  *)
THEOREM RemovalIsAnnounced == Spec => RemovalAnnounced
<1> DEFINE Kept == \A c \in clients : \/ c \in clients' \/ discCb[c]
                                       \/ shutPc \in {"purge", "purgeWait"}
<1>1. IInv /\ [Next]_vars => [Kept]_vars
  <2> SUFFICES ASSUME IInv, Next PROVE Kept
    OBVIOUS
  <2>1. CASE HubStep
    BY <2>1 DEF HubStep, HubRangeEnds, HubWaits, HubInsert, HubConnectHandler, HubReceive
  <2>2. ASSUME NEW c \in Conns, RemoveClient(c) PROVE Kept
    BY <2>2 DEF RemoveClient, IInv, RemovingIsAnnounced
  <2>3. ASSUME NEW c \in Conns, ConnStep(c), ~RemoveClient(c) PROVE clients' = clients
    BY <2>3 DEF ConnStep, Accept, RegisterPanics, SpawnPumps, PeerGone, ReadFails,
                CleanupSessions, DisconnectHandler, RemoveWaits, CloseSend, CloseConn,
                WritePumpReturns, WriteTimesOut, WritePumpDies
  <2>4. ASSUME NEW s \in Senders, SenderStep(s) PROVE clients' = clients
    BY <2>4 DEF SenderStep, HandleRequest, GetClient, BroadcastSend, SendToClient,
                DisconnectClient, BroadcastLock, BroadcastUnlock
  <2>5. CASE ShutdownStep
    BY <2>5 DEF ShutdownStep, ShutdownWaits, ShutdownBegins, ShutdownClosesRegister,
                ShutdownPurges, ShutdownStopsListener
  <2>6. CASE Crashed
    BY <2>6 DEF Crashed, vars
  <2> QED BY <2>1, <2>2, <2>3, <2>4, <2>5, <2>6 DEF Next
<1> QED BY <1>1, Inductive, PTL DEF Spec, RemovalAnnounced
=============================================================================
