----------------------------- MODULE GatewayHub -----------------------------
(***************************************************************************)
(* The connection table of the gateway server (pkg/gateway/server.go): who *)
(* puts a connection into Server.clients, who takes it out, who closes its *)
(* send channel, and who still sends on that channel meanwhile.            *)
(*                                                                         *)
(* The goroutines that meet here:                                          *)
(*   - the hub (hubLoop), which receives registered connections, inserts   *)
(*     them into the table and then calls connectHandler;                  *)
(*   - one HTTP handler per connection (handleWS), which registers the     *)
(*     connection with the hub and starts its two pumps;                   *)
(*   - per connection a readPump, whose deferred function tears the        *)
(*     connection down step by step, and a writePump;                      *)
(*   - "senders": any goroutine that sends to clients - an asynchronous    *)
(*     method handler, a caller of Notify, Call, BroadcastNotification or  *)
(*     DisconnectClient;                                                   *)
(*   - one caller of Shutdown.                                             *)
(*                                                                         *)
(* The model starts where Start has returned: the hub runs and the         *)
(* listener accepts.  What a message says and how full a send channel is   *)
(* are left to module SendQueue; here a send either meets an open channel  *)
(* (and is queued or dropped) or a closed one (and panics).  The heartbeat *)
(* monitor's ConnectionCount, a statistic no decision reads, is left out.  *)
(***************************************************************************)
EXTENDS FiniteSets

CONSTANTS
  Conns,      (* WebSocket connections; each is accepted at most once.     *)
  Senders,    (* Goroutines that send to, or disconnect, clients.          *)
  NoConn      (* Not a connection: the hub's variable before its first one.*)

ASSUME ConnsAssumption == IsFiniteSet(Conns) /\ NoConn \notin Conns

VARIABLES
  running,        (* Server.running                                        *)
  registerClosed, (* Server.register has been closed by Shutdown           *)
  clients,        (* the keys of Server.clients                            *)
  hubPc,          (* program counter of hubLoop                            *)
  hubConn,        (* hubLoop's c                                           *)
  ws,             (* program counter of each connection's handleWS         *)
  rp,             (* program counter of each connection's readPump         *)
  wp,             (* program counter of each connection's writePump        *)
  sendClosed,     (* client.send has been closed                           *)
  ctxDone,        (* client.ctx has been cancelled                         *)
  conn,           (* the WebSocket, seen from the server                   *)
  sess,           (* the connection's SessionManager                       *)
  discCb,         (* disconnectHandler has returned for this connection    *)
  shutPc,         (* program counter of the caller of Shutdown             *)
  sndPc,          (* what each sender is doing                             *)
  sndTo,          (* the clients it still has to send to                   *)
  panic           (* which kind of send crashed the process, if one did    *)

hubVars  == <<hubPc, hubConn>>
pumpVars == <<rp, wp>>
connVars == <<sendClosed, ctxDone, conn, sess, discCb>>
sndVars  == <<sndPc, sndTo, panic>>
srvVars  == <<running, registerClosed, shutPc>>
vars     == <<running, registerClosed, clients, hubPc, hubConn, ws, rp, wp,
              sendClosed, ctxDone, conn, sess, discCb, shutPc, sndPc, sndTo,
              panic>>

HubPc    == {"recv", "insert", "insertWait", "connect", "done"}
WsPc     == {"new", "register", "spawn", "served", "panicked"}
RpPc     == {"none", "reading", "sessions", "callback", "remove", "removeWait",
             "closeSend", "closeConn", "dead"}
WpPc     == {"none", "run", "dead"}
ConnSt   == {"none", "open", "broken", "closed"}
ShutPc   == {"idle", "beginWait", "closing", "purge", "purgeWait", "stopListen",
             "done"}
SndPc    == {"idle", "direct", "bcast", "disconnect"}

(* One type invariant for the module's state.                              *)
TypeOK ==
  /\ running \in BOOLEAN /\ registerClosed \in BOOLEAN
  /\ clients \in SUBSET Conns
  /\ hubPc \in HubPc /\ hubConn \in Conns \cup {NoConn}
  /\ ws \in [Conns -> WsPc]
  /\ rp \in [Conns -> RpPc] /\ wp \in [Conns -> WpPc]
  /\ sendClosed \in [Conns -> BOOLEAN] /\ ctxDone \in [Conns -> BOOLEAN]
  /\ conn \in [Conns -> ConnSt]
  /\ sess \in [Conns -> {"none", "open", "closed"}]
  /\ discCb \in [Conns -> BOOLEAN]
  /\ shutPc \in ShutPc
  /\ sndPc \in [Senders -> SndPc] /\ sndTo \in [Senders -> SUBSET Conns]
  /\ panic \in {"none", "direct", "broadcast"}

Init ==
  /\ running = TRUE /\ registerClosed = FALSE
  /\ clients = {}
  /\ hubPc = "recv" /\ hubConn = NoConn
  /\ ws = [c \in Conns |-> "new"]
  /\ rp = [c \in Conns |-> "none"] /\ wp = [c \in Conns |-> "none"]
  /\ sendClosed = [c \in Conns |-> FALSE] /\ ctxDone = [c \in Conns |-> FALSE]
  /\ conn = [c \in Conns |-> "none"] /\ sess = [c \in Conns |-> "none"]
  /\ discCb = [c \in Conns |-> FALSE]
  /\ shutPc = "idle"
  /\ sndPc = [s \in Senders |-> "idle"] /\ sndTo = [s \in Senders |-> {}]
  /\ panic = "none"

(* Server.mu is a sync.RWMutex.  Every critical section but one is a single*)
(* action here; BroadcastNotification alone holds the read lock across     *)
(* several sends.  A writer that meets it waits (a "...Wait" program       *)
(* counter), and a waiting writer keeps later readers out.                 *)
MayWriteLock == \A s \in Senders : sndPc[s] # "bcast"

MayReadLock ==
  /\ hubPc # "insertWait" /\ shutPc \notin {"beginWait", "purgeWait"}
  /\ \A c \in Conns : rp[c] # "removeWait"

-----------------------------------------------------------------------------
(* handleWS                                                                *)

(* The upgrade succeeds and the client object is built.  A request already *)
(* being served when Shutdown closes the listener still gets this far.     *)
Accept(c) ==
  /\ ws[c] = "new" /\ shutPc # "done"
  /\ ws' = [ws EXCEPT ![c] = "register"]
  /\ conn' = [conn EXCEPT ![c] = "open"]
  /\ sess' = [sess EXCEPT ![c] = "open"]
  /\ UNCHANGED <<srvVars, clients, hubVars, pumpVars, sendClosed, ctxDone,
                 discCb, sndVars>>

(* s.register <- c on the channel Shutdown has closed: the panic is        *)
(* recovered by net/http, which does not close a hijacked connection.      *)
RegisterPanics(c) ==
  /\ ws[c] = "register" /\ registerClosed
  /\ ws' = [ws EXCEPT ![c] = "panicked"]
  /\ UNCHANGED <<srvVars, clients, hubVars, pumpVars, connVars, sndVars>>

SpawnPumps(c) ==
  /\ ws[c] = "spawn"
  /\ ws' = [ws EXCEPT ![c] = "served"]
  /\ rp' = [rp EXCEPT ![c] = "reading"]
  /\ wp' = [wp EXCEPT ![c] = "run"]
  /\ UNCHANGED <<srvVars, clients, hubVars, connVars, sndVars>>

-----------------------------------------------------------------------------
(* hubLoop                                                                 *)

(* register is unbuffered: the hub's receive and the handler's send are    *)
(* one step, after which both go on independently.                         *)
HubReceive(c) ==
  /\ hubPc = "recv" /\ ws[c] = "register" /\ ~registerClosed
  /\ hubPc' = "insert" /\ hubConn' = c
  /\ ws' = [ws EXCEPT ![c] = "spawn"]
  /\ UNCHANGED <<srvVars, clients, pumpVars, connVars, sndVars>>

HubRangeEnds ==
  /\ hubPc = "recv" /\ registerClosed
  /\ hubPc' = "done"
  /\ UNCHANGED <<srvVars, clients, hubConn, ws, pumpVars, connVars, sndVars>>

HubWaits ==
  /\ hubPc = "insert" /\ ~MayWriteLock
  /\ hubPc' = "insertWait"
  /\ UNCHANGED <<srvVars, clients, hubConn, ws, pumpVars, connVars, sndVars>>

(* Mutant: the insertion without the second look at running.               *)
HubInsertUnchecked ==
  /\ hubPc \in {"insert", "insertWait"} /\ MayWriteLock
  /\ clients' = clients \cup {hubConn}
  /\ hubPc' = "connect"
  /\ UNCHANGED <<srvVars, hubConn, ws, pumpVars, connVars, sndVars>>

(* Under the lock: a hub that finds the server stopped drops the connection*)
(* and returns, otherwise the connection enters the table.                 *)
HubInsert ==
  /\ hubPc \in {"insert", "insertWait"} /\ MayWriteLock
  /\ IF running
       THEN /\ clients' = clients \cup {hubConn}
            /\ hubPc' = "connect"
       ELSE /\ hubPc' = "done"
            /\ clients' = clients
  /\ UNCHANGED <<srvVars, hubConn, ws, pumpVars, connVars, sndVars>>

(* connectHandler runs outside the lock, and the monitor is told the count;*)
(* meanwhile the hub receives nobody else.                                 *)
HubConnectHandler ==
  /\ hubPc = "connect"
  /\ hubPc' = "recv"
  /\ UNCHANGED <<srvVars, clients, hubConn, ws, pumpVars, connVars, sndVars>>

-----------------------------------------------------------------------------
(* readPump: ReadMessage fails, then the deferred function runs            *)

(* The peer goes away, or stays silent past the read deadline.             *)
PeerGone(c) ==
  /\ conn[c] = "open"
  /\ conn' = [conn EXCEPT ![c] = "broken"]
  /\ UNCHANGED <<srvVars, clients, hubVars, ws, pumpVars, sendClosed, ctxDone,
                 sess, discCb, sndVars>>

(* Mutant: no read deadline, so a dead writePump goes unnoticed.           *)
ReadFailsOnConnOnly(c) ==
  /\ rp[c] = "reading" /\ conn[c] # "open"
  /\ ctxDone' = [ctxDone EXCEPT ![c] = TRUE]
  /\ rp' = [rp EXCEPT ![c] = "sessions"]
  /\ UNCHANGED <<srvVars, clients, hubVars, ws, wp, sendClosed, conn, sess,
                 discCb, sndVars>>

(* With its writePump gone nobody pings, no pong arrives and the read      *)
(* deadline passes, so the read fails in that case as well.                *)
ReadFails(c) ==
  /\ rp[c] = "reading" /\ (conn[c] # "open" \/ wp[c] = "dead")
  /\ ctxDone' = [ctxDone EXCEPT ![c] = TRUE]
  /\ rp' = [rp EXCEPT ![c] = "sessions"]
  /\ UNCHANGED <<srvVars, clients, hubVars, ws, wp, sendClosed, conn, sess,
                 discCb, sndVars>>

(* Mutant: the disconnectHandler is skipped.                               *)
CleanupSessionsNoCallback(c) ==
  /\ rp[c] = "sessions"
  /\ sess' = [sess EXCEPT ![c] = "closed"]
  /\ rp' = [rp EXCEPT ![c] = "remove"]
  /\ UNCHANGED <<srvVars, clients, hubVars, ws, wp, sendClosed, ctxDone, conn,
                 discCb, sndVars>>

CleanupSessions(c) ==
  /\ rp[c] = "sessions"
  /\ sess' = [sess EXCEPT ![c] = "closed"]
  /\ rp' = [rp EXCEPT ![c] = "callback"]
  /\ UNCHANGED <<srvVars, clients, hubVars, ws, wp, sendClosed, ctxDone, conn,
                 discCb, sndVars>>

DisconnectHandler(c) ==
  /\ rp[c] = "callback"
  /\ discCb' = [discCb EXCEPT ![c] = TRUE]
  /\ rp' = [rp EXCEPT ![c] = "remove"]
  /\ UNCHANGED <<srvVars, clients, hubVars, ws, wp, sendClosed, ctxDone, conn,
                 sess, sndVars>>

RemoveWaits(c) ==
  /\ rp[c] = "remove" /\ ~MayWriteLock
  /\ rp' = [rp EXCEPT ![c] = "removeWait"]
  /\ UNCHANGED <<srvVars, clients, hubVars, ws, wp, connVars, sndVars>>

(* Mutant: the map is read under the read lock and deleted from without the*)
(* write lock, so a broadcast may be under way.                            *)
RemoveClientUnlocked(c) ==
  /\ rp[c] \in {"remove", "removeWait"}
  /\ rp' = [rp EXCEPT ![c] = IF c \in clients THEN "closeSend" ELSE "closeConn"]
  /\ clients' = clients \ {c}
  /\ UNCHANGED <<srvVars, hubVars, ws, wp, connVars, sndVars>>

(* Mutant: the send channel is closed, the table entry stays.              *)
RemoveClientForgetsDelete(c) ==
  /\ rp[c] \in {"remove", "removeWait"} /\ MayWriteLock
  /\ rp' = [rp EXCEPT ![c] = IF c \in clients THEN "closeSend" ELSE "closeConn"]
  /\ UNCHANGED <<srvVars, clients, hubVars, ws, wp, connVars, sndVars>>

(* removeClient's critical section: send will be closed only by a pump that*)
(* found its connection in the table.                                      *)
RemoveClient(c) ==
  /\ rp[c] \in {"remove", "removeWait"} /\ MayWriteLock
  /\ rp' = [rp EXCEPT ![c] = IF c \in clients THEN "closeSend" ELSE "closeConn"]
  /\ clients' = clients \ {c}
  /\ UNCHANGED <<srvVars, hubVars, ws, wp, connVars, sndVars>>

CloseSend(c) ==
  /\ rp[c] = "closeSend"
  /\ sendClosed' = [sendClosed EXCEPT ![c] = TRUE]
  /\ rp' = [rp EXCEPT ![c] = "closeConn"]
  /\ UNCHANGED <<srvVars, clients, hubVars, ws, wp, ctxDone, conn, sess,
                 discCb, sndVars>>

CloseConn(c) ==
  /\ rp[c] = "closeConn"
  /\ conn' = [conn EXCEPT ![c] = "closed"]
  /\ rp' = [rp EXCEPT ![c] = "dead"]
  /\ UNCHANGED <<srvVars, clients, hubVars, ws, wp, sendClosed, ctxDone, sess,
                 discCb, sndVars>>

(* writePump: it returns on a cancelled context, on a closed send channel  *)
(* and on a failed write.  In none of these cases does it close the        *)
(* connection.                                                             *)
WritePumpDies(c) ==
  /\ wp[c] = "run"
  /\ wp' = [wp EXCEPT ![c] = "dead"]
  /\ UNCHANGED <<srvVars, clients, hubVars, ws, rp, connVars, sndVars>>

WritePumpReturns(c) ==
  (ctxDone[c] \/ sendClosed[c] \/ conn[c] # "open") /\ WritePumpDies(c)

(* A peer that does not read lets the write deadline pass.                 *)
WriteTimesOut(c) == conn[c] = "open" /\ WritePumpDies(c)

-----------------------------------------------------------------------------
(* Senders                                                                 *)

(* handleRequest starts a goroutine that runs the method and answers on    *)
(* the client it captured.                                                 *)
HandleRequest(s, c) ==
  /\ sndPc[s] = "idle" /\ rp[c] = "reading"
  /\ sndPc' = [sndPc EXCEPT ![s] = "direct"]
  /\ sndTo' = [sndTo EXCEPT ![s] = {c}]
  /\ UNCHANGED <<srvVars, clients, hubVars, ws, pumpVars, connVars, panic>>

(* Mutant: the pointer is not compared with nil.                           *)
GetClientUnchecked(s, c, use) ==
  /\ sndPc[s] = "idle" /\ MayReadLock
  /\ sndPc' = [sndPc EXCEPT ![s] = use]
  /\ sndTo' = [sndTo EXCEPT ![s] = {IF c \in clients THEN c ELSE NoConn}]
  /\ UNCHANGED <<srvVars, clients, hubVars, ws, pumpVars, connVars, panic>>

(* GetClient in Notify and Call ("direct") and in DisconnectClient: the    *)
(* pointer is read under the lock and used after it.                       *)
GetClient(s, c, use) ==
  /\ sndPc[s] = "idle" /\ c \in clients /\ MayReadLock
  /\ sndPc' = [sndPc EXCEPT ![s] = use]
  /\ sndTo' = [sndTo EXCEPT ![s] = {c}]
  /\ UNCHANGED <<srvVars, clients, hubVars, ws, pumpVars, connVars, panic>>

(* sendToClient: a select with a default never blocks, but a send on a     *)
(* closed channel panics, and nothing recovers it.                         *)
SendToClient(s) ==
  /\ sndPc[s] = "direct"
  /\ panic' = IF \E c \in sndTo[s] : sendClosed[c] THEN "direct" ELSE panic
  /\ sndPc' = [sndPc EXCEPT ![s] = "idle"]
  /\ sndTo' = [sndTo EXCEPT ![s] = {}]
  /\ UNCHANGED <<srvVars, clients, hubVars, ws, pumpVars, connVars>>

DisconnectClient(s) ==
  /\ sndPc[s] = "disconnect"
  /\ conn' = [c \in Conns |-> IF c \in sndTo[s] THEN "closed" ELSE conn[c]]
  /\ sndPc' = [sndPc EXCEPT ![s] = "idle"]
  /\ sndTo' = [sndTo EXCEPT ![s] = {}]
  /\ UNCHANGED <<srvVars, clients, hubVars, ws, pumpVars, sendClosed, ctxDone,
                 sess, discCb, panic>>

(* BroadcastNotification: read lock, one send per client, unlock.          *)
BroadcastLock(s) ==
  /\ sndPc[s] = "idle" /\ MayReadLock
  /\ sndPc' = [sndPc EXCEPT ![s] = "bcast"]
  /\ sndTo' = [sndTo EXCEPT ![s] = clients]
  /\ UNCHANGED <<srvVars, clients, hubVars, ws, pumpVars, connVars, panic>>

BroadcastSend(s, c) ==
  /\ sndPc[s] = "bcast" /\ c \in sndTo[s]
  /\ panic' = IF sendClosed[c] THEN "broadcast" ELSE panic
  /\ sndTo' = [sndTo EXCEPT ![s] = @ \ {c}]
  /\ UNCHANGED <<srvVars, clients, hubVars, ws, pumpVars, connVars, sndPc>>

(* Mutant: a return path without the unlock.                               *)
BroadcastUnlockLost(s) ==
  /\ sndPc[s] = "bcast" /\ sndTo[s] = {}
  /\ UNCHANGED vars

BroadcastUnlock(s) ==
  /\ sndPc[s] = "bcast" /\ sndTo[s] = {}
  /\ sndPc' = [sndPc EXCEPT ![s] = "idle"]
  /\ UNCHANGED <<srvVars, clients, hubVars, ws, pumpVars, connVars, sndTo,
                 panic>>

-----------------------------------------------------------------------------
(* Shutdown; a second call finds running false and only returns an error.  *)

ShutdownWaits ==
  /\ ~MayWriteLock
  /\ \/ shutPc = "idle" /\ shutPc' = "beginWait"
     \/ shutPc = "purge" /\ shutPc' = "purgeWait"
  /\ UNCHANGED <<running, registerClosed, clients, hubVars, ws, pumpVars,
                 connVars, sndVars>>

ShutdownBegins ==
  /\ shutPc \in {"idle", "beginWait"} /\ MayWriteLock
  /\ running' = FALSE /\ shutPc' = "closing"
  /\ UNCHANGED <<registerClosed, clients, hubVars, ws, pumpVars, connVars,
                 sndVars>>

(* Mutant: the hub is told to quit, the register channel stays open.       *)
ShutdownQuitsHub ==
  /\ shutPc = "closing" /\ hubPc \in {"recv", "done"}
  /\ hubPc' = "done" /\ shutPc' = "purge"
  /\ UNCHANGED <<running, registerClosed, clients, hubConn, ws, pumpVars,
                 connVars, sndVars>>

ShutdownClosesRegister ==
  /\ shutPc = "closing"
  /\ registerClosed' = TRUE /\ shutPc' = "purge"
  /\ UNCHANGED <<running, clients, hubVars, ws, pumpVars, connVars, sndVars>>

(* Mutant: the sessions are closed, the clients stay listed.               *)
ShutdownPurgesSessionsOnly ==
  /\ shutPc \in {"purge", "purgeWait"} /\ MayWriteLock
  /\ sess' = [c \in Conns |-> IF c \in clients THEN "closed" ELSE sess[c]]
  /\ shutPc' = "stopListen"
  /\ UNCHANGED <<running, registerClosed, clients, hubVars, ws, pumpVars,
                 sendClosed, ctxDone, conn, discCb, sndVars>>

(* The table is emptied and the listed clients' sessions are closed; their *)
(* connections and send channels are left as they are.                     *)
ShutdownPurges ==
  /\ shutPc \in {"purge", "purgeWait"} /\ MayWriteLock
  /\ sess' = [c \in Conns |-> IF c \in clients THEN "closed" ELSE sess[c]]
  /\ clients' = {}
  /\ shutPc' = "stopListen"
  /\ UNCHANGED <<running, registerClosed, hubVars, ws, pumpVars, sendClosed,
                 ctxDone, conn, discCb, sndVars>>

(* http.Server.Shutdown closes the listener and waits for requests that    *)
(* are not hijacked; a WebSocket is, so none is waited for or closed.      *)
ShutdownStopsListener ==
  /\ shutPc = "stopListen"
  /\ shutPc' = "done"
  /\ UNCHANGED <<running, registerClosed, clients, hubVars, ws, pumpVars,
                 connVars, sndVars>>

-----------------------------------------------------------------------------
HubStep == HubRangeEnds \/ HubWaits \/ HubInsert \/ HubConnectHandler
           \/ \E c \in Conns : HubReceive(c)

ConnStep(c) ==
  \/ Accept(c) \/ RegisterPanics(c) \/ SpawnPumps(c) \/ PeerGone(c)
  \/ ReadFails(c) \/ CleanupSessions(c) \/ DisconnectHandler(c)
  \/ RemoveWaits(c) \/ RemoveClient(c) \/ CloseSend(c) \/ CloseConn(c)
  \/ WritePumpReturns(c) \/ WriteTimesOut(c)

SenderStep(s) ==
  \/ \E c \in Conns : HandleRequest(s, c)
  \/ \E c \in Conns, use \in {"direct", "disconnect"} : GetClient(s, c, use)
  \/ \E c \in Conns : BroadcastSend(s, c)
  \/ SendToClient(s) \/ DisconnectClient(s)
  \/ BroadcastLock(s) \/ BroadcastUnlock(s)

ShutdownStep ==
  \/ ShutdownWaits \/ ShutdownBegins
  \/ ShutdownClosesRegister \/ ShutdownPurges \/ ShutdownStopsListener

(* An unrecovered panic ends the process: no goroutine takes another step. *)
Crashed == panic # "none" /\ UNCHANGED vars

Next ==
  \/ /\ panic = "none"
     /\ \/ HubStep
        \/ \E c \in Conns : ConnStep(c)
        \/ \E s \in Senders : SenderStep(s)
        \/ ShutdownStep
  \/ Crashed

Spec == Init /\ [][Next]_vars

(***************************************************************************)
(* Fairness.  Go schedules every runnable goroutine, and the callbacks are *)
(* assumed to return: weak fairness on the steps a goroutine takes by      *)
(* itself.  A writer at Server.mu either enters or starts to wait, which   *)
(* keeps new broadcasts out.  Nothing makes a peer connect or leave, a     *)
(* sender start or somebody call Shutdown.                                 *)
(***************************************************************************)
Alive(A) == panic = "none" /\ A

HandlerRuns(c)  == RegisterPanics(c) \/ SpawnPumps(c)
ReadPumpRuns(c) == ReadFails(c) \/ CleanupSessions(c) \/ DisconnectHandler(c)
                   \/ RemoveWaits(c) \/ RemoveClient(c) \/ CloseSend(c)
                   \/ CloseConn(c)
SenderRuns(s)   == SendToClient(s) \/ DisconnectClient(s) \/ BroadcastUnlock(s)
                   \/ \E c \in Conns : BroadcastSend(s, c)
ShutdownRuns    == shutPc # "idle" /\ ShutdownStep

Fairness ==
  /\ WF_vars(Alive(HubStep)) /\ WF_vars(Alive(ShutdownRuns))
  /\ \A c \in Conns : /\ WF_vars(Alive(HandlerRuns(c)))
                      /\ WF_vars(Alive(ReadPumpRuns(c)))
                      /\ WF_vars(Alive(WritePumpReturns(c)))
  /\ \A s \in Senders : WF_vars(Alive(SenderRuns(s)))

FairSpec == Spec /\ Fairness

-----------------------------------------------------------------------------
(* What the code guarantees.                                               *)

(* A send channel is closed only after its client has left the table, and  *)
(* the client never comes back: whoever finds a client in the table under  *)
(* the lock may send to it (removeClient against hubLoop and Shutdown).    *)
ClosedMeansUnlisted == \A c \in Conns : sendClosed[c] => c \notin clients

(* BroadcastNotification, which sends while it holds the read lock, never  *)
(* meets a closed send channel, however connections come and go meanwhile. *)
BroadcastNeverPanics == panic # "broadcast"

(* Once Shutdown has emptied the table nobody enters it again, although the*)
(* hub may have received a connection before Shutdown began.               *)
DrainIsFinal == shutPc \in {"stopListen", "done"} => clients = {}

(* While a listed client is being served its SessionManager is open: the   *)
(* sessions are closed only by its own readPump on the way out or together *)
(* with its removal by Shutdown.                                           *)
ListedClientsKeepSessions ==
  \A c \in clients : rp[c] \in {"none", "reading", "sessions"} => sess[c] = "open"

(* A client leaves the table only after its disconnectHandler has returned,*)
(* or because Shutdown empties the table.                                  *)
RemovalAnnounced ==
  [][\A c \in clients : \/ c \in clients' \/ discCb[c]
                         \/ shutPc \in {"purge", "purgeWait"}]_vars

(* A connection that fails, or loses its writePump, is torn down completely*)
(* unless the process crashes first.                                       *)
PumpsEndTogether ==
  \A c \in Conns :
    (rp[c] = "reading" /\ (conn[c] # "open" \/ wp[c] = "dead"))
      ~> (rp[c] = "dead" /\ wp[c] = "dead") \/ panic # "none"

(* A handleWS waiting to register is either served or fails by the panic   *)
(* that net/http recovers; none is left blocked on the register channel.   *)
RegistrationResolves ==
  \A c \in Conns :
    ws[c] = "register" ~> ws[c] \in {"served", "panicked"} \/ panic # "none"

(* Shutdown returns, whatever senders and pumps do with Server.mu.         *)
ShutdownReturns == shutPc = "beginWait" \/ ~running ~> shutPc = "done" \/ panic # "none"

-----------------------------------------------------------------------------
(* What the repository says of the server and the code does not do.        *)

(* docs/gateway.md: a Notify that cannot be delivered is dropped silently. *)
(* In the code a send to a client that is just leaving can panic.          *)
SendToClientNeverPanics == panic # "direct"

(* client_close_test.go: after a disconnect the client is taken out of the *)
(* table.  In the code the readPump may end before the hub inserts it.     *)
NoGhostClients == \A c \in Conns : rp[c] = "dead" => c \notin clients

(* client_close_test.go: the server disconnects its clients on Shutdown.   *)
ShutdownDisconnects ==
  \A c \in Conns :
    (shutPc = "done" /\ ws[c] = "served") ~> conn[c] # "open" \/ panic # "none"
=============================================================================
