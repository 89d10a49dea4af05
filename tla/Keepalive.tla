----------------------------- MODULE Keepalive -----------------------------
(***************************************************************************)
(* The deadlines of one connection.  The server pings every PingPeriod and *)
(* ends a connection from which no pong came for ReadTimeout; data from    *)
(* the peer does not count.  The Go client pings too: its write deadline   *)
(* is set before each ping, is absolute, and is never cleared, so that a   *)
(* Call more than WriteWait later writes past it; gorilla/websocket keeps  *)
(* the error of a write, and no write, ping or pong succeeds after it.     *)
(*                                                                         *)
(* Time is counted down in units; a peer that is well answers a ping       *)
(* within Latency units of it.                                             *)
(***************************************************************************)
EXTENDS Naturals

CONSTANTS
    PingPeriod,   \* HeartbeatConfig.PingPeriod, or 54 s; the client's: 54 s
    ReadTimeout,  \* HeartbeatConfig.ReadTimeout, or 60 s
    WriteWait,    \* the deadline of a write, 10 s
    Latency,      \* how long a pong may take
    GoClient      \* the peer is client.go; otherwise one that only answers

ASSUME KeepaliveTimes ==
    /\ {PingPeriod, ReadTimeout, WriteWait, Latency} \subseteq Nat \ {0}
    /\ Latency < PingPeriod
    /\ GoClient \in BOOLEAN

VARIABLES
    kaConn,      \* the connection, seen from the server's readPump
    kaRead,      \* time to the read deadline
    kaPing,      \* time to the writePump's next ping
    kaPong,      \* time by which the pong of the last ping is due, 0 for none
    kaPeer,      \* the peer is there
    kaSilent,    \* history: time since it is not
    kaClient,    \* time to the client's next ping
    kaDeadline,  \* the client's write deadline: none yet, time to it
    kaWriteErr,  \* the client's Conn has a write error
    kaCall       \* what the last Client.Call's write made of it

kaVars == <<kaConn, kaRead, kaPing, kaPong, kaPeer, kaSilent, kaClient,
            kaDeadline, kaWriteErr, kaCall>>

None == [set |-> FALSE, left |-> 0]

KeepaliveInit ==
    /\ kaConn = "new" /\ kaRead = ReadTimeout /\ kaPing = PingPeriod
    /\ kaPong = 0 /\ kaPeer = TRUE /\ kaSilent = 0
    /\ kaClient = PingPeriod /\ kaDeadline = None
    /\ kaWriteErr = FALSE /\ kaCall = "none"

\* readPump sets its first deadline, writePump and writeLoop their tickers.
PumpsStart ==
    /\ kaConn = "new" /\ kaConn' = "open"
    /\ UNCHANGED <<kaRead, kaPing, kaPong, kaPeer, kaSilent, kaClient, kaDeadline,
                   kaWriteErr, kaCall>>

\* writePump's ticker: the deadline is renewed right before the write.
ServerPings ==
    /\ kaConn = "open" /\ kaPing = 0
    /\ kaPing' = PingPeriod
    /\ kaPong' = IF kaPeer THEN Latency ELSE 0
    /\ UNCHANGED <<kaConn, kaRead, kaPeer, kaSilent, kaClient, kaDeadline,
                   kaWriteErr, kaCall>>

\* Mutant: the pong handler does not move the deadline.
PongUnheard ==
    /\ kaConn = "open" /\ kaPong > 0 /\ ~kaWriteErr
    /\ kaPong' = 0
    /\ UNCHANGED <<kaConn, kaRead, kaPing, kaPeer, kaSilent, kaClient, kaDeadline,
                   kaWriteErr, kaCall>>

\* The pong handler moves the read deadline.  A pong may have been on its way
\* when the peer was lost.
PongArrives ==
    /\ kaConn = "open" /\ kaPong > 0 /\ ~kaWriteErr
    /\ kaPong' = 0
    /\ kaRead' = ReadTimeout
    /\ UNCHANGED <<kaConn, kaPing, kaPeer, kaSilent, kaClient, kaDeadline,
                   kaWriteErr, kaCall>>

\* readPump's read fails.
ReadTimesOut ==
    /\ kaConn = "open" /\ kaRead = 0
    /\ kaConn' = "closed"
    /\ UNCHANGED <<kaRead, kaPing, kaPong, kaPeer, kaSilent, kaClient, kaDeadline,
                   kaWriteErr, kaCall>>

PeerLost ==
    /\ kaConn = "open" /\ kaPeer
    /\ kaPeer' = FALSE
    /\ UNCHANGED <<kaConn, kaRead, kaPing, kaPong, kaSilent, kaClient, kaDeadline,
                   kaWriteErr, kaCall>>

\* writeLoop's ticker.
ClientPings ==
    /\ GoClient /\ kaConn = "open" /\ kaPeer /\ kaClient = 0
    /\ kaClient' = PingPeriod
    /\ kaDeadline' = [set |-> TRUE, left |-> WriteWait]
    /\ UNCHANGED <<kaConn, kaRead, kaPing, kaPong, kaPeer, kaSilent, kaWriteErr, kaCall>>

\* A Call writes under whatever deadline there is.
ClientCalls ==
    /\ GoClient /\ kaConn = "open" /\ kaPeer
    /\ LET late == kaDeadline.set /\ kaDeadline.left = 0 IN
         /\ kaWriteErr' = (kaWriteErr \/ late)
         /\ kaCall' = IF kaWriteErr' THEN "failed" ELSE "written"
    /\ UNCHANGED <<kaConn, kaRead, kaPing, kaPong, kaPeer, kaSilent, kaClient,
                   kaDeadline>>

Down(n) == IF n > 0 THEN n - 1 ELSE 0

\* One unit of time; what is due goes first.
KeepaliveClock ==
    /\ kaConn = "open" /\ kaRead > 0 /\ kaPing > 0
    /\ kaPong = 1 /\ kaPeer => kaWriteErr
    /\ GoClient /\ kaPeer => kaClient > 0
    /\ kaRead' = kaRead - 1 /\ kaPing' = kaPing - 1 /\ kaPong' = Down(kaPong)
    /\ kaSilent' = IF kaPeer THEN 0 ELSE kaSilent + 1
    /\ kaClient' = Down(kaClient)
    /\ kaDeadline' = [kaDeadline EXCEPT !.left = Down(@)]
    /\ UNCHANGED <<kaConn, kaPeer, kaWriteErr, kaCall>>

KeepaliveNext ==
    \/ PumpsStart \/ ServerPings \/ PongArrives \/ ReadTimesOut \/ PeerLost
    \/ ClientPings \/ ClientCalls \/ KeepaliveClock

KeepaliveSpec == KeepaliveInit /\ [][KeepaliveNext]_kaVars

-----------------------------------------------------------------------------
KeepaliveTypeOK ==
    /\ kaConn \in {"new", "open", "closed"}
    /\ kaRead \in 0 .. ReadTimeout /\ kaPing \in 0 .. PingPeriod
    /\ kaPong \in 0 .. Latency /\ kaClient \in 0 .. PingPeriod
    /\ {kaPeer, kaWriteErr} \subseteq BOOLEAN
    /\ kaSilent \in 0 .. ReadTimeout + Latency
    /\ kaDeadline \in [set : BOOLEAN, left : 0 .. WriteWait]
    /\ kaCall \in {"none", "written", "failed"}

\* A peer that answers pings keeps its connection for ever, without a message
\* of its own, if a ping and its answer fit into the read timeout: 54 and 60
\* seconds leave six for the answer.
IdlePeerStays ==
    PingPeriod + Latency <= ReadTimeout /\ kaPeer /\ ~kaWriteErr => kaConn # "closed"

\* A peer that is gone is noticed within a read timeout, counted from the last
\* pong it had sent.
GonePeerNoticed == kaConn = "open" => kaRead + kaSilent <= ReadTimeout + Latency

(***************************************************************************)
(* The keepalive of readPump and writePump ends the connections of silent  *)
(* peers and of no others.  A Go client whose writes have failed is a      *)
(* silent peer: its pongs fail as well.                                    *)
(***************************************************************************)
OnlySilenceEnds == IdlePeerStays /\ GonePeerNoticed

(***************************************************************************)
(* docs/gateway.md:393 says of Call that its timeout is the context's: a   *)
(* Call on a connection that works, to a peer that is there, is written.   *)
(***************************************************************************)
CallsAreWritten == kaConn = "open" /\ kaPeer => kaCall # "failed"
=============================================================================
