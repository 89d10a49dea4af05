-------------------------- MODULE ServerLifecycle --------------------------
(***************************************************************************)
(* Start and Shutdown of the gateway server: the flag running, the hub     *)
(* goroutine of each Start, the http.Server each Start makes, its listener *)
(* goroutine and the channel startErr between them.  Start and Shutdown    *)
(* may be called at any moment, also while the other one is under way; the *)
(* fields server and startErr are read and written without a lock.         *)
(*                                                                         *)
(* What happens to a connection after it is listed is in GatewayHub; here  *)
(* a connection matters until a hub has taken it off the register channel. *)
(***************************************************************************)
EXTENDS Naturals

CONSTANT MaxServerStarts   \* bound: calls of Start that find running false

ASSUME ServerBounds == MaxServerStarts \in Nat \ {0}

VARIABLES
    slRunning,   \* Server.running
    slRegister,  \* Server.register is open; New made it, nothing makes it again
    slServer,    \* Server.server: the Start that made it, 0 for nil
    slErr,       \* Server.startErr: likewise
    slStarts,    \* Starts so far
    slStart,     \* per Start: its next step
    slHub,       \* per Start: its hubLoop
    slHttp,      \* per Start: its http.Server
    slListener,  \* per Start: its listener goroutine, and the server it serves
    slErrFull,   \* per Start: the channel startErr it made holds an error
    slErrClosed, \* per Start: that channel is closed
    slStop,      \* Shutdown: its next step
    slConn,      \* a connection on its way through handleWS
    slShut,      \* history: a Shutdown has got past its test
    slTaken,     \* another program listens on the address
    slEarly,     \* history: Shutdown overtook a Start, or a Start began while
                 \* a Shutdown, a Start or its listener goroutine was alive
    slPanic      \* what paniced outside a handler, if anything

slErrChans == <<slErrFull, slErrClosed>>
slVars == <<slRunning, slRegister, slServer, slErr, slStarts, slStart, slHub,
            slHttp, slListener, slErrChans, slStop, slConn, slShut, slEarly, slPanic, slTaken>>

SStarts == 1 .. MaxServerStarts

Under(i)  == slStart[i] \in {"hub", "server", "listen", "probe"}
Alive(i)  == slListener[i].at \in {"spawned", "serves", "sends", "closing"}
Listening == {i \in SStarts : slHttp[i] = "listening"}

ServerInit ==
    /\ slRunning = FALSE /\ slRegister = TRUE /\ slServer = 0 /\ slErr = 0
    /\ slStarts = 0 /\ slStart = [i \in SStarts |-> "none"]
    /\ slHub = [i \in SStarts |-> "none"]
    /\ slHttp = [i \in SStarts |-> "none"]
    /\ slListener = [i \in SStarts |-> [at |-> "none", serves |-> 0]]
    /\ slErrFull = [i \in SStarts |-> FALSE]
    /\ slErrClosed = [i \in SStarts |-> FALSE]
    /\ slStop = "idle" /\ slConn = "none"
    /\ slTaken \in BOOLEAN
    /\ slShut = FALSE /\ slEarly = FALSE /\ slPanic = "none"

(***************************************************************************)
(* Start, step by step.                                                    *)
(***************************************************************************)
StartEnters ==
    /\ ~slRunning /\ slStarts < MaxServerStarts
    /\ slRunning' = TRUE
    /\ slStarts' = slStarts + 1
    /\ slStart' = [slStart EXCEPT ![slStarts + 1] = "hub"]
    /\ slEarly' = (slEarly \/ slStop # "idle"
                  \/ \E i \in SStarts : Under(i) \/ Alive(i))
    /\ UNCHANGED <<slRegister, slServer, slErr, slHub, slHttp, slListener,
                   slErrChans, slStop, slConn, slShut, slPanic>>

StartSpawnsHub(i) ==
    /\ slStart[i] = "hub"
    /\ slStart' = [slStart EXCEPT ![i] = "server"]
    /\ slHub' = [slHub EXCEPT ![i] = "waits"]
    /\ UNCHANGED <<slRunning, slRegister, slServer, slErr, slStarts, slHttp,
                   slListener, slErrChans, slStop, slConn, slShut, slEarly, slPanic>>

StartMakesServer(i) ==
    /\ slStart[i] = "server"
    /\ slStart' = [slStart EXCEPT ![i] = "listen"]
    /\ slServer' = i
    /\ slHttp' = [slHttp EXCEPT ![i] = "made"]
    /\ UNCHANGED <<slRunning, slRegister, slErr, slStarts, slHub, slListener,
                   slErrChans, slStop, slConn, slShut, slEarly, slPanic>>

StartSpawnsListener(i) ==
    /\ slStart[i] = "listen"
    /\ slStart' = [slStart EXCEPT ![i] = "probe"]
    /\ slErr' = i
    /\ slListener' = [slListener EXCEPT ![i] = [at |-> "spawned", serves |-> 0]]
    /\ UNCHANGED <<slRunning, slRegister, slServer, slStarts, slHub, slHttp,
                   slErrChans, slStop, slConn, slShut, slEarly, slPanic>>

\* The probe reaches whoever listens on the address, another program too: it
\* races with the error of the listener.
ProbeReaches(i) ==
    /\ slStart[i] = "probe" /\ (Listening # {} \/ slTaken)
    /\ slStart' = [slStart EXCEPT ![i] = "ok"]
    /\ UNCHANGED <<slRunning, slRegister, slServer, slErr, slStarts, slHub, slHttp,
                   slListener, slErrChans, slStop, slConn, slShut, slEarly, slPanic>>

\* Mutant: running is taken back, hub and listener stay.
ProbeTimesOutResets(i) ==
    /\ slStart[i] = "probe"
    /\ slStart' = [slStart EXCEPT ![i] = "timeout"]
    /\ slRunning' = FALSE
    /\ UNCHANGED <<slRegister, slServer, slErr, slStarts, slHub, slHttp,
                   slListener, slErrChans, slStop, slConn, slShut, slEarly, slPanic>>

\* Two seconds are over: an error, and running stays as it is.
ProbeTimesOut(i) ==
    /\ slStart[i] = "probe"
    /\ slStart' = [slStart EXCEPT ![i] = "timeout"]
    /\ UNCHANGED <<slRunning, slRegister, slServer, slErr, slStarts, slHub, slHttp,
                   slListener, slErrChans, slStop, slConn, slShut, slEarly, slPanic>>

\* The select reads the field: after another Start that one's channel.  It
\* takes the error the channel holds; a closed channel counts as one too.
StartRefused(i) ==
    /\ slStart[i] = "probe" /\ (slErrFull[slErr] \/ slErrClosed[slErr])
    /\ slStart' = [slStart EXCEPT ![i] = "failed"]
    /\ slErrFull' = [slErrFull EXCEPT ![slErr] = FALSE]
    /\ slRunning' = FALSE
    /\ UNCHANGED <<slRegister, slServer, slErr, slStarts, slHub, slHttp, slListener,
                   slErrClosed, slStop, slConn, slShut, slEarly, slPanic>>

(***************************************************************************)
(* The listener goroutine: s.server.ListenAndServe(), the send of its error*)
(* on s.startErr, close(s.startErr); each reads the field when it is used, *)
(* and Start can take the error, and be called again, before the close.    *)
(***************************************************************************)
ListenerListens(i) ==
    /\ slListener[i].at = "spawned"
    /\ slHttp[slServer] = "made" /\ Listening = {} /\ ~slTaken
    /\ slHttp' = [slHttp EXCEPT ![slServer] = "listening"]
    /\ slListener' = [slListener EXCEPT ![i] = [at |-> "serves", serves |-> slServer]]
    /\ UNCHANGED <<slRunning, slRegister, slServer, slErr, slStarts, slStart, slHub,
                   slErrChans, slStop, slConn, slShut, slEarly, slPanic>>

\* The address cannot be had.
ListenerRefused(i) ==
    /\ slListener[i].at = "spawned" /\ slHttp[slServer] # "closed"
    /\ slListener' = [slListener EXCEPT ![i].at = "sends"]
    /\ UNCHANGED <<slRunning, slRegister, slServer, slErr, slStarts, slStart, slHub,
                   slHttp, slErrChans, slStop, slConn, slShut, slEarly, slPanic>>

\* A send on a closed channel panics; a channel that is full keeps its error.
ListenerSends(i) ==
    /\ slListener[i].at = "sends"
    /\ slListener' = [slListener EXCEPT ![i].at = "closing"]
    /\ slErrFull' = [slErrFull EXCEPT ![slErr] = @ \/ ~slErrClosed[slErr]]
    /\ slPanic' = IF slErrClosed[slErr] THEN "send on startErr" ELSE slPanic
    /\ UNCHANGED <<slRunning, slRegister, slServer, slErr, slStarts, slStart, slHub,
                   slHttp, slErrClosed, slStop, slConn, slShut, slEarly>>

\* ErrServerClosed, before it listened or after: nothing is sent.
ListenerShut(i) ==
    /\ \/ slListener[i].at = "spawned" /\ slHttp[slServer] = "closed"
       \/ slListener[i].at = "serves" /\ slHttp[slListener[i].serves] = "closed"
    /\ slListener' = [slListener EXCEPT ![i].at = "closing"]
    /\ UNCHANGED <<slRunning, slRegister, slServer, slErr, slStarts, slStart, slHub,
                   slHttp, slErrChans, slStop, slConn, slShut, slEarly, slPanic>>

ListenerCloses(i) ==
    /\ slListener[i].at = "closing"
    /\ slListener' = [slListener EXCEPT ![i].at = "done"]
    /\ slErrClosed' = [slErrClosed EXCEPT ![slErr] = TRUE]
    /\ slPanic' = IF slErrClosed[slErr] THEN "close of startErr" ELSE slPanic
    /\ UNCHANGED <<slRunning, slRegister, slServer, slErr, slStarts, slStart, slHub,
                   slHttp, slErrFull, slStop, slConn, slShut, slEarly>>

(***************************************************************************)
(* Shutdown, and the part of handleWS and hubLoop that it meets.           *)
(***************************************************************************)
StopEnters ==
    /\ slStop = "idle" /\ slRunning
    /\ slRunning' = FALSE /\ slStop' = "register" /\ slShut' = TRUE
    /\ slEarly' = (slEarly \/ \E i \in SStarts : slStart[i] \in {"hub", "server"})
    /\ UNCHANGED <<slRegister, slServer, slErr, slStarts, slStart, slHub, slHttp,
                   slListener, slErrChans, slConn, slPanic>>

StopClosesRegister ==
    /\ slStop = "register"
    /\ slStop' = "server" /\ slRegister' = FALSE
    /\ slPanic' = IF slRegister THEN slPanic ELSE "close of register"
    /\ UNCHANGED <<slRunning, slServer, slErr, slStarts, slStart, slHub, slHttp,
                   slListener, slErrChans, slConn, slShut, slEarly>>

\* Mutant: a server that does not listen yet is not told.
StopClosesListening ==
    /\ slStop = "server"
    /\ slStop' = "idle"
    /\ slHttp' = [i \in SStarts |-> IF i \in {slServer} \cap Listening THEN "closed" ELSE slHttp[i]]
    /\ UNCHANGED <<slRunning, slRegister, slServer, slErr, slStarts, slStart, slHub,
                   slListener, slErrChans, slConn, slShut, slEarly, slPanic>>

\* http.Server.Shutdown closes the listeners first.  How long it then waits
\* for connections that are idle makes no difference here.
StopClosesServer ==
    /\ slStop = "server"
    /\ slStop' = "idle"
    /\ slHttp' = [i \in SStarts |-> IF i = slServer THEN "closed" ELSE slHttp[i]]
    /\ UNCHANGED <<slRunning, slRegister, slServer, slErr, slStarts, slStart, slHub,
                   slListener, slErrChans, slConn, slShut, slEarly, slPanic>>

\* handleWS has upgraded the connection and sends it to the hub.  On a closed
\* channel that panics, and net/http recovers a handler.
ConnArrives ==
    /\ slConn = "none" /\ Listening # {}
    /\ slConn' = "registers"
    /\ UNCHANGED <<slRunning, slRegister, slServer, slErr, slStarts, slStart, slHub,
                   slHttp, slListener, slErrChans, slStop, slShut, slEarly, slPanic>>

ConnPanics ==
    /\ slConn = "registers" /\ ~slRegister
    /\ slConn' = "none"
    /\ UNCHANGED <<slRunning, slRegister, slServer, slErr, slStarts, slStart, slHub,
                   slHttp, slListener, slErrChans, slStop, slShut, slEarly, slPanic>>

\* The hub lists the connection, or finds running false and returns.
HubReceives(i) ==
    /\ slHub[i] = "waits" /\ slConn = "registers" /\ slRegister
    /\ slConn' = "none"
    /\ slHub' = [slHub EXCEPT ![i] = IF slRunning THEN "waits" ELSE "done"]
    /\ UNCHANGED <<slRunning, slRegister, slServer, slErr, slStarts, slStart, slHttp,
                   slListener, slErrChans, slStop, slShut, slEarly, slPanic>>

HubEnds(i) ==
    /\ slHub[i] = "waits" /\ ~slRegister
    /\ slHub' = [slHub EXCEPT ![i] = "done"]
    /\ UNCHANGED <<slRunning, slRegister, slServer, slErr, slStarts, slStart, slHttp,
                   slListener, slErrChans, slStop, slConn, slShut, slEarly, slPanic>>

StartStep(i) ==
    \/ StartSpawnsHub(i) \/ StartMakesServer(i) \/ StartSpawnsListener(i)
    \/ ProbeReaches(i) \/ ProbeTimesOut(i) \/ StartRefused(i)
    \/ ListenerListens(i) \/ ListenerRefused(i) \/ ListenerSends(i)
    \/ ListenerShut(i) \/ ListenerCloses(i)
    \/ HubReceives(i) \/ HubEnds(i)

ServerNext ==
    /\ slPanic = "none" /\ UNCHANGED slTaken
    /\ \/ StartEnters \/ StopEnters \/ StopClosesRegister \/ StopClosesServer
       \/ ConnArrives \/ ConnPanics
       \/ \E i \in SStarts : StartStep(i)

ServerSpec == ServerInit /\ [][ServerNext]_slVars

-----------------------------------------------------------------------------
ServerTypeOK ==
    /\ slRunning \in BOOLEAN /\ slRegister \in BOOLEAN /\ slShut \in BOOLEAN
    /\ slEarly \in BOOLEAN /\ slTaken \in BOOLEAN
    /\ slServer \in 0 .. MaxServerStarts /\ slErr \in 0 .. MaxServerStarts
    /\ slStarts \in 0 .. MaxServerStarts
    /\ slStart \in [SStarts -> {"none", "hub", "server", "listen", "probe",
                                "ok", "timeout", "failed"}]
    /\ slHub \in [SStarts -> {"none", "waits", "done"}]
    /\ slHttp \in [SStarts -> {"none", "made", "listening", "closed"}]
    /\ slListener \in [SStarts -> [at : {"none", "spawned", "serves", "sends",
                                         "closing", "done"},
                                   serves : 0 .. MaxServerStarts]]
    /\ slErrFull \in [SStarts -> BOOLEAN] /\ slErrClosed \in [SStarts -> BOOLEAN]
    /\ slStop \in {"idle", "register", "server"}
    /\ slConn \in {"none", "registers"}
    /\ slPanic \in {"none", "send on startErr", "close of startErr", "close of register"}

(***************************************************************************)
(* A server that does not run, and in which no Start and no Shutdown is    *)
(* under way, listens nowhere: Shutdown has closed the listener of the     *)
(* last Start, even one whose probe timed out or that had not begun to     *)
(* listen yet, and a failed Start has left none.  It does not cover a      *)
(* Shutdown that overtakes a Start before Server.server is set, nor a      *)
(* Start while the listener goroutine of the last one is still ending:     *)
(* that one then closes the new Start's startErr.                          *)
(***************************************************************************)
StopsListening ==
    ~slRunning /\ slStop = "idle" /\ slPanic = "none" /\ ~slEarly /\ (\A i \in SStarts : ~Under(i))
      => Listening = {}

(***************************************************************************)
(* Until the first Shutdown a connection that handleWS sends to the hub    *)
(* finds one that lists it: neither a failed Start nor the hub it leaves   *)
(* behind takes it away.  It does not cover a Start that is tried again    *)
(* before the listener goroutine of the failed one has closed its startErr:*)
(* the close then hits the new channel, and the new Start takes running    *)
(* back while its server listens.                                          *)
(***************************************************************************)
HubServesRunning ==
    slConn = "registers" /\ ~slShut /\ ~slEarly =>
      slRunning /\ slRegister /\ \E i \in SStarts : slHub[i] = "waits"
=============================================================================
