------------------------------ MODULE AuthGate ------------------------------
(***************************************************************************)
(* First-message authentication of one connection: the decision at the     *)
(* handshake, the timer that closes a connection still pending, and the    *)
(* first message, which readPump gives to the message authenticator while  *)
(* the timer runs.  A frame holds several lines, each a message of its     *)
(* own; the rest of a frame is gone through whatever became of the         *)
(* connection meanwhile.                                                   *)
(***************************************************************************)
EXTENDS Naturals, Sequences

CONSTANTS
    MaxFrames,   \* bound: frames the peer sends
    MaxLines     \* bound: lines in a frame

ASSUME AuthBounds == {MaxFrames, MaxLines} \subseteq Nat \ {0}

VARIABLES
    agHooks,    \* the options: authenticator, msgAuthenticator, msgAuthTimeout > 0
    agConn,     \* the WebSocket, seen from the server
    agPending,  \* client.pendingAuth
    agTimer,    \* client.authTimer
    agPump,     \* handleWS or readPump: what it is about to do
    agFrame,    \* lines of the frame in hand still to be dispatched
    agSent,     \* frames the peer has sent
    agPassed,   \* history: the handshake or a message was accepted
    agLate,     \* history: the timer had fired when the message was accepted
    agTimedOut, \* history: the timer closed the connection
    agServed    \* history: a line went to the regular dispatch

agVars == <<agHooks, agConn, agPending, agTimer, agPump, agFrame, agSent,
            agPassed, agLate, agTimedOut, agServed>>

\* What the message authenticator makes of a line; any other line is one of
\* the protocol.
Lines == {"good", "bad"}

AuthInit ==
    /\ agHooks \in [handshake : {"none", "accepts", "refuses"},
                    message : BOOLEAN, timeout : BOOLEAN]
    /\ agConn = "none" /\ agPending = FALSE /\ agTimer = "none"
    /\ agPump = "handshake" /\ agFrame = <<>> /\ agSent = 0
    /\ agPassed = FALSE /\ agLate = FALSE /\ agTimedOut = FALSE /\ agServed = FALSE

\* 401, no upgrade.
HandshakeRefused ==
    /\ agPump = "handshake"
    /\ agHooks.handshake = "refuses" /\ ~agHooks.message
    /\ agPump' = "refused"
    /\ UNCHANGED <<agHooks, agConn, agPending, agTimer, agFrame, agSent,
                   agPassed, agLate, agTimedOut, agServed>>

\* The timer is armed before the connection goes to the hub.
Upgraded ==
    /\ agPump = "handshake"
    /\ agHooks.handshake = "refuses" => agHooks.message
    /\ agPump' = "register" /\ agConn' = "open"
    /\ agPending' = (agHooks.handshake = "refuses")
    /\ agPassed' = (agHooks.handshake # "refuses")
    /\ agTimer' = IF agPending' /\ agHooks.timeout THEN "armed" ELSE "none"
    /\ UNCHANGED <<agHooks, agFrame, agSent, agLate, agTimedOut, agServed>>

\* The hub may never come; handleWS then waits or panics, and nobody reads.
Registered ==
    /\ agPump = "register" /\ agPump' = "reads"
    /\ UNCHANGED <<agHooks, agConn, agPending, agTimer, agFrame, agSent,
                   agPassed, agLate, agTimedOut, agServed>>

Frames == UNION {[1 .. n -> Lines] : n \in 1 .. MaxLines}

FrameArrives ==
    /\ agPump = "reads" /\ agConn = "open" /\ agSent < MaxFrames
    /\ agSent' = agSent + 1 /\ agPump' = "dispatches"
    /\ \E f \in Frames : agFrame' = f
    /\ UNCHANGED <<agHooks, agConn, agPending, agTimer, agPassed, agLate,
                   agTimedOut, agServed>>

\* ReadMessage fails: the connection was closed here, or the peer is gone or
\* silent for too long.
ReadEnds ==
    /\ agPump = "reads"
    /\ agPump' = "ended" /\ agConn' = "closed"
    /\ UNCHANGED <<agHooks, agPending, agTimer, agFrame, agSent, agPassed, agLate,
                   agTimedOut, agServed>>

FrameDone ==
    /\ agPump = "dispatches" /\ agFrame = <<>>
    /\ agPump' = "reads"
    /\ UNCHANGED <<agHooks, agConn, agPending, agTimer, agFrame, agSent, agPassed,
                   agLate, agTimedOut, agServed>>

(***************************************************************************)
(* dispatchMessage.                                                        *)
(***************************************************************************)
\* pendingAuth goes first, the timer is stopped next: it may have fired.
MessageAccepted ==
    /\ agPump = "dispatches" /\ agFrame # <<>>
    /\ agPending /\ Head(agFrame) = "good"
    /\ agPending' = FALSE /\ agPassed' = TRUE
    /\ agPump' = "stops"
    /\ UNCHANGED <<agHooks, agConn, agTimer, agFrame, agSent, agLate, agTimedOut,
                   agServed>>

\* Mutant: the timer is not stopped.
TimerForgotten ==
    /\ agPump = "stops"
    /\ agLate' = (agTimer \in {"fired", "done"})
    /\ agPump' = "dispatches" /\ agFrame' = Tail(agFrame)
    /\ UNCHANGED <<agHooks, agTimer, agConn, agPending, agSent, agPassed, agTimedOut, agServed>>

TimerStopped ==
    /\ agPump = "stops"
    /\ agTimer' = IF agTimer = "armed" THEN "stopped" ELSE agTimer
    /\ agLate' = (agTimer \in {"fired", "done"})
    /\ agPump' = "dispatches" /\ agFrame' = Tail(agFrame)
    /\ UNCHANGED <<agHooks, agConn, agPending, agSent, agPassed, agTimedOut, agServed>>

\* Mutant: the timer is stopped, the connection stays open.
MessageRefusedOpen ==
    /\ agPump = "dispatches" /\ agFrame # <<>>
    /\ agPending /\ Head(agFrame) # "good"
    /\ agTimer' = "stopped" /\ agFrame' = Tail(agFrame)
    /\ UNCHANGED <<agHooks, agConn, agPending, agPump, agSent, agPassed, agLate,
                   agTimedOut, agServed>>

\* The error goes into the send channel, the connection is closed at once,
\* and pendingAuth stays: the next line of the frame is tried as well.
MessageRefused ==
    /\ agPump = "dispatches" /\ agFrame # <<>>
    /\ agPending /\ Head(agFrame) # "good"
    /\ agConn' = "closed" /\ agFrame' = Tail(agFrame)
    /\ UNCHANGED <<agHooks, agPending, agTimer, agPump, agSent, agPassed, agLate,
                   agTimedOut, agServed>>

MessageDispatched ==
    /\ agPump = "dispatches" /\ agFrame # <<>> /\ ~agPending
    /\ agServed' = TRUE /\ agFrame' = Tail(agFrame)
    /\ UNCHANGED <<agHooks, agConn, agPending, agTimer, agPump, agSent, agPassed,
                   agLate, agTimedOut>>

(***************************************************************************)
(* The timer runs out, and then its goroutine closes the connection.       *)
(***************************************************************************)
TimerFires ==
    /\ agTimer = "armed" /\ agTimer' = "fired"
    /\ UNCHANGED <<agHooks, agConn, agPending, agPump, agFrame, agSent, agPassed,
                   agLate, agTimedOut, agServed>>

TimerCloses ==
    /\ agTimer = "fired" /\ agTimer' = "done"
    /\ agTimedOut' = (agConn = "open") /\ agConn' = "closed"
    /\ UNCHANGED <<agHooks, agPending, agPump, agFrame, agSent, agPassed, agLate,
                   agServed>>

AuthNext ==
    \/ HandshakeRefused \/ Upgraded \/ Registered \/ FrameArrives \/ ReadEnds
    \/ FrameDone \/ MessageAccepted \/ TimerStopped \/ MessageRefused
    \/ MessageDispatched \/ TimerFires \/ TimerCloses

\* The runtime runs a timer and the goroutine it starts.
AuthFairness == WF_agVars(TimerFires) /\ WF_agVars(TimerCloses)

AuthSpec == AuthInit /\ [][AuthNext]_agVars /\ AuthFairness

-----------------------------------------------------------------------------
AuthTypeOK ==
    /\ agHooks \in [handshake : {"none", "accepts", "refuses"},
                    message : BOOLEAN, timeout : BOOLEAN]
    /\ agConn \in {"none", "open", "closed"}
    /\ agTimer \in {"none", "armed", "fired", "stopped", "done"}
    /\ agPump \in {"handshake", "refused", "register", "reads", "dispatches",
                   "stops", "ended"}
    /\ agFrame \in Seq(Lines) /\ Len(agFrame) <= MaxLines
    /\ agSent \in 0 .. MaxFrames
    /\ {agPending, agPassed, agLate, agTimedOut, agServed} \subseteq BOOLEAN

(***************************************************************************)
(* No line reaches the methods before the handshake or an earlier line was *)
(* accepted; and an accepted connection is closed by the timer only if the *)
(* timer had run out by the time it was to be stopped.                     *)
(***************************************************************************)
GateHolds ==
    /\ agServed => agPassed
    /\ agPassed /\ agPump # "stops" /\ agTimedOut => agLate

(***************************************************************************)
(* With a timeout configured a pending connection does not stay: whatever  *)
(* the peer sends or fails to send, and even if no hub ever takes the      *)
(* connection, it is accepted or closed.                                   *)
(***************************************************************************)
PendingResolves ==
    (agConn = "open" /\ agPending /\ agHooks.timeout) ~> (agConn = "closed" \/ ~agPending)
=============================================================================
