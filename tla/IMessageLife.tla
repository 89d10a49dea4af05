---------------------------- MODULE IMessageLife ----------------------------
(***************************************************************************)
(* The iMessage channel and the imsg client under it.  Both close a stop   *)
(* channel that NewChannel and NewClient made and that no Start makes      *)
(* again.  The client serves only sending: ListChats, Watch and the others *)
(* return ErrNotSupported, so that Start finds no chats, its watchers      *)
(* return at once, and what is left of a run is the pair of flags.         *)
(***************************************************************************)
EXTENDS Naturals

CONSTANT MaxCalls   \* bound: calls of Start and of Stop

ASSUME IMessageBounds == MaxCalls \in Nat \ {0}

VARIABLES
    imStatus,   \* BaseChannel.status
    imHandler,  \* Channel.msgHandler is set
    imStopCh,   \* Channel.stopCh is open
    imClient,   \* Client.running
    imClientCh, \* Client.stopCh is open
    imWatch,    \* watchAllChats is running (counted by wg)
    imStart,    \* Start: nothing, or the step it is about to make
    imStop,     \* Stop: likewise
    imCalls,    \* calls so far
    imOverlap,  \* history: a Start and a Stop overlapped
    imPanic     \* a channel was closed twice: the program is gone

imVars == <<imStatus, imHandler, imStopCh, imClient, imClientCh, imWatch,
            imStart, imStop, imCalls, imOverlap, imPanic>>

IMessageInit ==
    /\ imStatus = "stopped" /\ imHandler = FALSE
    /\ imStopCh = TRUE /\ imClient = FALSE /\ imClientCh = TRUE
    /\ imWatch = FALSE /\ imStart = "idle" /\ imStop = "idle"
    /\ imCalls = 0 /\ imOverlap = FALSE /\ imPanic = FALSE

\* No test of the status: a running channel may be started again.
IMessageStarts ==
    /\ imStart = "idle" /\ imCalls < MaxCalls
    /\ imCalls' = imCalls + 1
    /\ imStart' = "client" /\ imHandler' = TRUE
    /\ imOverlap' = (imOverlap \/ imStop # "idle")
    /\ UNCHANGED <<imStatus, imStopCh, imClient, imClientCh, imWatch, imStop, imPanic>>

\* Client.Start holds its lock throughout: Messages.app is launched, twenty
\* looks half a second apart, a script to test the permission.  It does
\* nothing for a client that runs.
ClientStarts ==
    /\ imStart = "client"
    /\ imStart' = "watch" /\ imClient' = TRUE
    /\ UNCHANGED <<imStatus, imHandler, imStopCh, imClientCh, imWatch, imStop,
                   imCalls, imOverlap, imPanic>>

\* Mutant: the error of the client is not looked at.
ClientRefusesUnnoticed ==
    /\ imStart = "client" /\ ~imClient
    /\ imStart' = "watch"
    /\ UNCHANGED <<imStatus, imHandler, imStopCh, imClient, imClientCh, imWatch,
                   imStop, imCalls, imOverlap, imPanic>>

\* Start returns the error and leaves msgHandler set.
ClientRefuses ==
    /\ imStart = "client" /\ ~imClient
    /\ imStart' = "idle"
    /\ UNCHANGED <<imStatus, imHandler, imStopCh, imClient, imClientCh, imWatch,
                   imStop, imCalls, imOverlap, imPanic>>

\* loadChats is refused and that is tolerated; WatchAllChats or not.
StartWatches ==
    /\ imStart = "watch"
    /\ imStart' = "status" /\ imWatch' \in {imWatch, TRUE}
    /\ UNCHANGED <<imStatus, imHandler, imStopCh, imClient, imClientCh, imStop,
                   imCalls, imOverlap, imPanic>>

IMessageRuns ==
    /\ imStart = "status"
    /\ imStart' = "idle" /\ imStatus' = "running"
    /\ UNCHANGED <<imHandler, imStopCh, imClient, imClientCh, imWatch, imStop,
                   imCalls, imOverlap, imPanic>>

\* No chats, hence no watchChat to start.
WatcherEnds ==
    /\ imWatch /\ imWatch' = FALSE
    /\ UNCHANGED <<imStatus, imHandler, imStopCh, imClient, imClientCh, imStart,
                   imStop, imCalls, imOverlap, imPanic>>

\* close(c.stopCh), without a guard.
IMessageStops ==
    /\ imStop = "idle" /\ imCalls < MaxCalls
    /\ imCalls' = imCalls + 1
    /\ imPanic' = ~imStopCh /\ imStopCh' = FALSE
    /\ imStop' = "waits"
    /\ imOverlap' = (imOverlap \/ imStart # "idle")
    /\ UNCHANGED <<imStatus, imHandler, imClient, imClientCh, imWatch, imStart>>

\* The watchers are gone, or the caller's context is.  The client closes its
\* own stop channel if it runs.
ClientStops ==
    /\ imStop = "waits"
    /\ imStop' = "status" /\ imClient' = FALSE
    /\ imPanic' = (imClient /\ ~imClientCh)
    /\ imClientCh' = (imClientCh /\ ~imClient)
    /\ UNCHANGED <<imStatus, imHandler, imStopCh, imWatch, imStart, imCalls, imOverlap>>

StopEnds ==
    /\ imStop = "status"
    /\ imStop' = "idle" /\ imStatus' = "stopped" /\ imHandler' = FALSE
    /\ UNCHANGED <<imStopCh, imClient, imClientCh, imWatch, imStart, imCalls,
                   imOverlap, imPanic>>

IMessageNext ==
    /\ ~imPanic
    /\ \/ IMessageStarts \/ ClientStarts \/ ClientRefuses \/ StartWatches
       \/ IMessageRuns \/ WatcherEnds \/ IMessageStops \/ ClientStops \/ StopEnds

IMessageSpec == IMessageInit /\ [][IMessageNext]_imVars

-----------------------------------------------------------------------------
IMessageTypeOK ==
    /\ imStatus \in {"stopped", "running"}
    /\ {imHandler, imStopCh, imClient, imClientCh, imWatch, imOverlap, imPanic}
         \subseteq BOOLEAN
    /\ imStart \in {"idle", "client", "watch", "status"}
    /\ imStop \in {"idle", "waits", "status"}
    /\ imCalls \in 0 .. MaxCalls

(***************************************************************************)
(* A channel that reports itself running has a client that sends and a     *)
(* handler, whatever failed in between.  A Start that overlaps a Stop      *)
(* voids this: it finds the client still running, and Stop then stops it.  *)
(***************************************************************************)
RunningHasClient ==
    imStatus = "running" /\ imStop = "idle" /\ ~imOverlap => imClient /\ imHandler
=============================================================================
