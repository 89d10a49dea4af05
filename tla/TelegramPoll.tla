---------------------------- MODULE TelegramPoll ----------------------------
(***************************************************************************)
(* The Telegram channel: Start, Stop and pollUpdates.                      *)
(*                                                                         *)
(* Telegram keeps an update until a getUpdates comes with an offset above  *)
(* it.  The poller keeps the offset in a local variable, so a new poller   *)
(* starts from what is not confirmed yet.  An answer that does not decode  *)
(* is asked for again.  A poller's context is a child of the one its Start *)
(* was given, which the caller may end.  Handlers run in goroutines of   *)
(* their own.  With a webhook configured there is no poller; Telegram then *)
(* pushes, and Start and Stop set and delete the webhook.                  *)
(***************************************************************************)
EXTENDS Naturals, FiniteSets, SequencesExt

CONSTANTS
    MaxUpdates,    \* bound: updates that users cause
    Unparsable,    \* those parseUpdate refuses ("no message in update")
    MaxPollers     \* bound: calls of Start that spawn a poller

ASSUME TelegramBounds ==
    /\ MaxUpdates \in Nat /\ Unparsable \subseteq 1 .. MaxUpdates
    /\ MaxPollers \in Nat \ {0}

VARIABLES
    tgHook,     \* a WebhookURL is configured; is the webhook set?
    tgStatus,   \* BaseChannel.status
    tgHandler,  \* BaseChannel.handler is set; Stop leaves it
    tgStarted,  \* pollers so far; the last one's context is Channel.cancel
    tgStart,    \* per poller: the Start that made it
    tgPoller,   \* per poller: what pollUpdates is doing
    tgCtx,      \* per poller: its context is alive
    tgOffset,   \* per poller: offset
    tgBatch,    \* per poller: updatesResp.Result still to go through
    tgStop,     \* Stop: nothing, or waiting for the pollers
    tgSent,     \* updates caused so far, 1 .. tgSent
    tgQueue,    \* those Telegram keeps
    tgBad,      \* those json.Unmarshal refuses, and with them the whole answer
    tgGiven,    \* per update: how often a handler was started for it
    tgNoHandler,\* history: updates met before a handler was set
    tgGone,     \* history: the pollers whose caller's context has ended
    tgOverlap   \* history: Starts, or a Start and a Stop, overlapped

tgVars == <<tgHook, tgStatus, tgHandler, tgStarted, tgStart, tgPoller, tgCtx,
            tgOffset, tgBatch, tgStop, tgSent, tgQueue, tgBad, tgGiven, tgNoHandler,
            tgGone, tgOverlap>>

Updates == 1 .. MaxUpdates
Pollers == 1 .. MaxPollers
Starting == \E p \in Pollers : tgStart[p] \in {"spawned", "handler"}
Polling(p) == tgPoller[p] \notin {"none", "done"}

TelegramInit ==
    /\ tgHook \in {"unused", "unset"}
    /\ tgStatus = "stopped" /\ tgHandler = FALSE /\ tgStarted = 0
    /\ tgStart = [p \in Pollers |-> "none"]
    /\ tgPoller = [p \in Pollers |-> "none"]
    /\ tgCtx = [p \in Pollers |-> TRUE]
    /\ tgOffset = [p \in Pollers |-> 0]
    /\ tgBatch = [p \in Pollers |-> <<>>]
    /\ tgStop = "idle" /\ tgSent = 0 /\ tgQueue = {} /\ tgBad = {}
    /\ tgGiven = [u \in Updates |-> 0]
    /\ tgNoHandler = {} /\ tgGone = {} /\ tgOverlap = FALSE

(***************************************************************************)
(* Start and Stop.                                                         *)
(***************************************************************************)
\* Webhook mode: setWebhook may fail, and then nothing has changed.
StartHook ==
    /\ tgHook # "unused" /\ tgStatus # "running"
    /\ tgHook' = "set" /\ tgHandler' = TRUE /\ tgStatus' = "running"
    /\ UNCHANGED <<tgStarted, tgStart, tgPoller, tgCtx, tgOffset, tgBatch, tgStop,
                   tgSent, tgQueue, tgBad, tgGiven, tgNoHandler,
                   tgGone, tgOverlap>>

\* The error of deleteWebhook is not looked at.
StopHook ==
    /\ tgHook = "set" /\ tgStatus = "running"
    /\ tgHook' \in {"set", "unset"} /\ tgStatus' = "stopped"
    /\ UNCHANGED <<tgHandler, tgStarted, tgStart, tgPoller, tgCtx, tgOffset,
                   tgBatch, tgStop, tgSent, tgQueue, tgBad, tgGiven, tgNoHandler,
                   tgGone, tgOverlap>>

TelegramStarts ==
    /\ tgHook = "unused" /\ tgStatus # "running"
    /\ tgStarted + 1 \in Pollers
    /\ LET p == tgStarted + 1 IN
         /\ tgStarted' = p
         /\ tgStart' = [tgStart EXCEPT ![p] = "spawned"]
         /\ tgPoller' = [tgPoller EXCEPT ![p] = "loop"]
    /\ tgOverlap' = (tgOverlap \/ Starting \/ tgStop # "idle")
    /\ UNCHANGED <<tgHook, tgStatus, tgHandler, tgCtx, tgOffset, tgBatch, tgStop,
                   tgSent, tgQueue, tgBad, tgGiven, tgNoHandler, tgGone>>

StartSetsHandler(p) ==
    /\ tgStart[p] = "spawned"
    /\ tgStart' = [tgStart EXCEPT ![p] = "handler"]
    /\ tgHandler' = TRUE
    /\ UNCHANGED <<tgHook, tgStatus, tgStarted, tgPoller, tgCtx, tgOffset, tgBatch,
                   tgStop, tgSent, tgQueue, tgBad, tgGiven, tgNoHandler,
                   tgGone, tgOverlap>>

TelegramRuns(p) ==
    /\ tgStart[p] = "handler"
    /\ tgStart' = [tgStart EXCEPT ![p] = "done"]
    /\ tgStatus' = "running"
    /\ UNCHANGED <<tgHook, tgHandler, tgStarted, tgPoller, tgCtx, tgOffset, tgBatch,
                   tgStop, tgSent, tgQueue, tgBad, tgGiven, tgNoHandler,
                   tgGone, tgOverlap>>

TelegramStops ==
    /\ tgHook = "unused" /\ tgStatus = "running" /\ tgStop = "idle"
    /\ tgCtx' = [tgCtx EXCEPT ![tgStarted] = FALSE]
    /\ tgStop' = "waits"
    /\ tgOverlap' = (tgOverlap \/ Starting)
    /\ UNCHANGED <<tgHook, tgStatus, tgHandler, tgStarted, tgStart, tgPoller,
                   tgOffset, tgBatch, tgSent, tgQueue, tgBad, tgGiven, tgNoHandler, tgGone>>

\* wg.Wait() returns when every poller has, whoever started it.
StopWaited ==
    /\ tgStop = "waits" /\ \A p \in Pollers : ~Polling(p)
    /\ tgStop' = "idle" /\ tgStatus' = "stopped"
    /\ UNCHANGED <<tgHook, tgHandler, tgStarted, tgStart, tgPoller, tgCtx, tgOffset,
                   tgBatch, tgSent, tgQueue, tgBad, tgGiven, tgNoHandler,
                   tgGone, tgOverlap>>

\* The context the caller gave to Start is cancelled or times out: the poller
\* leaves at the head of its loop, and the status stays as it is.
CallerLeaves(p) ==
    /\ Polling(p) /\ tgCtx[p]
    /\ tgCtx' = [tgCtx EXCEPT ![p] = FALSE]
    /\ tgGone' = tgGone \cup {p}
    /\ UNCHANGED <<tgHook, tgStatus, tgHandler, tgStarted, tgStart, tgPoller,
                   tgOffset, tgBatch, tgStop, tgSent, tgQueue, tgBad, tgGiven,
                   tgNoHandler, tgOverlap>>

(***************************************************************************)
(* pollUpdates.                                                            *)
(***************************************************************************)
PollAsks(p) ==
    /\ tgPoller[p] = "loop"
    /\ tgPoller' = [tgPoller EXCEPT ![p] = IF tgCtx[p] THEN "asked" ELSE "done"]
    /\ UNCHANGED <<tgHook, tgStatus, tgHandler, tgStarted, tgStart, tgCtx, tgOffset,
                   tgBatch, tgStop, tgSent, tgQueue, tgBad, tgGiven, tgNoHandler,
                   tgGone, tgOverlap>>

\* Telegram forgets what is below the offset and lists the rest in order.  One
\* update that does not decode fails the whole answer, again and again: the
\* offset stays where it is.
Kept(p) == {u \in tgQueue : u >= tgOffset[p]}
InOrder(s) == \A i, j \in DOMAIN s : i < j => s[i] < s[j]

PollAnswered(p) ==
    /\ tgPoller[p] = "asked" /\ Kept(p) \cap tgBad = {}
    /\ tgQueue' = Kept(p)
    /\ \E b \in SetToSeqs(Kept(p)) : InOrder(b) /\ tgBatch' = [tgBatch EXCEPT ![p] = b]
    /\ tgPoller' = [tgPoller EXCEPT ![p] = "batch"]
    /\ UNCHANGED <<tgHook, tgStatus, tgHandler, tgStarted, tgStart, tgCtx, tgOffset,
                   tgStop, tgSent, tgBad, tgGiven, tgNoHandler,
                   tgGone, tgOverlap>>

\* Mutant: an error ends the poller.
PollFailsForGood(p) ==
    /\ tgPoller[p] = "asked"
    /\ tgQueue' \in {tgQueue, Kept(p)}
    /\ tgPoller' = [tgPoller EXCEPT ![p] = "done"]
    /\ UNCHANGED <<tgHook, tgStatus, tgHandler, tgStarted, tgStart, tgCtx, tgOffset,
                   tgBatch, tgStop, tgSent, tgBad, tgGiven, tgNoHandler,
                   tgGone, tgOverlap>>

\* Every kind of error comes back to the head of the loop.  The request may
\* have reached Telegram or not.
PollFails(p) ==
    /\ tgPoller[p] = "asked"
    /\ tgQueue' \in {tgQueue, Kept(p)}
    /\ tgPoller' = [tgPoller EXCEPT ![p] = "loop"]
    /\ UNCHANGED <<tgHook, tgStatus, tgHandler, tgStarted, tgStart, tgCtx, tgOffset,
                   tgBatch, tgStop, tgSent, tgBad, tgGiven, tgNoHandler,
                   tgGone, tgOverlap>>

\* Mutant: the offset skips the next update.
PollHandlesAhead(p) ==
    /\ tgPoller[p] = "batch" /\ tgBatch[p] # <<>>
    /\ LET u == Head(tgBatch[p]) IN
         /\ tgOffset' = [tgOffset EXCEPT ![p] = u + 2]
         /\ IF u \notin Unparsable /\ tgHandler
              THEN tgGiven' = [tgGiven EXCEPT ![u] = @ + 1]
              ELSE UNCHANGED tgGiven
         /\ tgNoHandler' = IF u \notin Unparsable /\ ~tgHandler
                             THEN tgNoHandler \cup {u} ELSE tgNoHandler
    /\ tgBatch' = [tgBatch EXCEPT ![p] = Tail(@)]
    /\ UNCHANGED <<tgHook, tgStatus, tgHandler, tgStarted, tgStart, tgPoller, tgCtx,
                   tgStop, tgSent, tgQueue, tgBad, tgGone, tgOverlap>>

\* One round of the range over the updates; the context is not looked at.
PollHandles(p) ==
    /\ tgPoller[p] = "batch" /\ tgBatch[p] # <<>>
    /\ LET u == Head(tgBatch[p]) IN
         /\ tgOffset' = [tgOffset EXCEPT ![p] = u + 1]
         /\ IF u \notin Unparsable /\ tgHandler
              THEN tgGiven' = [tgGiven EXCEPT ![u] = @ + 1]
              ELSE UNCHANGED tgGiven
         /\ tgNoHandler' = IF u \notin Unparsable /\ ~tgHandler
                             THEN tgNoHandler \cup {u} ELSE tgNoHandler
    /\ tgBatch' = [tgBatch EXCEPT ![p] = Tail(@)]
    /\ UNCHANGED <<tgHook, tgStatus, tgHandler, tgStarted, tgStart, tgPoller, tgCtx,
                   tgStop, tgSent, tgQueue, tgBad, tgGone, tgOverlap>>

PollBatchDone(p) ==
    /\ tgPoller[p] = "batch" /\ tgBatch[p] = <<>>
    /\ tgPoller' = [tgPoller EXCEPT ![p] = "loop"]
    /\ UNCHANGED <<tgHook, tgStatus, tgHandler, tgStarted, tgStart, tgCtx, tgOffset,
                   tgBatch, tgStop, tgSent, tgQueue, tgBad, tgGiven, tgNoHandler,
                   tgGone, tgOverlap>>

\* A user writes to the bot.
UserWrites ==
    /\ tgHook = "unused" /\ tgSent < MaxUpdates
    /\ tgSent' = tgSent + 1 /\ tgQueue' = tgQueue \cup {tgSent + 1}
    /\ tgBad' \in {tgBad, tgBad \cup {tgSent + 1}}
    /\ UNCHANGED <<tgHook, tgStatus, tgHandler, tgStarted, tgStart, tgPoller, tgCtx,
                   tgOffset, tgBatch, tgStop, tgGiven, tgNoHandler,
                   tgGone, tgOverlap>>

PollStep(p) ==
    PollAsks(p) \/ PollAnswered(p) \/ PollFails(p) \/ PollHandles(p) \/ PollBatchDone(p)

TelegramNext ==
    \/ StartHook \/ StopHook \/ TelegramStarts \/ TelegramStops \/ StopWaited
    \/ UserWrites
    \/ \E p \in Pollers : StartSetsHandler(p) \/ TelegramRuns(p) \/ CallerLeaves(p)
                          \/ PollStep(p)

(***************************************************************************)
(* Goroutines run, and a request that is repeated succeeds in the end, if  *)
(* what there is to list decodes.                                          *)
(***************************************************************************)
TelegramFairness ==
    /\ WF_tgVars(StopWaited)
    /\ \A p \in Pollers :
         /\ WF_tgVars(StartSetsHandler(p) \/ TelegramRuns(p))
         /\ WF_tgVars(PollStep(p)) /\ SF_tgVars(PollAnswered(p))

TelegramSpec == TelegramInit /\ [][TelegramNext]_tgVars /\ TelegramFairness

-----------------------------------------------------------------------------
TelegramTypeOK ==
    /\ tgHook \in {"unused", "unset", "set"}
    /\ tgStatus \in {"stopped", "running"}
    /\ {tgHandler, tgOverlap} \subseteq BOOLEAN
    /\ tgStarted \in Pollers \cup {0}
    /\ tgStart \in [Pollers -> {"none", "spawned", "handler", "done"}]
    /\ tgPoller \in [Pollers -> {"none", "loop", "asked", "batch", "done"}]
    /\ tgCtx \in [Pollers -> BOOLEAN]
    /\ tgOffset \in [Pollers -> 0 .. MaxUpdates + 1]
    /\ tgBatch \in [Pollers -> Seq(Updates)]
    /\ tgStop \in {"idle", "waits"}
    /\ tgSent \in 0 .. MaxUpdates
    /\ tgQueue \subseteq Updates /\ tgBad \subseteq Updates
    /\ tgGiven \in [Updates -> Nat] /\ tgNoHandler \subseteq Updates
    /\ tgGone \subseteq Pollers

(***************************************************************************)
(* Telegram forgets an update only after a handler was started for it, or  *)
(* it could not be parsed, or it was met before the first Start had set a  *)
(* handler - whichever poller confirmed it, whatever request was lost, and *)
(* however often the channel is stopped and started.                       *)
(***************************************************************************)
ForgottenWasGiven ==
    \A u \in 1 .. tgSent :
      u \notin tgQueue => \/ tgGiven[u] > 0
                          \/ u \in Unparsable \cup tgNoHandler

(***************************************************************************)
(* While the channel runs, an update reaches a handler even if requests    *)
(* fail again and again, unless it is one of those that are dropped.  Two  *)
(* things stop a running channel from listening: the end of the context    *)
(* the last Start was given (of any, when Starts overlapped), and an       *)
(* update that never decodes.                                              *)
(***************************************************************************)
NotListening ==
    \/ \E p \in tgGone : p = tgStarted \/ tgOverlap
    \/ tgQueue \cap tgBad # {}

UpdateReachesHandler ==
    \A u \in Updates :
      (u \in tgQueue /\ tgStatus = "running")
        ~> (\/ tgGiven[u] > 0 \/ u \in Unparsable \cup tgNoHandler
            \/ tgStatus # "running" \/ NotListening)
=============================================================================
