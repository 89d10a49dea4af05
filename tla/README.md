# Gort in TLA+

Gort is a message gateway written in Go. Programs talk JSON-RPC 2.0 to it over
WebSockets, and it carries messages to and from chat platforms. This directory
holds TLA+ models of its code, TLC configurations that check them on small
instances, and TLAPS proofs for every value of the constants.

File names below are relative to `src/pkg/`; line numbers are in
`PROJECT.json` ("map"), which gives the lines every definition stands for.

## 1. Inventory

### 1.1 Components

| Component | State it keeps | Operations | Correct when |
|---|---|---|---|
| Gateway server, connection table (`gateway/server.go`) | `running`, the map `clients`, the unbuffered channel `register`; per connection `send`, `ctx`, the WebSocket, a `SessionManager` | `handleWS`, `hubLoop`, `readPump` and its deferred teardown, `writePump`, `removeClient`, `sendToClient`, `Notify`, `BroadcastNotification`, `DisconnectClient`, `Shutdown` | nobody sends on a closed channel; the table lists connections that are served; every teardown, registration and Shutdown ends |
| Send queue and batching (`sendToClient`, `writePump`) | `send` (capacity 256), the frame that is open | queue or drop; take one message and add what else is queued; flush | what arrives is a prefix of what was queued; the batch loop neither blocks nor starves |
| JSON-RPC client (`gateway/client.go`) | `conn`, `running`, `state`, `done`, `once`, `pending`, a channel per call, `sendMu` | `Connect`, `Call`, `readLoop`, `writeLoop`, `Close` | one close of `done`; no leak of pending calls; a drop releases every call and both loops |
| Dispatch and round trips (both files) | lines under way in both directions, a goroutine per method | `dispatchMessage`, `handleRequest`, `handleResponse`, `handleNotification`, `Server.Call`, `Notify` | answers go to their calls and never overtake the notifications streamed before them; calls return |
| Server lifecycle | `running`, `server`, `startErr`, `register` | `Start`, its listener goroutine, `Shutdown`, start again | a server that is stopped listens nowhere; a connection finds a hub |
| First-message authentication | `pendingAuth`, `authTimer` | handshake, timer, first message | nothing passes the gate unaccepted; a pending connection is accepted or closed |
| Heartbeat (`gateway/heartbeat.go`) and deadlines | read and write deadlines, tickers, counters | ping, pong, timeout | a live peer is not timed out, a dead one is; a Call on a working connection is written |
| Session manager (`gateway/session.go`) | sessions, frames, a cleanup goroutine | create, add, assemble, expire, `Close` | bounded; an assembled message is whole; only old sessions are cleaned away |
| Channel base and registry (`channel/channel.go`) | status and handler; the registry's map | `Start`, `Stop`, `Register`, `Unregister`, `StartAll`, `StopAll` | one channel per name; StopAll leaves none behind that it could stop |
| Feishu and WeChat, token refresh | the token, the loop of each Start, `cancel` | `Start`, `Stop`, `refreshToken`, `tokenRefreshLoop` | a running channel has a token, and the platform accepts what `getToken` returns |
| Telegram (`channel/telegram`) | `offset`, `cancel`, a poller; or a webhook | `Start`, `Stop`, `pollUpdates` | no update is forgotten before it was handled; each is handled in the end |
| iMessage and imsg (`channel/imessage`, `channel/imsg`) | two stop channels, `running`, the status | `Start`, `Stop`, watchers | a running channel has a client and a handler |
| Platform adapters (ten directories under `channel/`) | none beyond the channel base | map payloads both ways, HTTP requests | `SendMessage` sends what it was given or returns an error |
| Token manager, HTTP client (`channel/tokenmanager`, `channel/httpclient`) | a token; none | | nothing imports them |
| Message types, configuration | none | | |

### 1.2 How they interact

`handleWS` upgrades a request, builds the client record and hands it to the hub
over `register`; the hub puts it into the table under `Server.mu` and calls
`connectHandler`. `handleWS` then starts the two pumps. The readPump parses
lines and starts a goroutine per request; that goroutine, and any other one
that calls `Notify`, `Call` or `BroadcastNotification`, puts messages into the
connection's send channel, which the writePump turns into frames. When reading
fails, the readPump's deferred function cancels the context, closes the
sessions, calls `disconnectHandler`, takes the client out of the table, closes
the send channel and then the WebSocket. On the other side `Client.readLoop`
splits frames into lines again, runs notification handlers itself and hands
responses to the channels of waiting calls. Chat channels deliver inbound
messages through one handler and are driven through `channel.Registry`.

### 1.3 What is hard

* Interleaving: sends against the close of the send channel, the hub's insert
  against the readPump's removal, Shutdown against both; in the client, a
  response against `Close`.
* Ordering: notifications streamed by a method against its answer;
  `connectHandler` against `disconnectHandler`.
* Failure: a connection that breaks between any two steps; a frame that cannot
  be flushed; a full channel that refuses an answer.
* Liveness: waiting writers of an RWMutex behind a broadcast; a writePump that
  dies without telling its readPump; a notification handler that blocks the
  loop which has to bring its answer.
* Life cycles: `Close` before `Connect`, connecting again, starting a server
  again; a Start that fails half way, or whose predecessor's goroutines are
  still ending; stop channels that no Start makes again; a refresh loop that
  outlives the Stop that should have ended it.
* Time: a timer that runs out while the message it waits for is being accepted;
  deadlines that one party moves and another one trusts; a token whose life is
  counted from another moment than the platform counts it.
* Delivery: requests to platforms that are lost, or that arrive and whose
  answer is lost; answers that look like a success to who reads only half of
  them.

`PROJECT.json` ("hazards") lists them one by one at the lines where they bite,
with the properties that cover them, and a note where none does yet.

## 2. What is modelled

### GatewayHub - the connection table

One connection is a handful of program counters: `ws` (handleWS), `rp`
(readPump), `wp` (writePump). The hub, Shutdown and any number of senders have
theirs. A critical section of `Server.mu` is one action, except in
`BroadcastNotification`, which sends while it holds the read lock:
`BroadcastLock`, one `BroadcastSend` per client, `BroadcastUnlock`. Go's RWMutex
keeps new readers out while a writer waits, so a writer that meets a broadcast
moves to a "...Wait" counter, and readers need `MayReadLock`.

The teardown in the readPump is one action per call it makes
(`CleanupSessions`, `DisconnectHandler`, `RemoveClient`, `CloseSend`,
`CloseConn`), since other goroutines run between them. `SendToClient` is the
send of somebody who got hold of the client earlier (`GetClient`, or a handler
goroutine through `HandleRequest`): it is queued or dropped on an open channel,
and panics on a closed one. `panic` records that, and nothing happens
afterwards. A panic in handleWS is recovered by net/http and only ends that
handler (`RegisterPanics`).

### SendQueue and LossyFifo - one connection's messages

`SendQueue` has the channel, the pump and the loop variable as they are in
the code: `for i := 0; i < len(c.send); i++` re-reads the length each time while
senders go on, and the receive inside has no `default`. `connUp` may fall at
any moment; the frame that is open is then lost. The teardown is a cancelled
context and a closed channel.

`LossyFifo` is what a user of the server may rely on: accepted messages arrive
in order and without gaps, a message is refused only while `Cap` of them wait,
and a broken connection loses a tail. `SendQueue` implements it under the
mapping waiting = frame, then queue; delivered = wire; alive = connUp. A refusal
changes no variable of `LossyFifo`, so the refinement alone does not say that the
channel was full; `RefusalsAreRight`, a theorem of its own, does.

### RpcClient - the Go client

`Call`, `readLoop`, `writeLoop` and `Close` with the steps between which other
goroutines can run. The lookup of a call's channel and the send on it are two
actions (`ReadResponse`, `Deliver`), because the lock is given back in between.
`once` has three values: a second caller of `Close` waits inside `sync.Once`
until the first one is done. `Connect` is four actions, since it takes no lock:
`ConnectDials` sets `conn`, `ConnectRuns` and `ConnectSetsState` the two flags,
`ConnectLoops` starts the loops; a `Close` may run its function between any two
of them, and the flags are then set on a client whose connection is closed (the
history variable `overtook`). `Connect` may come again when the loops of the
former connection are over; it makes neither `done` nor `once` anew, and the
history variable `reused` says that this happened. `Close` before the first
`Connect` is allowed too, and uses `once` up.

### RoundTrip - calls from end to end

Two-sided: `Client.Call`, the readLoop with notification handlers that may
themselves call the server, the server's dispatch, method goroutines that
stream notifications before they answer, and `Server.Call`. It composes with
the rest through `LossyFifo`, whose actions it uses for the way back: what it
assumes of the queue is what `SendQueue` has been shown to provide. The client's
readLoop takes the lines off `delivered`. On a broken connection whatever has
arrived may still be read or may be lost.

`StreamingCall` is what the caller of `Client.Call` may rely on, with nothing
between the two sides: a call is open until it returns or fails; its method runs
once and streams notifications; the client handles each of them once, in number
never more than were streamed; and a call returns with an answer only when its
method is done and everything it has streamed was handled. `RoundTrip`
implements it: outcome is `call` with its inner steps hidden (`Outcome`),
streamed = accepted, unanswered = unheard. With `SendQueue`, which implements
`LossyFifo`, that makes two levels of refinement under one promise.

Frames carry several lines; since lines are handled one by one, a frame is
only a bound on how many arrive at once. The Go client drops requests of the
server as an unknown message type; other clients of the protocol answer, so
`ReadRequest` does either.

The answer of a method is a "response" line or a "null" line. A method that
returns no result is answered with `"result": null`, which the client's
`HasResultOrError` does not take for a response, so `ReadNull` drops the line.
`unheard` holds the calls whose answer was refused by the queue or is such a line.

### ServerLifecycle - Start and Shutdown

`Start` is six actions, because it holds `Server.mu` only for the first of them:
`StartEnters` (the test and set of `running`), `StartSpawnsHub`,
`StartMakesServer`, `StartSpawnsListener`, and the select of the probe with its
three ends (`ProbeReaches`, `ProbeTimesOut`, `StartRefused`). The listener
goroutine reads the fields `server` and `startErr` when it uses them, so that the
goroutine of one Start may serve, or close, what another one has made; a
channel or a server is therefore named by the number of the Start that made it.
The goroutine sends its error (`ListenerSends`) and then closes the channel
(`ListenerCloses`): between the two Start can take the error, reset `running` and
be called again.
`Shutdown` is `StopEnters`, `StopClosesRegister`, `StopClosesServer`. A
connection appears only as the one that handleWS hands to the hub
(`ConnArrives` ... `HubReceives`). `slTaken` lets another program have the
address: the probe then reaches that one.

`slEarly` records the two situations about which the code promises nothing: a
Shutdown that overtakes a Start before `Server.server` is set, and a Start while
goroutines of an earlier one are still alive. In the second, the old listener
goroutine closes the new Start's `startErr`: the new Start reports a failure and
takes `running` back while its own listener goes on. Both properties of this
module would fail there and exempt it.

### AuthGate - first-message authentication

One connection with each combination of the three options. The timer runs out
(`TimerFires`) and its goroutine closes the connection (`TimerCloses`) at any
moment, also between the acceptance of the message and the stop of the timer
(`MessageAccepted`, `TimerStopped`). Frames hold several lines, and readPump
goes through all of them, whatever the first one did to the connection.

### Keepalive - deadlines and pings

Time is counted down in units of two seconds (54 s are 27): the server's read
deadline, its ping ticker, the pong under way, the client's ping ticker, and
the client's write deadline. `KeepaliveClock` lets a unit pass unless something is
due, so that tickers and deadlines are punctual. A peer that is there answers a
ping within `Latency`. The client sets its write deadline before each ping, and
`ClientCalls` writes under whatever deadline there is.

### Sessions - the session manager

Operations are atomic, since they hold the lock; the two cleaners (the loop's
tick and `cleanupClient`) collect ids in one step and remove them one by one
later (`Collect`, `CleanupRemoves`). A session is its client, the set of frame
indexes, the announced total and whether it has passed its timeout; `addFrame`
takes any index and total, as the code does. In the repository only tests create
sessions, add frames or assemble them: the model is about these functions as
an API, and what the gateway does with a manager, closing it, is in GatewayHub.

### ChannelRegistry, TokenRefresh, TelegramPoll, IMessageLife

`ChannelRegistry` has the table and the status of each channel. StartAll and
StopAll copy the table in one step and then call one channel at a time
(`Copies`, `StartNext`, `StopNext`, `WalkEnds`), while others register,
unregister, start and stop (`ByHand`); each Start and Stop may fail.

`TokenRefresh` is the common life cycle of Feishu and WeChat: each Start has a
context and, once its first request has succeeded, a loop. A refresh that fails
sets the status "error", in which Stop refuses while Start does not, so that a
loop can outlive its channel; `tokCancel` says whose cancel function the
channel has. That context is a child of the one the caller gave to Start, whose
end (`CallerEnds`) stops the loop as well and leaves the status "running". The
platform grants any life in `Lives`, and 0 stands for an answer with neither a
code nor a token, which is stored like any other. Two clocks run on the stored
token: `left`, what the channel takes it to last, counted from the moment it is
stored, and `good`, what the platform grants, counted from its issue.

`TelegramPoll` has Telegram's side as a set of updates, which forgets what is
below the offset of a request - also of one whose answer is lost (`PollFails`) -
and lists the rest in the order of their ids (`InOrder`).
Pollers keep their own offset. An update that does not decode (`tgBad`) fails every
answer that lists it. A poller also ends with the context its Start was given
(`CallerLeaves`). In webhook mode there is no poller.

`IMessageLife` has both layers: the channel's stop channel, and the client's with
its flag. The client returns `ErrNotSupported` for whatever receives, so a
watcher ends by itself (`WatcherEnds`). A stop channel that is closed twice sets
`imPanic`.

### PlatformMessages and Adapters - the ten adapters

`PlatformMessages` holds tables: for each platform, the Message an adapter makes
of each kind of thing a user sends (`...Receives`), the request it makes of a
Message (`...Sends`), and which answers it takes for a failure (`...Fails`). Of a
Content string or a metadata value only what it refers to is kept: words, an
id of the platform, a link, a path, bytes. An unchecked type assertion on a
value of another type is `Panics`. `Adapters` runs one channel of any platform: a
user writes, the program sends the message back or sends one of its own, the
platform or something on the way to it answers. An answer has a status and a body;
the body is the platform's consent, its refusal, an "object" (JSON that has none
of the platform's fields) or a "page" (no JSON). `json.Unmarshal` is content with
an object and leaves its error code 0 and its `ok` false (`CodeFails`, `OkFails`);
of the status, two adapters want 200 (`StatusFails`) and three want anything
below 400 (`ErrorStatus`).

### One run for several models

The four server-side models share no variable, nor do the five of the
channels. `MCServerSide` and `MCChannels` extend them and let one move only
while the others rest in an initial state: the states checked are those of the
models side by side, not their product, and nothing is lost, since a property
speaks of one model only.

## 3. What the runs check

| Run | Bounds | Question |
|---|---|---|
| `hub_safety` | 2 connections, 1 sender, 1 Shutdown | Do the table, the send channels and the sessions agree in every interleaving? Two connections let one be inserted while the other is removed and a broadcast is on its way over both; the sender may answer, notify, broadcast or disconnect, again and again. |
| `hub_liveness` | 1 connection, 2 senders | Do teardown, registration and Shutdown end? Two senders let one broadcast hold the lock while another waits behind a writer. |
| `send_queue` | capacity 2, 6 messages | Does the pump lose, reorder or hold back anything, and does it implement `LossyFifo`? Six messages fill the channel behind a frame of three; capacity 2 is the least at which the batch loop's bound and the length can cross. |
| `rpc_client` | 2 calls, 1 caller of Close besides the readLoop, any number of connects | Is `done` closed once, is the connection closed wherever in `Connect` the Close came, do entries leak, and does a dropped connection release every call and both loops? |
| `round_trip` | 2 calls, 1 notification each, 1 Server.Call, capacity 1, frames of up to 2 | Does an answer ever overtake a notification, is a call from end to end what `StreamingCall` promises, and does every call return? Two calls are needed for a handler that calls back while its own call is answered; capacity 1 makes refusals happen. |
| `server_side` | 2 Starts, any number of Shutdowns; 2 frames of up to 3 lines; 27 units of ping period, 30 of read timeout, 5 of write wait, 3 of latency; 2 session ids, a limit of 1 | Does a stopped server listen, does a connection find a hub, does the gate hold, who is timed out, and is an assembled message whole? Two Starts are what a field shared by Starts needs; three lines are a refusal between two others; 27 + 3 = 30 is the tightest case of the ping period; two ids with room for one let creation race with cleaning. |
| `channels` | 3 channels with 2 names; 2 Starts, period 3, lives 0, 2 and 6, margin 1, request 1; 2 updates, one of them unparsable and any of them undecodable, 2 pollers; 5 calls of iMessage's Start and Stop; every adapter, every kind of message, one piece of metadata | Does StopAll leave a channel behind, is a token renewed in time, is an update lost, does a running channel have its client, and does SendMessage mean what it says? The lives are an answer without a token, one that grants less than a period, and the least that is enough (`LongEnough`), which outlives one period but not two, so that a loop that misses a tick is seen. |

The properties, by module:

* GatewayHub: `ClosedMeansUnlisted` (a closed send channel is never in the
  table), `BroadcastNeverPanics`, `DrainIsFinal` (nobody enters the table after
  Shutdown has emptied it, although the hub may have received a connection
  before), `ListedClientsKeepSessions`, `RemovalAnnounced` (an action property:
  no removal without a disconnectHandler, Shutdown apart), `PumpsEndTogether`,
  `RegistrationResolves`, `ShutdownReturns`.
* SendQueue: `BatchNeverBlocks`, `FrameBounded`, `NothingVanishes`,
  `NoGapOnWire`, `FifoSpec` (the refinement), `QueuedArrives`.
* RpcClient: `DoneClosedOnce`, `PendingIsInFlight`, `ClosedForEverybody`,
  `DropReleasesCalls`, `LoopsEnd`. `ClosedForEverybody` says that a Close that has
  returned leaves the connection closed, and the client neither running nor
  connected unless the Close overtook `Connect`.
* RoundTrip: `NotesBeforeAnswer`, `StreamingSpec` (the refinement), `CallsReturn`
  (but for the calls in `unheard`, which have their context only).
  `AnswerIsReal` is proved and not run: the refinement contains it but for the
  moment between the answer's arrival and the return.
* ServerLifecycle: `StopsListening` (a server that is not running and that
  nobody is starting or stopping has no listener), `HubServesRunning` (until the
  first Shutdown, a connection on its way to the hub finds one waiting); neither
  where `slEarly` is true.
* AuthGate: `GateHolds` (no line is dispatched before one was accepted, and an
  accepted connection is closed by the timer only if that had run out before),
  `PendingResolves`.
* Keepalive: `OnlySilenceEnds` (`IdlePeerStays` if ping period and answer fit into
  the read timeout, `GonePeerNoticed`). `DefaultHeartbeatConfig` does not meet
  that condition: its read timeout of 10 s is shorter than its ping period of 27 s.
* Sessions: `SessionsSound` (`AssembledComplete`: every part once and in order,
  none left out; `OnlyOldAreCleaned`: the loop removes a young session only if its id
  was used again). The limit is part of the type invariant.
* ChannelRegistry: `StopAllStopsTheRest`. One channel per name is part of the type
  invariant.
* TokenRefresh: `TokenHolds` (`RunningTokenIsFresh`, while the caller's context lives,
  Starts do not overlap and the last answer granted enough; `StoredTokenIsGood`,
  without conditions).
* TelegramPoll: `ForgottenWasGiven`, `UpdateReachesHandler` (until the caller's context
  ends or an update does not decode, `NotListening`).
* IMessageLife: `RunningHasClient`.
* Adapters: `SendMeansWhatItSays`, four parts: an echoed message comes back as what
  it was (`EchoFaithful`), media is not flattened to text (`MediaStaysMedia`), a
  stopped channel sends nothing (`StoppedIsSilent`), and nil means that the
  platform has accepted, never that it refused (`NilMeansAccepted`). Adapters that
  fall short are named in `LossyEchoes`, `Flattened`, `StoppedIsSilent` and
  `TakenForConsent` (the foreign answers an adapter takes for its platform's
  consent); the property says that there are no others.

Each has a mutant of the code's model ("mutants") that the run refutes.

### Deadlock

Checked in the hub's runs: senders may always begin again, and a process that
has crashed stutters (`Crashed`). `send_queue`, `rpc_client` and `round_trip` stop when their
messages or calls are used up, so their configurations turn it off. So do those
of `server_side`, `channels` and `client_write_deadline`: starts, frames,
updates and calls are bounded, a closed connection does nothing more, and a
panic ends the program.

### Fairness

Weak fairness on the steps a goroutine takes by itself: Go schedules every
runnable goroutine, and the callbacks and methods are assumed to return.
Nothing makes a peer connect or leave, a sender start, a connection break, or
somebody call Shutdown or Close, except:

* the read deadline (60 s, or the heartbeat configuration's) makes the readPump
  of a broken connection fail, and with it `ReadFails`;
* `SendCommand` gives its call 30 s, so a call that a notification handler made
  times out at last (`CallTimesOut` of the nested call in RoundTrip). Other
  calls may have a context without a deadline;
* the runtime runs an armed timer and the goroutine it starts (`AuthFairness`).
  Nothing makes the peer of a pending connection send, nor a hub take it;
* a poller runs, and a request that it repeats for ever succeeds in the end, if
  what there is to list decodes (`TelegramFairness`: strong fairness of
  `PollAnswered`, whose guard has that condition). Without the latter a network that
  loses every request would refute any promise about updates. Nothing makes an
  undecodable update go away.

In Go's RWMutex a waiting writer is not overtaken by later readers; that is
modelled by `MayReadLock` and not by fairness.

### Runs that end in a violation

They show where the code does not do what the repository says of it;
"findings" quotes the words.

| Run | What happens |
|---|---|
| `hub_send_panics` | A method goroutine, or a caller of Notify between its lookup and its send, meets the send channel that the readPump has just closed. A send on a closed channel panics, and nothing on that goroutine recovers. |
| `hub_ghost_client` | A connection fails at once: its readPump finds nothing to remove, and then the hub, which had already received it, inserts it. It stays in the table. |
| `hub_shutdown_leaves_connections` | Shutdown empties the table and stops the listener, but hijacked connections belong to nobody by then and stay open. |
| `client_write_deadline` | A ping sets the client's write deadline, which is absolute and stays. A Call more than ten seconds later fails on a connection that works, and every later write of that client with it. |
| `rpc_close_races_response` | The readLoop has found a call's channel; `Close` closes it; the readLoop sends. |

The properties that do hold say what remains true: a broadcast never panics,
the table is never refilled after Shutdown, and so on. Where a crash can come
first, a liveness property says so (`panic # "none"`).

## 4. What is proved

The proofs hold for every value of the constants: any finite set of connections
(`ConnsAssumption`) and any set of senders, any channel capacity above zero
(`CapAssumption`) and any bound on messages, any calls and closers
(`NamesAssumption`), any calls over a queue and frames of any size
(`CallsAssumption`, `BoundsAssumption`), any number of Starts, frames, lines,
sessions, updates and pollers, any set of channels and names, and all times
that satisfy `KeepaliveTimes` and `TokenTimes`. The latter asks that a request
takes less than a period and no longer than the margin (30 s, 90 min, 300 s in
the code) and nothing of what the platform grants.

**GatewayHubProofs.** None of the safety properties is inductive. A broadcast is
safe because what it still has to send to is in the table
(`BroadcastSeesTable`) and the table has open channels only
(`ClosingIsUnlisted`). The hub's insert keeps the latter true only because a
connection on its way in is fresh (`EnteringIsFresh`): it is not in the table,
and its readPump has not closed its channel, nor is about to - one that wants
to remove such a connection finds nothing and leaves the channel alone. What
the hub holds (`HubHasConn`) and that no pump runs before handleWS has started
it (`UnservedHasNoPump`) carry this from one step to the next. `ServedKeepSessions` and
`RemovingIsAnnounced` do the same for the sessions and the callback, and
`RunningUntilShutdown` ties `running` to Shutdown's progress for
`DrainIsFinal`. The proof has a lemma for each of the actions that disturb
several conjuncts (`HubInsert`, `RemoveClient`, `BroadcastSend`) and one per
group of goroutines. From `Inductive` follow `TypeCorrect`, `BroadcastSafe`,
`ClosedStaysUnlisted`, `DrainHolds`, `SessionsHold` and, as an action property,
`RemovalIsAnnounced`.

**RoundTripProofs.** The argument counts lines. Every notification the server has
accepted is handled, in the handler's hand, or still coming - in `delivered`, or
in `waiting` as long as the connection is up (`Given`, `NotesCounted`). When the
connection breaks that equation becomes an inequality, except for a call whose
answer is still coming: what is ahead of a line that arrives arrives too, and no
notification is behind the answer of its call (`AnswerLast`). So none is coming
when the answer is read, and handled = accepted from then on (`Settled`), since a
method that is done streams nothing more. `RunsOnce` counts the request of a
call in `toServer` and its method together: one of the two at most, which is
why readPump starts no method twice although it does not look
(`MethodsRunOnce`). The lemmas before (`CountConcat`, `CountAppend`, `CountTail`,
`OrderAppend`, `OrderPrefix`, ...) say what the operations on sequences do to a
count and to an order. From `Invariance` follow `TypeCorrect`, `NotesFirst` and
`AnswersAreReal`, and with one lemma per part of the system
(`CallStreams`, `ReadStreams`, `ServerStreams`) the refinement `ImplementsStreaming`.

**SendQueueProofs.** The batch loop's invariant: while a frame is open it holds
`i + 1` messages and `i <= Cap`, and when the loop has passed its test there is
a message to receive, because senders only lengthen the queue. From it follow
`BatchReceives` and `FramesEnd`. `NoMessageVanishes` (on a working connection
wire, frame and queue together are everything queued) gives `NoGap`, and
`ImplementsFifo` maps each step to a step of `LossyFifo` or to a stutter.
`RefusalsAreRight` adds what the stutter hides: a message is refused only while
`Cap` others wait.

**RpcClientProofs.** The argument is about `c.once`: whoever runs its function
is alone, there is a connection, and its program counter tells what has been
done so far (`Exclusive`, `DoneOnlyInside`, `StoppedInside`, `ConnectedOnce`). A
Connect that is under way when that function begins is remembered in
`overtook`, and what the function has done to the two flags is claimed only
without it; of the connection it is claimed in any case.
From it follow `OneCloseOfDone` and `CloseCloses`; `NoPendingLeak` is inductive
with the types.

**ServerLifecycleProofs.** While `slEarly` is false there is one Start to speak
of, the last: the earlier ones and their listener goroutines are through
(`OthersAreThrough`), so that `server` and `startErr` are the last one's and only
its server can listen; `LastStart` says how far it has got and that, when nothing
runs, its server is closed or its listener has ended. That gives
`ShutdownIsFinal`. Until the first Shutdown `slEarly` cannot become true,
`register` is open, no server is closed, and the hub of a running server waits
(`NeverShut`); that gives `HubAwaitsConnections`, which excludes `slEarly` too.

**ConnectionProofs.** AuthGate: after the upgrade a connection is accepted exactly
when it is not pending, and once `TimerStopped` is through its timer is stopped,
unless it had run out before; that gives `GateIsTight`. Keepalive: while a peer
answers, the read deadline exceeds the time to the next pong (`IdleMargin`), and
once it is silent every unit of silence comes off the deadline
(`SilenceMargin`); `SilenceAlone` follows. Sessions: what was given under an id is
what its session holds (`GivenAreFrames`), and what the loop has collected is old
or was made again (`DueAreOld`); a complete session has as many frames as its
total, and the loop over 0 .. total - 1 finds each of them, so the parts are
those that were given. That is `SessionsAreSound`. `SideBySide` puts the four
invariants of the server side together for the specification that
`server_side` runs; `ServerSideTypeCorrect` follows.

**TokenRefreshProofs.** While no calls overlap and the last Start's caller has not
gone, a running channel's last loop is alive with the context its `cancel`
belongs to, and a stored token that was granted for long enough (`LongEnough`)
lasts beyond that loop's next tick plus the longest request.
`StoredTokenIsGood` holds without that condition: a request takes no longer than
the margin, so `left <= good` from the moment of storing on, whichever loop
stores and whatever was granted.

**ChannelProofs.** Registry: what StopAll has passed is stopped, touched or stuck
(`StopAllIsThorough`). iMessage: each program counter of Start and Stop says
which of client, handler and status are set by then (`RunningIsServed`).
Telegram: an update is settled when it was given to a handler, cannot be parsed or
met no handler. Everything forgotten is settled, and everything below the
offset of any poller (`ForgottenIsSettled`, `OffsetIsSettled`), also of one whose
answer was lost. A poller's batch goes up, and what it leaves out below one of its
updates is settled already (`BatchIsSettled`), so that moving the offset past an
update takes no other one along; this is where the order of getUpdates counts.
`NothingForgotten` follows. Adapters: one lemma per question about the tables
(what each platform sends, receives, echoes and takes for a failure) and one
state fact, that a message in hand came in on this channel (`HeldCameIn`), give
`SendKeepsItsWord`. `ChannelsSideBySide` and `ChannelsTypeCorrect` are about the
specification that `channels` runs.

Only model-checked: every liveness property (`PumpsEndTogether`,
`RegistrationResolves`, `ShutdownReturns`, `QueuedArrives`,
`DropReleasesCalls`, `LoopsEnd`, `CallsReturn`, `PendingResolves`,
`UpdateReachesHandler`), since liveness under fairness and ENABLED are beyond
the installed prover. Every invariant, action property and refinement of a
passing run is the statement of a theorem.

## 5. What is not modelled

* `PROJECT.json` ("components") gives the reason for each part. Message contents,
  logging, JSON errors of well-typed values and platform payloads are data no
  property depends on.
* `tokenmanager` and `httpclient` are imported by no package; the channels have
  their own token caches and clients. Configuration is read once.
* Webhook signatures, the token checks in some adapters' Start, lookups of users
  and channels, edits and reactions: they change no state of the gateway.
* `HeartbeatMonitor`'s counters: statistics no decision reads.
* iMessage's receiving side: its client refuses to watch, so that code is never
  reached.
* GatewayHub starts where `Start` has returned, and each connection is accepted
  once. `ConnectionCount`, a statistic that no decision reads, is left out.
* RoundTrip assumes requests that parse and methods that exist, a handler that
  makes at most one call, and a client that is not closed by its own user
  (RpcClient has that).
* Two writers on one WebSocket (`writeLoop` pings without `sendMu`): the overlap is
  reachable in RpcClient, its effect on the wire is not in the model.

Disagreements with the documentation met while reading, without a run: Shutdown
does not close the sessions of connections that are not listed
(`docs/gateway.md:157`); `Start` is documented as blocking
(`docs/gateway.md:147`) and returns once its probe has reached the listener;
`Server.Call` is not released when its client disconnects
(`docs/PROTOCOL_SPEC.md:442`); the comment on `DisconnectClient` lists the steps of
the teardown in another order than readPump takes them; the documented ping
period of 54 s (`docs/gateway.md:625`) is not that of `DefaultHeartbeatConfig`.
Others met in the models: a server started again after Shutdown has a closed
`register` (the next Shutdown panics, `slPanic`); iMessage's second Stop panics
(`imPanic`); `Start` may succeed because another program answers on its address;
messages beyond the first of a webhook batch of Messenger and WhatsApp are dropped.

* A Close that comes between the assignments of `Connect` closes the connection and
  leaves `running` and the state set: `IsConnected` may then say true of it.
* A call of a method that returns nil, as the example in `docs/gateway.md:214-223`
  does, is answered with a null, which the Go client drops; `Client.Call` waits for
  its context.
* A Start that is tried again right after a refused one may be failed by the old
  goroutine's close of `startErr`, while its own listener serves.
* The end of the context given to Start ends the refresh loop of Feishu and WeChat
  and Telegram's poller; the channel's status stays "running".
* An update that does not decode keeps Telegram's poller at its offset, asking
  without a pause (`telegram.go:679`).
* A token answer with neither a code nor a token is stored as an expired token.
* A JSON object without an error code (Feishu, WeChat, DingTalk; WeCom with a
  200), a redirection or a foreign page with a 200 (Discord, Messenger, WhatsApp)
  counts as a sent message.

## 6. Plan

What is left, in this order.

| Module | Of | Questions |
|---|---|---|
| error replies | RoundTrip | requests that do not parse and methods nobody knows are answered by readPump's own goroutine, beside the methods' |
| an abstract client | RpcClient | what `Connect`, `Call` and `Close` promise a user who sees none of the channels behind them, with RpcClient as its refinement |
| an abstract gate | AuthGate | a connection that is pending, accepted or closed, and nothing else |
