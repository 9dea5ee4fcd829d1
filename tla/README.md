# busybar-bridge: a verification project in TLA+

`busybar-bridge` is one Go process that listens to a Busy Bar over a WebSocket,
turns its button, switch and encoder inputs into Home Assistant events, and, in
the other direction, shows the current Google Calendar meeting on the Busy Bar's
display. It keeps telemetry in memory and serves it over HTTP. The only thing it
persists is the calendar binding.

This directory holds TLA+ modules translated from that code, TLC runs that check
them on small instances, and TLAPS proofs of what holds for all instances.
`PROJECT.json` maps every definition to the lines it models (`map`), lists the
runs, a mutation per checked property that the run must reject (`mutants`), the
hazards of the code and the properties that watch them (`hazards`), and the
disagreements between code and documentation met on the way (`findings`).

## 1. Inventory

| Part | State | Operations | Talks to | Hard behaviour |
|---|---|---|---|---|
| **Home Assistant dispatcher** `internal/hass/client.go`, `config.go` | buffered channel of events, `started`, `closed`, context, one worker | `Start`, `Enqueue`, `Close`, `worker`, `dispatch` | called by the runner; POSTs to Home Assistant; records in telemetry | queue at its limit, send/close race, TTL against retry and timeout, lost and late answers, cancellation in every state |
| **Outbound push client** `internal/busybar/push.go` | channel of one slot, `mailboxMu`, flags, one worker | `PushFrame`, `worker`, `transmit`, `Start`, `Close` | called by the display orchestrator; POSTs to the device; telemetry | newest frame wins while the worker empties the same slot; a blocking send under a mutex; unsynchronised `cancel` |
| **WebSocket client** `internal/busybar/client.go` | connection, status, backoff, channel of frames | `Start`, `run`, `connectAndSupervise`, `readLoop`, ping goroutine, `Close` | device; the runner reads its frames and status | reconnection for ever, backoff reset, two goroutines per connection, two places that close the channel |
| **Calendar binding store** `internal/calendar/store.go` | binding in memory, file, temporary files, `mu` | `NewStore`, `IsBound`, `Get`, `Save` | OAuth callback, poller | crash in the middle of a save, failure of each step, two browsers at once |
| **OAuth manager and handlers** `internal/calendar/manager.go`, `server.go` | none of its own; a cookie in every browser | login, callback, `GenerateAuthURL`, `ExchangeCode`, the calendar part of the status page | Google, browsers, the store | a test, seconds of network, then a write; several logins and browsers; a page that asks twice |
| **Telemetry store** `internal/telemetry` | ring of ten traces, counters, connection, push and calendar sections | `Record*`, `Set*`, `Snapshot` | everybody | an outcome that comes after its trace has left the ring |
| **Decoder and event types** `internal/busybar/decoder.go`, `internal/hass/event.go`, `pkg/pb/event.go` | none | `Decode`, `TranslateEvent`, two JSON encoders and a decoder | the runner | frames with several inputs among other updates; two tables of names, two fallbacks |
| **Calendar poller** `internal/calendar/poller.go` | the active event | `Poll`, `GetCurrentEvent`, `Start`, `Close` | Google, display | choice among overlapping meetings, a cached meeting during an outage, an answer that never comes |
| **Display orchestrator** `internal/calendar/display.go` | last state pushed and when | `Step`, its loop, drawing, `Start`, `Close` | poller, push client | the screen may differ from what it believes it pushed |
| **Runner** `internal/runner/runner.go` | the components | `Run`, `handleFrame`, `Close`, `Shutdown` | all | order of start and shutdown, a bounded shutdown, a partial start |
| **HTTP status server** `internal/server` | none but the components' | `/healthz`, `/ready`, `/status`, OAuth routes | telemetry, status, store | reads of state that moves |
| **Configuration, `main.go`** | none after start | `Parse`, `Validate`, `run` | the runner | a later layer of settings hides an earlier one |
| **Protobufs, build and tools** | none | | | generated, or not part of the program |

What makes each part correct:

* *Dispatcher*: `Enqueue` neither blocks nor panics; events keep their order; no
  attempt begins once the event is stale; every event has exactly one telemetry
  record unless the process is stopping; the record agrees with what Home
  Assistant answered; Home Assistant sees an event a bounded number of times;
  `Close` returns.
* *Push client*: the newest frame wins; `PushFrame` never blocks; the counters
  account for every frame; `Close` returns and leaves nothing behind.
* *WebSocket client*: it goes on dialling; it never hammers the device; a lost
  connection reaches the status; nothing survives `Close`.
* *Binding store*: one binding for ever; a complete file at every instant; the
  truth told to every browser.
* *Telemetry*: an outcome on its own trace, and books that balance.
* *OAuth*: a binding comes from a login that the server answered to the very
  browser that brings it back, and to which the user agreed at Google.
* *Event types*: whichever way an input becomes JSON it is the same JSON, and it
  can be read back.
* *Poller and display*: no frame is composed of a meeting that is over, called off
  or declined; an outage of Google takes no running meeting off; the screen comes
  to show the truth, and a meeting leaves it when it is over.
* *Runner*: only what the settings ask for is started; `Run` ends; its normal return
  leaves no frame and no goroutine; after a signal nothing is left at all.

## 2. The modules

```
EventRelay <---- implemented by ---- HassDispatcher
    ^ extends                            ^ MCHassDispatcher, HassDispatcherProofs
EventPipeline --extends--> EventSchema   (runner, decoder, telemetry, event types)
    ^ MCEventPipeline, EventPipelineProofs

LatestMailbox <- implemented by ---- PushClient
                                         ^ MCPushClient, PushClientProofs

OneTimeBinding <- implemented by --- CalendarStore <--- implemented by --- OAuthLink
                                         ^ CalendarStoreProofs <---- OAuthLinkProofs
                                                          MCOAuthLink extends OAuthLink

FrameStream <-- implemented by ---- BusyBarClient
    ^ used by BridgeLifecycle            ^ MCBusyBarClient, BusyBarClientProofs

CalendarEvents <--- CalendarDisplay      DisplayRendering
                         ^ MCCalendarDisplay and CalendarDisplayProofs extend both

Configuration <---- BridgeLifecycle      ^ MCBridgeLifecycle, BridgeLifecycleProofs
```

Four abstract specifications say in a few lines what a component promises; the detailed
module of the component carries an `INSTANCE ... WITH` refinement mapping, and the
abstract specification is checked as a property and proved for every instance.
`EventPipeline` then uses the abstract relay in place of the dispatcher: the composition
rests on the refinement, not on a second model of the worker. That it asks no more of
the relay than that is a theorem (`UsesRelay`). `OAuthLink` is built upon
`CalendarStore` itself: each of its steps that touches the store is a step of that
module, and `OAuthLinkProofs` proves that it implements the store's specification, so
that the store's theorems carry over. `CalendarDisplay` has the mailbox as one cell that
the newest frame overwrites, which is what `LatestMailbox` promises; `BridgeLifecycle`
has of each component only a goroutine that its context ends, and of the WebSocket
client's frames and status what `FrameStream` says (`UsesStream`).

An action is what one goroutine does between two points at which another can see
it. Data is reduced to what the properties tell apart: an event or a frame is a
model value or a number, an HTTP answer is its class.

### HassDispatcher (`internal/hass/client.go`)

| State | Code |
|---|---|
| `queue`, `chanClosed`, `panicked` | `eventsChan`, `close(eventsChan)`, a send on it afterwards |
| `started`, `closed` | the fields guarded by `mu` |
| `sending[p]`, `closing[c]` | a producer between `RLock` and its send; a caller of `Close` between `Lock` and `Unlock`, or in `wg.Wait` |
| `ctxDone` | the worker's context |
| `wpc`, `ev`, `attempt`, `timer`, `req` | program counter and locals of `worker` and `dispatch`, the sleep or the request timeout, the outstanding request |
| `age[e]` | `time.Since(ev.CreatedAt)`, saturating at `TTL + 1` |
| `log[e]` | the telemetry records about the event, in order |
| `tries[e]`, `stray[e]`, `delivered[e]` | history: how attempts ended, requests given up but still on their way, how often Home Assistant acted |

`Enqueue` is `EnqueueClosed` or `EnqueueOpen` followed by `EnqueueSend`, with the
read lock held in between; `Close` is `CloseBegin` (the write lock), `CloseChan`,
`CloseReturn`. `dispatch` is `CheckTTL`, `Post`, `RequestError` or `Respond`,
`Loop`, `Wake`, with `CancelWait` for the context during a backoff. `Conclude` is
the one way an event leaves the worker with a record. `HAAnswers` and `HALate` are
Home Assistant: it may process a request and have its answer lost, or process a
request that the client has already given up.

Time is discrete: a backoff timer may fire late, a request does not outlive
`RequestTimeout` (`http.Client.Timeout`). A worker step takes no time; that is
what `FreshPost` rests on, and it is the precision with which the code itself
keeps the promise (the test of the TTL comes immediately before the request).

Left out: payload and URL, trace IDs, latencies and error texts, and the returns
after `json.Marshal` and `http.NewRequestWithContext`, which an `Event` and a
validated configuration cannot make fail.

### PushClient (`internal/busybar/push.go`)

`PushFrame` is `PushBegin` (closed test, lock), `PushTry` (the non-blocking send),
`PushEvict` (the non-blocking receive, which counts a drop only if it wins against
the worker) and `PushInsert` (the second, blocking send). The worker is `Take`,
`Attempt`, `Result`, `Exit`. `Start` has three steps because `Close` may run
between them: the flag, the cancel function, the goroutine. `Close` reads
`c.cancel` without synchronisation, so it may or may not see the cancel function;
`sync.Once` makes further callers wait for the first. Calls that a disabled client
or an empty frame ends at once are left out: they change nothing.

### CalendarStore (`internal/calendar/store.go`, the callback in `server.go`)

One process per request of the callback: `Callback` (`IsBound`, the state nonce and the
other early returns), `Exchange` (`Manager.ExchangeCode`), then `Save` as `SaveLock`,
`Create`, `Write` (write, chmod, sync, close), `Rename`, `Publish`. `Fail` is any of the
error returns after `CreateTemp`, with the deferred removal of the temporary file.
`Crash` ends the process at any point, taking all requests with it; `Restart` is
`NewStore`. A crash is one of the process: what was written stays. A power failure
between the rename and the write-back of the directory, which the code does not sync, is
not modelled and is listed as a hazard.

### OAuthLink (`internal/calendar/manager.go`, the OAuth routes and the status page of `server.go`)

| State | Code |
|---|---|
| `cookie[b]` | the `oauth_state` cookie of a browser, named by the login it belongs to |
| `loginBy[n]`, `grant[n]` | the browser a login was answered to; what Google has made of it (external) |
| `req[r]` | the browser and the login of a callback under way |
| `page` | what the two questions of `calendarStatus` to the store have brought |

`Login` is the login handler (nonce, cookie, redirect), `Consent` the user and Google,
`Expire` the ten minutes of the cookie. `Arrive` is the callback up to the exchange,
for any browser and any login, since a user may reload the page or open it elsewhere;
`LExchange` and `Store` are `Exchange` and the steps of `Save`, after which an answer
clears the browser's cookie (`AnswerClears`), even that of a later login. `Ask` is
the status page. `LCrash` ends the process; browsers, Google and the file outlive it.
A nonce is taken to be unguessable and unique: it is named by its login.

### BusyBarClient (`internal/busybar/client.go`)

`run` is the loop `Top`, `Dial`, `Adopt`, `Activate`, `ReceiveBinary`/`ReadError`,
`Join`, `Disconnected`, `Sleep`; the ping goroutine is `PingFire`, `Pong`,
`PingEnd`; `Close` is `CloseConn` (the two fields are read), `CloseCancel`, `CloseWait`,
`CloseReturn` (the channel), and `cancel[c]` says whether it found a cancel function. A
connection is live, silent (nothing arrives and nothing says so) or broken (an error is there
to be read), and `PeerFails` moves it about. `NextBackoff` is the integer form of
`nextBackoff`: multiply, truncate, cap. `Consume` is the runner taking a frame.

`Start` and `Close` come in any order, as in the code: `Start` asks only whether the
client has been started before, and a `Close` of an unstarted client cancels nothing and
closes the channel. A client that is started nevertheless (`Overtaken`) sends on that
channel and panics (`pc = "panicked"`) with the first frame it reads. No order of calls
that the program can produce leads there, but `Client` does not rule it out, so
the condition is in the properties and not in the actions: `StreamSpec` promises nothing of
such a client, `ClosedIsQuiet` speaks of a `Close` that found a cancel function, and
`CloseReturns` names the wait that may last for ever.

`FrameStream` is what the runner relies on: a channel that gets frames only while the
client runs and reports a connection, that is closed once, not before the client is told
to stop (by its context, or by a `Close`), and a client that reports no connection from then
on. It promises this to an owner that does not start what it has asked to close
(`FLateStart`). The mapping `Stream` takes a send on the closed channel by any other client
to a stage that `FrameStream` does not have, so that `StreamSpec` says too that `readLoop`
never panics unless the client was started after a `Close`.

### EventPipeline (`runner.handleFrame`, `decoder.Decode`, `telemetry.Store`)

`ReceiveFrame` takes a frame of one to `MaxUpdates` updates; `Skip` passes over an
update that `Decode` or `TranslateEvent` rejects; `RecordEvent` gives the input its
ID, its trace in the ring and its count; `Enqueue` hands it to the relay and counts
the drop if it is refused; `Forward` and `Drop` are the worker's two ways of
recording, each combined with the relay's `Settle`. Between `RecordEvent` and
`Enqueue`, and before any outcome, everything else may happen. Only the kind of an
input is kept in the state, for nothing else of it decides what becomes of it.

### EventSchema (`decoder.go`, `TranslateEvent`, `hass/event.go`, `pkg/pb/event.go`)

The pure part: the update the device sends (`Updates`), the normalized event
(`Decode`), the event (`TranslateEvent`), its JSON object (`MarshalJSON`), the event
read from it (`UnmarshalJSON`, `ToPayload`, `ToEvent`), and the second encoder
(`ToHomeAssistantJSON`) with its own table of names. A JSON object is a record; a
number carries its Go type, which reading JSON changes, and its value too: a number read
is a `float64`, exact up to `Precision` (2^53) and from there on the nearest one
(`Float64`: gaps that double, ties to even). The timestamp then becomes an `int64`
again, for which `Overflow` stands where it rounds past the largest one. `OneSchema` and
`SentIsReadable` say of every trace in the ring that every update and time that could
have made it gives the same object by both encoders, and one that can be read back:
the same event, but that a time beyond `Precision` is off by less than one part in
`Precision`, and one that rounds past the largest integer is lost. Both are for a device
with a name (the runner's decoder always has one unless the setting is blank).

### CalendarEvents and CalendarDisplay (`poller.go`, `display.go`, the worker of `push.go`)

`CalendarEvents` has the pure functions: `Eligible` (status, transparency, times,
`IsDeclined`), `Winner` (the first of the sorted active events), `CurrentEvent`,
`FormatCountdown`, `DisplayState`. `CalendarDisplay` has three goroutines:

| State | Code |
|---|---|
| `ppc`, `pnow`, `activeEvent`, `reported` | the poller, the `now` of the poll under way, `activeEvent`, the telemetry's calendar section |
| `dpc`, `state`, `lastState`, `age` | `Step` between reading and pushing; `lastState` with `hasPushed`; the time since `lastPushAt` |
| `cell`, `inHand`, `late` | the mailbox, the worker's frame, a frame given up that is still on its way |
| `screen` | the device (external) |
| `calendar`, `bound`, `googleUp`, `deviceUp`, `clock` | Google, the store, who can be reached, the time |

`PollBegin`, `PollStore`, `PollFail` and `PollHang` are the ways through `Poll`; an
answer is weighed against the time at which the poll began, as in the code. `StepRead` and
`StepPush` are `Step`, between whose two halves everything else may happen. `Transmit` may lose
the frame or leave it on its way, and `LateFrame` delivers it after newer ones. The
device may restart with a blank screen. The tickers are not timed: a loop may come
round at any moment. `Step` reads the clock twice, a moment apart; the model takes them
for one instant.

### DisplayRendering (`display.go`)

`TruncateTitle`, the glyphs, `drawString` with its clipping, the colours, `RenderFrame`
as a function from the byte's index to its value. The font is a constant. `MCCalendarDisplay`
evaluates it on a few characters (`DrawingExamples`); what holds for all is proved.

### Configuration and BridgeLifecycle (`config.go`, `main.go`, `runner.go`)

`Configuration` reduces a raw value to what `Parse` and `Validate` tell apart and has
the layers in their order: defaults, environment, flags, validation; and `Wired`, the
components `NewRunner` makes of the result. `Raw(k)` is what an environment variable or a
flag may say of the setting `k`; a launch is any environment and any sequence of flags with
such values (`LaunchAssumption`), and the settings are those of `config.go`.

`BridgeLifecycle` is the process: `Configure`, `Start` (one component after the other, in
`Run`'s order), `StartFails` (which leaves behind what has been started), `Started`, then
`HandleFrame` until `LeaveLoop`, then the shutdown: `CancelSync`, `BusyClosed`, `Drained`,
`Waited` (all have returned, or the time is up), `StopServer`. Beside it there are the
signal, a `Close` or `Shutdown` called by somebody else at any moment after the start,
the goroutines of the components (`worker`, told by the context or by their `Close`),
the device, and the goroutine that copies the connection state into the telemetry in
two steps, `SyncAsk` and `SyncTell`. A frame is a token. A `Close` or `Shutdown` before the
start is complete is excluded (`MayStop`): nothing in the repository calls it there, and
it is what makes the bridge an owner as `FrameStream` wants it (`UsesStream`).

## 3. The runs

| Run | Checks | Instance |
|---|---|---|
| `HassQueue` | `NoSendOnClosed`, `OneRecord`, `RelaySpec` | 3 events, 2 producers, 2 closers, queue of 2, one retry, TTL 1; symmetric; 2.0 million states |
| `HassRetry` | `FreshPost`, `OutcomeJustified`, `DeliveryBound` | 2 events, queue of 1, 2 retries, TTL 4, timeout 2; 3.5 million states |
| `HassLive` | `EventuallySettled`, `CloseReturns` | 2 events, queue of 2, 1 retry, TTL 2; 252 thousand states |
| `HassUnrecorded` | violates `DispatchRecords` | 2 events, 1 retry |
| `Push` | `InsertNeverBlocks`, `Accounted`, `MailboxSpec`, `MailboxDrains`, `CloseReturns` | 2 pushers, 2 closers, 4 frames; 7 thousand states |
| `PushLateStart` | violates `CloseTerminatesWorker` | the same |
| `Calendar` | `FileComplete`, `MemoryMatchesFile`, `TempsBounded`, `BoundByConsent`, `StatusCoherent`, `BindingSpec`, `Answered` | `OAuthLink`: 3 requests, 2 browsers, 2 logins, 2 crashes; 941 thousand states |
| `BusyBar` | `ClosedIsQuiet`, `StreamSpec`, `ResetOnlyWhenStable`, `BrokenNoticed`, `KeepsTrying`, `CloseReturns` | 2 closers, channel of 2, backoff 2..4 by 3/2, stable after 2, `Start` and `Close` in any order; 263 thousand states |
| `BusyBarSilence` | violates `SilenceNoticed` | 1 closer |
| `Pipeline` | `RingIsNewest`, `OutcomeOnItsTrace`, `Books`, `OneSchema`, `SentIsReadable` | 4 events, queue of 2 plus the worker, ring of 2, frames of up to 2 updates, 3 encoder steps, 5 times, floats of 3 bits and integers of 13; 171 thousand states |
| `Display` | `NeverOverdue`, `OutageKeepsMeeting`, `ScreenConverges`, `MeetingsLeave` | 5 meetings, 2 of them in the calendar at a time, 2 units of time to a minute and 1 to the horizon, 1 change to the calendar; 350 thousand states |
| `Bridge` | `StartedAsConfigured`, `CleanReturn`, `RunEnds`, `NothingLeft`, `TelemetryFollows` | 7 launches, channel of 1 frame; 35 thousand states |

Type correctness is proved for every module with a state (section 4) and is no property
of the runs.

Why the bounds suffice:

* `HassQueue`: a queue of two with the worker holding a third event is full and
  overflows with three events as soon as one has been dispatched or the worker has
  not started; two producers and two closers give every pair of lock holders.
* `HassRetry`: with backoffs of 1 and 2 and a timeout of 2, an event can expire in
  the queue, in a request or in either backoff, and can also use up all three
  attempts within its TTL of 4. One producer is enough, for retries are the business of
  the worker alone.
* `HassLive` has no symmetry, which would be unsound for liveness.
* `Push`: four frames suffice to have one with the worker, one in the slot, one
  superseding it and one being pushed by the other pusher.
* `Calendar`: three requests, so that one may hold the lock, one wait for it and
  one be between test and `Save`; two browsers and two logins, so that one browser
  may have logged in twice, or come back with the other's code; two crashes, so that
  one may interrupt the first save and one the save after the restart.
* `BusyBar`: the backoff goes 2, 3, 4 by truncation and stays at the cap 4;
  `StableThreshold` is longer than the ping interval, so connections fail on either side
  of it. Two callers of `Close` may come before and after `Start`, and meet anywhere. The
  counters saturate at `MaxCount`; nothing depends on their value.
* `Pipeline`: the ring is shorter than the queue plus the worker, so outcomes arrive
  after their traces have left. (In the program the ring holds 10 and the queue is
  larger by default, so this is the normal case under load.) Every button, action and
  position the device can send is there, a value unknown to this version too; the
  encoder steps are negative, zero and positive. Of the times two are not positive, one
  is below `Precision` (8), one lies in the middle between two floats, and one is the
  largest integer, which overflows.
* `Display`: five meetings: one that ends at 1; one from 0 to 3 that somebody else has
  declined, and its like that the user has declined or that has been cancelled; and one
  from 1 to 5. So two may overlap and end at different times, and the change to the
  calendar adds, takes off or replaces one of them. The clock
  stands at 1, after one end and one start, while the tickers and the keep-alive go on,
  and "the screen comes to show what the calendar says" is about that time: none, one or
  two meetings still run then, and of two the one that comes first has to be shown. A
  minute is longer than the unit of time, so that countdowns are rounded.
* `Bridge`: a launch with everything on, one that takes a switch back on the command
  line, and one for each way of being refused: a missing token, a garbled and an invalid
  environment variable, the first under a good flag, a garbled and an invalid flag. One
  frame in the channel suffices to have frames left when the loop ends.

Bounds are always constants of the modules: `MaxFrames`, `MaxCrashes`, `MaxLogins`,
`MaxEvents`, `MaxUpdates`, `MaxCount`, `Horizon`, `MaxEdits`, `MaxItems`; the set `Events` bounds what
producers offer. All runs set `CHECK_DEADLOCK FALSE`, since each of the systems may come
to rest: the client is closed, the frames or the requests are used up, or the bound is
reached.

Fairness is weak, with one exception, and on the program's own steps only:

* the worker, `Close` and a producer that holds the lock run (the Go scheduler);
* time passes, hence timers fire and a request ends at its timeout;
* in `BusyBar`, a dial and an activation end (they have timeouts), and a live device
  answers a ping;
* in `Calendar`, a request that has begun goes on as long as the process lives;
* in `Display`, the tickers fire, the goroutines run, a request that Google serves is
  answered, and a frame on its way to a device that is there does not stay on its way.
  That an unreachable Google answers with an error rather than with silence is *not*
  assumed: `PollHang` may happen in place of `PollFail`, so `ScreenConverges` carries the
  condition that no poll has hung and `MeetingsLeave` does not;
* in `Bridge`, `Run`, the components' goroutines and the copying goroutine run. The
  exception is strong fairness of `SyncExit`: the copying goroutine selects between its
  ticker and a context that stays done, and Go's `select` does not choose the ticker
  for ever.

Nothing is assumed of producers, of Home Assistant, of the network or of browsers, nor of
when the context is cancelled. `Start`, `Close` and `Shutdown` may be called at any moment
and by several callers, with two exceptions. In `BridgeLifecycle`, `Close` and `Shutdown`
wait for the start to be complete (`MayStop`). And some properties speak of some calls
only: those of `BusyBarClient` as said there, and `CloseReturns` of `PushClient` of a
`Close` that can see the context of `Start`.

### What the violations show

* `HassUnrecorded`: a context cancelled during a retry's backoff makes `dispatch`
  return with no record, so the event's trace stays `pending`; the comment on
  `dispatch` promises an outcome. `OneRecord` states the same with the exception of a
  cancelled context and holds.
* `PushLateStart`: `Start` sets its flag, `Close` runs and finds no cancel function yet and
  no worker to wait for, `Start` stores the function and launches the worker: in a live
  context, behind a client that is closed. `Start` does not look at `closed`.
* `BusyBarSilence`: neither `Ping` nor `Read` has a deadline, so a peer whose TCP
  connection stays up but which stops answering is reported as connected for ever;
  `INTENT.md` promises read deadlines.

### Remarks

What the modelling brought to light beside these:

* `ResetOnlyWhenStable` needs a multiplier of at least one and `InitialBackoff <=
  MaxBackoff`; `NewClient` demands neither. The program sets neither: only the host is
  configurable.
* A WebSocket client that is started after a `Close` (`client.go:208` tests `c.cancel`
  only) sends its first frame on the channel that `Close` has closed, and panics; a `Close`
  that has read `c.cancel` before a `Start` and waits after it waits for a goroutine that
  nobody cancels; and one that has not waited leaves that goroutine behind. `Runner.Close`
  during `Run`'s start would do it, for it closes this client first, while the start goes
  on; nothing calls it there. `hass.Client.Start` refuses a closed client.
* A timestamp is a fixed64 on the wire and an `int64` in an `Event`, but `UnmarshalJSON`
  reads it as a `float64`: beyond 2^53 it comes back rounded. Times in seconds or
  milliseconds are far below that.
* `OutcomeOnItsTrace` says what the code does of an event that was dropped or has expired:
  its trace stays `pending`, for `RecordDrop` does not take a trace ID.
* The copying goroutine is not waited for. One that has asked before the shutdown's
  `SetConnected(false)` may tell "connected" afterwards, which `runner_test.go:419-421`
  does not expect. It calls `SetConnected` every 100 ms, connected or not; the reconnect
  counter has an increment that nobody calls.
* `Run`'s shutdown begins when the context is done, and so is the dispatcher's worker:
  the events still in its queue go without a record, although the comment on the
  shutdown says that they are flushed. `RelaySpec` has them as `lost`.
* A second caller of `hass.Close` returns at once, so `Run`'s normal return may leave the
  dispatcher's goroutine to whoever called `Close` first. `CleanReturn` says so.
* A hung poll (the client has no timeout) ends polling for good; what was cached still
  ends on time. The telemetry reports the meeting last cached, past its end, until the
  next poll. A second meeting that overlaps the cached winner is shown only after a
  poll that follows the winner's end.
* With a blank device ID one encoder says `busybar` and the other an empty string. The flag
  is `--busybar-device-id`; `INTENT.md:170` calls it `--device-id`. `ForwardStateEvents`
  is parsed and not used.
* An answer to an old callback clears the cookie of a newer login of the same browser,
  which then has to be begun again.

## 4. The proofs

All are safety, for every value of the constants that satisfies the modules' assumptions.

Behind a liveness property there is usually a safety property that can be proved, and
here it is: from the moment something is told to stop, a number `Left` that no step of
anybody raises and that every step of the goroutine concerned lowers (`WindsDown` in four
modules), or a stair of facts none of which is lost once reached (`StairIsKept`). What is
left for the runs to show is that, given fairness, the steps are taken.

**HassDispatcherProofs.** `TypeCorrect` from `Inv1`, which adds to `TypeOK` that only the
head of the retry loop can see the attempts used up (`Retriable`), without which
`attempt` would outgrow its bound, and that a worker means a started client
(`Launched`). `NoPanic` from `Inv2`: a producer between test and send excludes the
closed flag, for `Close` sets it under the write lock, and a closed channel implies
the flag. `OnlyFreshPosts` relies on `Inv1` for the range of `age`: the only steps to
`post` are those that have just tested `Stale`, and no time passes between test and
request. `OneRecordEach` strengthens `OneRecord` by `Places` (together `Inv3`): an event
is at one position of the queue, in the hands of the worker, or in those of one
producer, and nowhere twice; only offered events are anywhere. Without it a second copy
of an event could be recorded again. `OutcomesJustified` and `DeliveriesBounded` come
from `Inv4`: of an event that the worker has not received nothing has been tried
(`Untried`); the loop variable is the number of attempts on record for the event in hand,
and a request exists only while one is made (`Counted`); what Home Assistant has
processed and what is still on its way to it come to at most one per attempt, the one
under way included (`Delivered`). `ImplementsRelay` maps the
event in hand and the queue to one line and the record to the verdict; a send appends,
the end of a dispatch takes off the head, a cancelled context turns what leaves into
`lost`, and the rest stutters. It needs `Inv3`: without it the event that leaves might
be elsewhere in the line too. `CloseWindsDown`: `Left` counts four steps for each attempt left
of the event in hand, what remains of the one under way, and `PerEvent` for each event
in the queue, which is closed to new ones; at the start of it that is at most
`PerEvent * (BufferSize + 1) + 1`. `NothingSentOnceStopped`: the requests sent about an
event, those given up included, do not grow once the context is done; so what is left
in the queue is never sent.

**PushClientProofs.** `Inv` conjoins types, mutual exclusion of the pushers between
`try` and `insert` (`Mutex`), the emptiness of the slot before `insert`, the accounts,
and that the worker has a frame exactly when it is transmitting (`Hand`). From it
follow `TypeCorrect`, `NeverBlocks`, `CountersAgree`, and `ImplementsMailbox`, the
refinement: each action maps to `MPut`, `MTake`, `MFinish` or a stutter. The
mapping shows a new frame in the cell from the moment the old one is gone; that
nobody fills the slot in between is `InsertNeverBlocks`. `CloseWindsDown`: once the flag is
set no further `PushFrame` gets past its test, and what is under way are at most 14 steps of
the worker and of the one pusher inside the lock. `FewRequestsAfterClose`: at most three
requests go to the device after the flag, for the frame in hand, the one in the slot
and the one of that pusher.

**BusyBarClientProofs.** `Inv` conjoins types, what there is of a connection by where
`run` is (`Connection`), what a `Close` that has found a cancel function has done and
waited for (`Cancelled`), and who may have closed the channel (`Channel`): the end of
`run`, or the `Close` of a client that was not started, which can run only if it is
`Overtaken`. `NoPanic` (the panic only then) and
`QuietAfterClose` follow, and with the whole of `Inv` `ImplementsStream`: the adoption
and the loss of a connection are `FConnect`, a frame `FReceive` and `FTake`, the
deferred close or that of `Close` `FEnd`, a start that comes too late `FLateStart`, and all
else stutters, asks the client to close or ends its context. `RunWindsDown`: once the
context is done, `run` makes at most three more steps and none of them is a new attempt. `BackoffOnlyGrows` is the action property
`ResetOnlyWhenStable` for every multiplier of at least one (`Growing`); its invariant
`Rising` says that the delay slept last is at most the backoff kept for the next one.

**CalendarStoreProofs.** `Inv` conjoins types (the lock is held exactly inside `Save`),
the completeness of the file, that a process that is down has no requests (`Alive`),
that memory and file agree except between rename and publication (`Synced`), and
what each request may conclude from where it is (`Progress`). `ImplementsOneTimeBinding`
maps `bound` to the binding on disk: the rename is the moment of linking, a crash
after it does not undo it. `TempsStayBounded` counts the files whose owner does not hold
the lock (`LeftByCrash`): only a crash makes one.

**OAuthLinkProofs.** `ImplementsStore`: a step of the linking is a step of the store or
leaves it alone; hence `LinkBindsOnce` and `LinkKeepsTheFile` by citation. `BoundOnlyByConsent`
from `Consented`: a request past the exchange has a login that is spent, and every
request under way has one that was answered to its own browser. `StatusAgrees` from
`Answering`: what the page has heard is still so, since nothing unbinds while the process lives.

**EventPipelineProofs.** `TypeCorrect`; `RingHoldsNewest` by the two cases of
`AppendTrace`; `OutcomesInPlace` from an invariant that adds `LineOK`: events in the
line have no verdict yet, occur there once, and have been recorded. It cites
`RingIsNewest`: IDs in the ring are distinct and old enough, so that marking by ID
touches one trace. `LineInOrder` is about `EventRelay` itself: no verdict changes
(`VerdictsStay`), and of two events the one accepted first has its verdict first
(`FirstInFirstOut`), because nothing in the line occurs twice or has a verdict
(`InLine`). As the dispatcher implements the relay (`ImplementsRelay`), it is true of
it. `UsesRelay`: so is it of the pipeline. `BooksBalance` adds that the set of lost
events changes by the event that leaves the line and by no other. `SchemasAgree` and
`SentReadsBack` go through the three types of input, with one lemma for each direction
of the JSON conversion; a stamped time is positive, so that no later fallback applies
(`StampPositive`). A delta of 32 bits goes through a `float64` unchanged (`DeltaIsExact`);
of a time it is shown that the gap between floats around it is at most a `Precision`-th of
twice the time, so that rounding to the nearest moves it by less than one part in `Precision`
(`SpacingIs`, `NearestIs`, `TimeIsNear`). From them and the types come `ShownInOneSchema`
and `ShownCanBeRead`, for any deltas and for times up to the largest `int64`.

**CalendarDisplayProofs.** `OrderIsTotal`: of two active events with different times or
titles one precedes the other, so the choice depends neither on the order of Google's
list nor on the sort. That a first one exists (`FirstExists`) takes the least end, among
those the greatest start, among those the least title. `Overdue` from an invariant by
which every frame anywhere on the way was composed from a cached meeting that was chosen
by some poll (`Cached`) and ran when the frame was composed; time only makes that truer
(`SeenLater`). `OutageKeeps` is the action property; `Reported` that telemetry and cache
agree. `StairIsKept` has six steps from the poll to the screen: the cache is true and no
poll under way will make it less so; no stale state is about to be pushed; the last
state pushed and the mailbox are true; so is the frame in hand; so is one still on its
way; so is the screen. True is what the calendar says at this time (`Truth`, which is
`ShowsTruth` when the screen has it: `TruthIsDue`). While Google and the device can be reached and neither time nor
calendar moves, each is kept once those below it hold; it needs that what a poll caches
is what `GetCurrentEvent` tells at that time (`WinnerIsShown`). `CountdownRoundsUp`:
what is shown is the time left rounded up to the minute, in hours and minutes below 60.
`TextIsLegible`: for lines of up to 14 characters every dot of every character, lit or
dark, is the byte of the frame it should be, in its line's colour; it rests on the
inverse of the index (`IndexInverse`) and on the boxes of the characters being disjoint
(`OwnBox`, `OwnRows`). `TitleFits`: any summary gives 1 to 14 characters.

**BridgeLifecycleProofs.** `Inv` adds to the types that nothing runs but what `NewRunner`
has made (`Made`), and follows the shutdown (`Shut`): past `closeBusy` the WebSocket
client has ended, so past `drain` the channel is and stays empty; what `Run` does not wait for
is at most a dispatcher that somebody else is closing; what it has waited for in time is
gone. `ReturnsClean` is `CleanReturn`, whatever `Close` and `Shutdown` do beside it.

`StartsAsConfigured` is about any environment and any command line. The flags are laid
over the settings one after the other, which is a fold. `FlagsLast` gives its closed form:
of each setting, what the last flag that speaks of it says, or else what it was before. An
induction is not to be had, so the proof supposes that the two differ for some of the
flags, takes the least number of leading flags among which they do (`Least`, from the
well-foundedness of the naturals), and contradicts it with one more flag (`OneMore`).
`GivenIsParsed` then identifies `Given`, in which the property is stated, with what `Parse`
returns, `Accepted` draws the conclusions from `ParseOK`, and the invariant `Chosen`
carries them to whatever is started (`Begun`).

`UsesStream`: what the bridge does with frames, connection and end of the client is
`FrameStream`, so that the client of `BusyBarClient` is one the bridge can be built on.
`RunWindsDown`: once `Run` has left its loop, or the client's channel is closed, `Run`
returns within `MaxFrames + 6` of its own steps: one for each frame that may still have to
be handled, and at most six through the shutdown. The wait for the client's goroutine
is not a step of `Run`; that it ends is what the fairness of the run adds.

Every safety property that a run checks is stated by a theorem. Model-checked only:
liveness, which is out of the prover's reach, that is `EventuallySettled`,
`CloseReturns`, `MailboxDrains`, `Answered`, `BrokenNoticed`, `KeepsTrying`,
`ScreenConverges`, `MeetingsLeave`, `RunEnds`, `NothingLeft` and `TelemetryFollows`. The
theorems on winding down and on the stair are what of some of them is safety: of
`CloseReturns` in all three clients, `ScreenConverges` and `RunEnds`. That a theorem of
an abstract specification holds of what implements it is said here in words: no module
joins `LineInOrder` and `ImplementsRelay`.

## 5. Not modelled, and why

* The status server's other pages, options and template, `GetDisplayState`, `Snapshot`:
  they read and render. The page reads its parts one after the other, and nothing promises
  that they belong to one moment.
* `Decoder.Run`: the runner does not use it.
* A power failure: crashes are those of the process, what was written stays.
* Timestamps, latencies, error texts, the counters of polls, HTML, the layout of dates
  and of the JSON text, log lines, command-line help.
* The URLs, headers and bodies of requests; the oauth2 token source (external).
* Generated protobuf code, of which only the names of the inputs are used; the build and
  development tools.

## 6. Plan

Done, in this order: the dispatcher and its relay; the push client and its mailbox;
the binding store; the WebSocket client; the event pipeline; the linking on top of the
store; the event types; poller, display and drawing; configuration and the bridge's
life; proofs of all safety properties; the stream of frames as the client's abstract
specification; what of the liveness is safety, for the ends of the clients, of `Run`, and
for the screen.

Left:

1. The bridge's life with the detailed clients in place of goroutines: the shutdown's
   timeout against a device that hangs, which `BridgeLifecycle` has as a free choice. The
   product of the state spaces is the obstacle; the abstract specifications, which now
   exist for all three clients, are the way.
2. The safety part of `Answered` (a request that has begun has few steps left), of
   `BrokenNoticed` and `KeepsTrying`, and of `NothingLeft` and `TelemetryFollows`.
3. The status page as a whole: what it may show of two moments at once.
