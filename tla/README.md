# Verification of the alert server

TLA+ models of the forex alert server in `src/` (C++, Drogon/trantor), TLC runs that
check them on small instances, and theorems about them that TLAPS proves for every
instance. Paths below are relative to `src/`; `main.cc` is `src/main.cc` and so on.

1. Inventory of the system
2. Plan
3. The modules and the code
4. The runs
5. Assumptions on scheduling
6. The theorems
7. What the models show about the code
8. What is not modelled

## 1. Inventory

### Threads

| thread | runs |
|---|---|
| cTrader loop | the TLS connection, its timers, `MarketHub::onSpot`, live trend bars |
| Drogon loop and HTTP threads | routes, WebSocket handlers, the hub's tick, Redis and HTTP client callbacks |
| `alert-persist` | every database write (`dbExec`), alert events, `NotificationQueue::enqueue`, the timers of `main.cc` (expiry, refresh, flush, poll, warm-up, metrics) |
| `alert-eval` | evaluation of price and candle alerts |
| `alert-notify` | pump, dispatch, backoff and release timers of the notification queue |
| gap worker | `FVGService::workerLoop` |
| detached threads | the lookback of sweep alerts, `/me` |

### From a price to a phone call

    cTrader spot -> MarketHub::onSpot -> quote sink -+
    hub tick timer -> snapshot -> alert sink --------+-> pendingQuotes -> checkPriceAlerts
    live bar, clock, poll -> CandleAlertMonitor -------> checkCandleAlerts
    spot -> BarAggregator -> FVGService -> gap report -> checkFvgAlerts
       -> persistAlertThen (worker) -> onTriggered_ -> dbExec { insertAlertEvent,
          NotificationQueue::enqueue, WebSocket push } -> sound, SMS, call

### Components

| component | state | operations | what is hard | what makes it correct |
|---|---|---|---|---|
| Alert store, `alerts/AlertManager.cc` | `alerts_` and its indexes under `mu_`; rows in PostgreSQL | evaluate, trigger, expire, arm queued steps, load | the cache changes under the lock, the row later on another thread; failures are undone after others have seen the change | one report per one-shot alert, never before its row is saved; queued steps wait and then move; no request blocks for ever |
| Alert requests, `controllers/Routes.cc` over `AlertManager` | cache and table; compensation of a half-made batch | create in ten kinds, batch, draw batch, read, update, delete | several sections and waits per request, each of which can fail or meet another request | what a request is told is what cache and table hold |
| Notification queue, `services/NotificationQueue.cc` | `pending_`, `callGates_`, idempotency keys, dead letters in Redis | enqueue, merge, hold, dispatch, retry, release, dead-letter loop | three threads, timers, answers in any order, a limit on held calls | one call per number and minute, held calls go out, nothing sent twice, every job ends |
| Providers, `services/Notifier.cc` | none | SMS, call, e-mail requests | answers may fail or never come | environment of the queue |
| Market hub and hand-over, `market/MarketHub.cc`, `main.cc` | `states_`, `pendingQuotes`, `evalScheduled` | spot, tick, schedule, evaluate | a flag outside the mutex, two writers | no wakeup lost, the newest price evaluated |
| cTrader client, `ctrader/` | connection, tokens, back-off, subscriptions, requests with timeouts | connect, log in, refresh, subscribe, reconnect; trend bars | callbacks and answers of an abandoned connection, a circuit breaker, paused output | never given up; every wanted symbol is streamed in the end; every bar request answered |
| Candle rules, `AlertManager.cc` 1953-2740 | phases of sweep, hour-sweep, session and candle-2 alerts | judge a closed candle | long courses of candles; holding back; refused writes | in their window, hour and session, and once |
| Structure engine, `market/StructureEngine.cc` | candles and levels per pair and interval | append, reset, ingest history | incremental reading of a sliding window | what is read candle by candle is what the track means |
| Candle monitor, `alerts/CandleAlertMonitor.cc` | tracks, warm-ups in flight, subscriptions | warm up, live bar, close by timer, poll, sync | bars from four sources on two loops; lost connections | each closed bar judged once, after it is over; what is needed is subscribed |
| Gap pipeline, `fvg/` | bars, gaps, warm-up keys | aggregate, detect, fill, warm up | warm-up against live bars; half bars | only real gaps are reported, once; filled ones leave |
| WebSocket observers, `controllers/WsObserveController.cc` | connections, counts, copies of alerts | open, close, broadcast | handlers on several loops, a revision read before what it stands for | counted once, shown the alerts, silent ones dropped |
| Accounts, `Routes.cc`, `AuthRoutes.cc`, `PostgresService.cc`, `Migrations.cc` | plan, login, delivery settings, `/me` | onboard, tour, tier, settings, bootstrap | two statements of which one may fail; a timer against a thread; restarts that revise old accounts | one trial; cache as table; one answer |
| Quota, `services/SubscriptionService.cc` | daily counters in PostgreSQL | check, count | check and count are apart | the plan is missed by a bounded number |
| Previous day levels, `market/PrevDayLevelProvider.cc` | levels per pair and day | refresh | answers of yesterday | levels belong to their day |
| Routes of pages and favourites, migrations, configuration, utilities | per request | HTTP, SQL | validation | stateless, or plain SQL |

## 2. Plan

The path from price to phone call first, since every other part feeds it; then the cTrader
client, then what consumes its answers, then what surrounds the path.

| module | about | status |
|---|---|---|
| `AlertStore` (+ `MCAlertStore`, `AlertStoreProofs`) | cache, worker, requests, queue steps, restart | done |
| `NotificationQueue` (+ `MC`, `Proofs`) | delivery, call gate, retries, dead letters | done |
| `QuoteBox`, `MarketFeed` (+ `MCMarketFeed`, `MarketProofs`) | hand-over of quotes, abstract and detailed | done |
| `TrendbarQueue` (+ `MCMarketFeed`, `BarsProofs`) | requests for historical bars, the session as an environment | done |
| `CTraderSession` (+ `CTraderSessionProofs`) | connections and their callbacks, login, refreshes, breaker, subscriptions | done |
| `CandleMonitor` | subscription, warm-up, closing of bars | done |
| `CandleRules` (+ `MCMarketFeed`, `MarketProofs`), `Structure` (+ `MCRequests`, `BarsProofs`) | state machines of candle alerts; the incremental engine against a reference | done |
| `FairValueGaps` (+ `MCGaps`, `FairValueGapsProofs`) | from ticks and warm-ups to reported gaps | done |
| `AlertRequests` (+ `RequestsProofs`) | HTTP requests about alerts, with compensation | done |
| `DeliveryQuota` (+ `RequestsProofs`) | check and count, of sends and of alerts | done |
| `Account` | plan, settings, bootstrap, restart | done |
| `WsObserve` | observers, broadcasts, limits | done |
| `StreamsProofs` | theorems about `WsObserve`, `Account` and `CandleMonitor` | done |
| `MCMarketFeed` | instances of `MarketFeed`, `CandleRules`, `TrendbarQueue` | done |
| `MCRequests` | instances of `AlertRequests`, `DeliveryQuota`, `Structure`, a batch of `AlertStore` | done |
| `MCStreams` | instances of `WsObserve`, `CTraderSession`, `Account`, `CandleMonitor` | done |
| `NotificationStream` | jobs mirrored in Redis, two processes, crash recovery | open |
| `PrevDayLevels` | day roll-over and the alerts it expires | open |
| `AlertStart` | `loadAlerts` against early requests | open |

Composition: `AlertStore` reports into `told`, where `NotificationQueue` starts from
`fresh`; `MarketFeed` ends in `Evaluate`, which is `AlertStore`'s `CheckAlerts`;
`CandleMonitor` ends in `Evaluate`, which is `CandleRules`' `CheckCandle`, and its warm-ups
are `Structure`'s `AskHistory` and `Ingest`; `NotificationQueue` asks `DeliveryQuota` in `Dispatch`,
whose plan is that of `Account`. Each side is the other's environment (it does at any time
what the other may do), so they are checked apart: a property of one holds for every
behaviour of its neighbour.

No theorem of the plan is open: every invariant and action property that a run checks is
proved of its module. What stays with TLC is named at the end of section 6.

## 3. The modules and the code

### AlertStore

| state | code |
|---|---|
| `mem` | `AlertManager::alerts_` (status, `requireUnmetSinceArm`, `dependsOnAlertId`, `chainId` set or not) |
| `db` | the `alerts` table |
| `dbQueue` | tasks of the loop `alert-persist`, in the order `dbExec` got them |
| `batch`, `expiring` | `toPersist` of `checkPriceAlerts` and of `expireTimedOutAlerts` after the unlock |
| `http` | each HTTP thread: the request, where it stands, the writes it still has to make |
| `past` | alerts whose `expires_at` has gone by |
| `told`, `saved`, `edited`, `used` | history, read by properties (and `used` to keep ids fresh) |

| action | code |
|---|---|
| `CheckAlerts(S)` | one section under `mu_` of `checkPriceAlerts` in which the alerts `S` are due: expired, gate cleared, or fired; steps behind a fired one are armed |
| `EnqueueWrite` | `persistAlertThen` for one changed alert, after the unlock |
| `RunUpsert`, `FailUpsert`, `RunDelete`, `FailDelete`, `RunEvent` | the worker with the continuation of each task: promise, roll-back, report |
| `ExpireTimedOut`, `WriteExpired`, `FailExpired` | the expiry timer, which writes inline |
| `Create`, `CommitCreated`, `Update`, `Delete` | the section under `mu_` of `createPriceAlert`, `commitCreatedAlerts`, `updateAlert`, `deleteAlert` |
| `CallSync`, `ResumeOk`, `ResumeFail` | `persistAlertSync`, `persistDeleteSync`: hand over, block, go on or take back |
| `TryTrigger`, `ArmDependents` | `tryTriggerPriceAlert` and `armDependentAlerts` on the creating thread |
| `PassTime`, `Crash` | the clock; death and restart of the process, which loads the table |

Which alerts are due is a choice of the environment: prices and candles are not in the
model, so a property holds for every price. Alerts that stay active when they fire
(`structure_session`, `sweep_confirm`, `hour_sweep_cisd`, `candle2_closure`) are
`Repeating`; here they are created in batches only.

### AlertRequests

The same store seen from the requests. Each handler is one record (`at` is the place in
the handler, `n` the alert of a batch it is at), `cache` and `rows` are `alerts_` and the
table, and a write is one step that may fail: the queue in between is `AlertStore`'s. The
cost is that firing is left out; the gain is that all ten kinds of request, their
validation and their compensation fit. `Route` is the case distinction of `createAlert`
with the arguments each `create*` of the manager accepts; `Insert` with `WriteParent`,
`WriteRow` and `GiveUp` is `createDrawAlertBatch` and the single creations, with the chain
id that `applyDependsOnLocked` gives to the alert waited for; `Commit` with `WriteNext`,
`FailNext` and `Unmake` is `commitCreatedAlerts`; `Check`, `Change`, `Save` and `FailSave`
are `updateAlert` in the route and in the manager; `Owned`, `Drop`, `Erase` and `Get` are
`deleteAlert` and `getAlert`.

`torn` collects the alerts two handlers worked on at once, and those whose compensation
failed. The properties speak of the others: the code has no lock around a request, and the
models show that nothing outside `torn` depends on one. `Deleted` are the alerts some request
asks to delete, which need not be there although their creation was confirmed.

### NotificationQueue

`pending`, `held`, `inFlight`, `scheduled`, `queuedIdems` and `deliveredIdems` are the
fields of that name; `window` says that the last accepted call is less than
`kCallWindowSeconds` old. `current` is the job between `pump`'s unlock and its dispatch,
`flights` are jobs whose answers are out, `retrying` are jobs waiting for their back-off
timer, `dlq` is the list in Redis, `bell` the call status `updateAlertEventDelivery`
writes, and `sent` counts what providers accepted.

`Enqueue` and `TakeDeadLetter` are `enqueue` (with merge and hold), `Pop` is `pump`,
`Dispatch` is `dispatchAllChannels` up to the requests, `Answer` one provider's callback
with `onDone` when it is the last one, `Retry` the back-off timer, `ReleaseHeld` and
`ReleaseNothing` the timer of `releaseHeldCalls`, `WindowEnds` the clock. SMS stands for
every external channel without a gate. `Dispatch(barred)` leaves to the environment
which channels have no address, no service or no quota.

### DeliveryQuota

Notifications: `ReadPlan` and `ReadUsage` are the two queries of `canSendNotification`,
`ProviderTakes` and `ProviderRefuses` the provider's answer, `Count` is `incrementDailySms` or
`incrementDailyCall`. `used` is `user_daily_usage` of today, `sent` what really went out today.
Three more steps are what the code does not notice: `MissUsage`, where `getDailyUsage` catches
an error and returns nothing used; `MissCount`, where an increment catches one and counts
nothing; `AnswerIsLost`, where the provider took the message and its answer is read as a
refusal. `lapses` counts them by day. (An error in reading the plan throws, and nothing is
sent.)

Alerts: `alerts` says how many the user has by status, `making` what requests were let through
for and have yet to make. `CheckCreate` is `rejectIfSubscriptionBlocksCreate` and the checks of
the batches with `canCreateAlert`, which count active and waiting alerts; `CheckDraw` is the
check of `createDrawAlertBatch`, which counts active ones only; `CheckUpdate` that of a PUT,
which counts active ones less one, whatever alert it is about. `CommitCreate` is a creation,
waiting if it is behind another alert, `CommitUpdate` is `updateAlert`, which takes over any
status, so it may reopen what had triggered. `Fire` is a trigger with the steps it arms,
`CloseStep` and `Forget` an expiry or a deletion, `PutBack` and `Disarm` the cache as it is
restored when a write is refused or lost in a restart. `before`, `steps` and `returns` are what
`FreeSlips` needs to remember: the fewest alerts open since the plan became free, the most
that waited at once, and those that were closed and came back other than by a PUT. The plan
changes, midnight passes and the process stops at any time.

### QuoteBox and MarketFeed

`QuoteBox` says what the hand-over promises: a box that keeps the last price put in per
pair, and an evaluator that empties it in one go. `MarketFeed` is the code: two sinks on
two threads, `pendingQuotes` under its mutex, the flag `evalScheduled` outside it, the
queued evaluation, and the second look after the flag went down. The refinement maps
`box` to `pendingQuotes` and `batch` to `batch`. A price is the number of the spot that
brought it, so "newer" can be said.

### CTraderSession

`tcp` is the connection of `client_`: connecting, up, or shut down by us and still
receiving ("half"); `dying` says that a connection `connect` destroyed has yet to call
back. `flag`, `timer`, `breaker`, `attempts` are `reconnectScheduled_`, the scheduled
reconnect, `circuitBreakerUntil_` and `reconnectAttemptsInWindow_`; `http` counts token
refreshes under way by what they are for, because their answers come on Drogon's loop, on
whatever connection there is by then. `answers` is what the server will say: to each request of
the login what it asked for or an error, and of errors (`Errors`) those the code tells apart, the
token errors, `BLOCKED_PAYLOAD_TYPE` and all others. `streamed` is what it streams on this
connection, `refused` what it turned down on it with nothing done about it; `subscribed` and `pending` are `subscribedSpotIds_`
and `pendingSpotIds_`, `refresh` and `posted` the way of a wish from `main.cc` to the
client's loop.

Actions are the callbacks: `Connect`, `FailToResolve`, `FailToConnect`, `Connected`,
`Closed`, `CallBack` (of the destroyed connection), one `Receive...` per frame of
`handleFrame`, `HttpOk`, `FailLogin`, `FailError`, `FailErrorEnv` for refreshes,
`TokenExpires`, `Invalidated`, `Limited` for `handleOaError`, `ReceiveError` for an error in
answer to a login about which it does nothing, `Denied` for a refused subscription, `Wish`, `RefreshNow`,
`RefreshSpots` for subscriptions. Delays are left out: a timer fires at any time. Of trantor
the model assumes that a destroyed connection calls back before its successor is up, and
that one that is only shut down goes on receiving.

### TrendbarQueue

`jobs`, `active`, `busy`, `gap` and `pending` are `trendbarQueue_`, `trendbarActive_`,
`trendbarBusy_`, `trendbarGapPending_` and the keys of `pendingTrendbars_`, each with its
timer; `isReady` and `conn` are `ready_` and whether `conn_` is set; `lastId` is `msgIdCounter_`, which nothing else counts; `posted` are calls in the
loop's task queue, `wire` requests the server may still answer. `Ask` is `getTrendbars` on the
caller's thread, `RunAsk` the task it queues, `Receive` the two branches of `handleFrame`
that look an id up, `ReceiveFatal` an error on which `handleOaError` drops the session
first, `Timeout` and `GapEnds` the two timers, `Pump`, `Finish` and `Abandon` the functions
of those names. The session comes up, becomes ready and goes down at any time; `Reconnect` is
`connect()`, which drops a session without abandoning anything. A caller's callback only
queues further requests, so it is part of the step that calls it. Shutdown (`stopping_`) is
left out.

### CandleMonitor

One pair and interval; bar `n` is open while the clock shows `n`. `track` is `BarTrack`,
`sync` where `syncSubscriptions` of each loop is between its two sections, `busy` the bars a
loop has taken under the mutex and judges after it, `warm` the warm-up queue with its count
of requests under way, `cache` is `warmCache_`, `isReady` whether the connection is. `SpotTick` and `Trendbar` are `processSpotTick`
and `processLiveTrendbar`, `Flush` is `flushClosedBars`, `PollAsk` and `PollAnswer`
`pollFallback`, `Decide`, `Add`, `AskWarm`, `Withdraw` and `Rewarm` `syncSubscriptions` with
`enqueueWarm` and `pumpWarm`, `WarmAnswer` their callback, `Drop` `onConnectionReady(false)`.

### CandleRules and Structure

`CandleRules` is `checkCandleAlerts` for one alert of the kinds that stay active. A candle
is what it does (which levels it sweeps, where structure breaks, whether it closes through
the start of the run), so every course of candles is covered; `EvalSweepConfirm`,
`EvalHourSweep`, `EvalSession`, `EvalCandle2` are the functions of those names, `HoldBack`
what happens in quiet hours, `Write` and `Fail` the worker.

`Structure` has real, small candles: `Take` is `IncrementalStructure::append`, `AgainstHigh`
and `AgainstLow` are `Engine::onBar`, `OnPivot` is `Engine::onPivot` behind
`FractalPivotDetector::update`, `AppendCandle`, `Look` and `Ingest` are
`appendStructureCandle`, `structureEngine` and `ingestStructureHistory`. `Meaning` is a
second definition of highs, breaks and sweeps over the whole track, with quantifiers and no
state, written from what the events mean; `ReadsTheTrack` compares the two. `Buffer` may be
below zero, for the routes take any number as `break_k` (`controllers/Routes.cc:1463`); a
close between the buffer and the level is then a break, and the reference counts no sweep.

### FairValueGaps

One pair and timeframe. `tape` is the course price takes, moment by moment, `Minute` moments
to a minute, with moments without a tick; the broker sees all of it, the process what comes
while it is connected, from the middle of a minute as well as from its beginning.
`m1`, `bar`, `offset` are `running1mTicks_`, `runningHtfBars_`, `bucketOffsets_`; `zones` is the
registry, as a set, for no two of its gaps are of one bar and the oldest is told by its time;
`Moment` brings a tick to `OnTick`, which is `onTick` with its three branches (a first tick, one
more of the minute, one that ends it) and `process1mClosedBarLocked` behind the last, `StartWarmup`, `WarmupDone`, `WarmupFailed`
the coordinator, `Work` one bar of `FVGService::workerLoop` through `onClosedBar`,
`registerZone` and `checkMitigation`. `GoOffline` and `ComeOnline` are the connection,
`StartAgain` a restart of the process. `joined` remembers that the
process came after the first tick of the minute with which its first bar begins. `lost` says
that a tick or a bar was missed, that a warm-up answer was `Overtaken`, or that a `joined` bar
closed as a whole one before any history told it the rest (section 7); the properties speak
of what went before.

### Account

One user. `plan` is his row of `user_states`, `login` of `users`, `prefs` the delivery
settings in the row and in `AlertManager`. A request is the list of its statements, which
the worker runs one by one, each of which may fail; `Restart` runs
`reconcileLegacyPricingUsers` and `loadAlerts`. `/me` is a thread (`MeReads`, `MeAnswers`) and
a timer (`MeTimer`, `MeTimesOut`) around one flag.

### WsObserve

`socket` is a connection's life; `listed`, `perIp`, `activeWs` are `conns_`,
`wsConnsPerIp_`, `activeWs_`; `inflight` and `settle` the backpressure counter and its
timers; `rev` and `copy` the user's revision and each connection's cached lists. `Shake`,
`Enlist`, `CloseHandled` are the handlers on the I/O loops; `Tick`, `ReadRevision`, `SendGroup`
and `Release` are `broadcastToAll`, `enrich` and `sendWithBackpressure` on the main loop;
the order of the connections in `conns_` is left out, so any member of a group may be its
first, the one whose cached lists the others are sent; `Apply`, `Keep`, `TakeBack` a change of an alert on any thread: cache, row, revision.

## 4. The runs

Definitions marked `\* mutant` in the modules are wrong variants of the definition below
them, kept to show that the property of a run fails when the code is wrong in that way. No
specification uses them.

| run | what is asked | bounds, and why they are enough |
|---|---|---|
| `AlertLive` | `StepsWait`, `ToldIsDurable`, `StepsMove`, `SavedIsTold` while the database accepts every write | two alerts (a predecessor and a step), one of which can expire, and one HTTP thread: it meets the evaluator, the worker and the expiry timer on each alert |
| `AlertFaulty` | `TypeOK`, `BlockedHasTask`, `ToldWasSaved`, `FiresOnce` with two HTTP threads, which are interchangeable | three requests on two alerts, so that two threads meet on one and a third request follows; one refused write and one restart reach each error path. The theorems cover any number |
| `AlertBatchTorn` | `AllOrNone` when an alert of the batch fires: fails | one firing is enough |
| `AlertStepEarly` | `StepsWait` when a trigger cannot be saved: fails | one refused write |
| `QueueSafe` | `TypeOK`, `HeldIsReleased`, `OneCallPerMinute`, `QueuedIsLive` | three alerts for one number (one placed, one held, one beyond `MaxHeld = 1`), two attempts, two refusals, one dead letter taken up again |
| `QueueLive` | `HeldGoes`, `JobEnds`, `SentOnce` | the same with room for two held alerts and no dead letter taken up again |
| `QueueSentTwice` | `SentOnce` with dead letters: fails | one dead letter |
| `QueueMergedLost` | `MergedIntoCall`: fails | one refusal |
| `FeedLive` | `TypeOK`, `PendingIsServed`, `ReportsInTime`, `ReportsOnce`, `BarsTypeOK`, `NeverStalls`, `EachOnce`, `RightBars`; `BoxSpec`, `NewestIsSeen`, `EachIsAnswered` | three parts. Two pairs and two prices of each, of which one overtakes the other, on either sink, with one change of market or connection. The rules, below. Four calls for two things of `TrendbarQueue`: one joins the job that is out, one a queued job, and a late answer meets the next request, while the session changes without bound. 308,000 states |
| `Requests` | `PlanKept`, `RequestsKept`, `TrackKept`, `AllOrNone` | five parts, below; 814,000 states |
| `Streams` | `ObserversKept`, `SessionKept`, `AccountKept`, `MonitorKept`; `ObserversAreServed`, `WatchedInTheEnd`, `AccountIsServed`, `MonitorIsServed` | five parts, below; 563,000 states |
| `Gaps` | `GapsKept`; `GapsAreServed` | below; 2,300,000 states |

`MCMarketFeed`, `MCRequests` and `MCStreams` hold several systems that share no state. The
initial state chooses one of them (`part`), which then runs alone while the others stay as
they begin: a behaviour of the run is a behaviour of one part. The invariants are the modules'
own, those the theorems state, and hold of the beginning of a part that does not run; a
liveness property says of which part it speaks, where it asks something of a part that rests.
The notifications and the alerts of `DeliveryQuota` are two parts (`sends`, `alerts`): nothing
connects them but the plan, which changes in both. `MCGaps` holds one system.
The properties are conjunctions with a name per question:

| property | conjuncts | module, instance |
|---|---|---|
| `PlanKept` | `QuotaTypeOK`; `QuotaSlips`: messages beyond the day's limit are at most those under way together, now or at a restart, and one for each unnoticed failure of the day; `FreeSlips`: alerts open on the free plan are at most what it allows or he had, plus the batches let through together, the steps and the one that not every check counts, and those that came back | `DeliveryQuota`: two sends, limit 1, one unnoticed failure a day, two days, one restart; two requests of up to two alerts, limit 1, checks while at most three are open, one closed alert at a time, one that comes back |
| `RequestsKept` | `RequestsTypeOK`; `SameAtRest`: cache and table agree when nobody works; `NothingIsLeft` of a refused creation; `MadeIsKept`: a confirmed one is in the table; `OneChain`: a step and the one it waits for; `TextForSms`; `ReadIsDefined` | `AlertRequests`: two handlers, three requests of ten, two refused writes, one restart: a batch that fails and whose compensation fails, next to another request |
| `AllOrNone` | a batch is saved whole or not at all | `AlertStore`: a batch of up to three, one refused write, first, between or last; nothing fires |
| `ReportsInTime` | `RulesTypeOK`, `GapKept`, `InWindow`, `InItsHour` | `CandleRules`: four candles, hours and sessions of three, a window and a gap of two, so that each ends under way; one refused write, one restart |
| `ReportsOnce` | `SideOnce` in an hour, `SessionOnce` in a session, `CandleOnce` | the same |
| `TrackKept` | `StructureTypeOK`, `TrackInOrder`, `ReadsTheTrack`, `LevelsSpent` | `Structure`: seven candles of four shapes that make highs and lows, break and sweep them, for a window of six, which slides, with a warm-up and a late candle before the window is full, and a warm-up at the end of a course that fills it. Three candles make a level, so six leave room to sweep it, break it, come back to it and break the level of the other side: each of a second sweep, a second break and either change of trend occurs |
| `ObserversKept` | `WsTypeOK`, `CountsMatch`, `CopyIsCurrent`, `OnlyTheSilentAreCut`, `LimitSlips` | `WsObserve`: two connections of a user on two loops with one change of an alert; three at a limit of one, handlers only |
| `ObserversAreServed` | `ShownInTheEnd`, `SilentAreDropped` | the first of these |
| `SessionKept` | `SessionTypeOK`, `NeverGivenUp`, `WatchedAreSubscribed`, `BreakerHolds` | `CTraderSession`: one pair, a breaker that opens at the second attempt, three failures, refusals or changes of the wish |
| `WatchedInTheEnd` | a session that stays streams what is wanted | the same |
| `AccountKept` | `AccountTypeOK`, `OnboardedHasPlan`, `PrefsMatch`, `MeOnce` | `Account`: three days, a trial of one, one restart, any sequence of requests |
| `AccountIsServed` | `TrialOnce` (a step never moves a trial's start), `MeAnswered` | the same |
| `MonitorKept` | `MonitorTypeOK`, `OverWhenJudged`, `PlacesKept` | `CandleMonitor`: three bars, the market shut during the second, a warm-up, a poll, two lost connections or changes of mind |
| `MonitorIsServed` | `TakenOnce` (a step), `BarsAreJudged`, `SubscribedAsNeeded` | the same |
| `GapsKept` | `GapsTypeOK`, `BarsAreWhole`, `ZonesAreOpen`, `ReportedOnce` | `FairValueGaps`: six courses of eight or nine minutes with two moments each (gaps up and down, filled or not, quiet minutes, a zigzag in which half bars see gaps, two in which who misses the first tick of a minute sees gaps), bars of two minutes in both alignments, two failures: a lost connection and then a restart are needed for a second report |
| `GapsAreServed` | `GapsAreReal` (a step), `WarmedInTheEnd` | the same |

No run checks for deadlock: each of these systems rests when there are no more prices,
requests or alerts, and the bounds end it too. That nobody waits for ever is stated by
`BlockedHasTask`, `NeverStalls`, `NeverGivenUp` and the liveness properties instead.

Bounds on behaviours (`MaxOps`, `MaxAsks`, `MaxFail`, `MaxFailures`, `MaxCrash`,
`MaxCrashes`, `MaxRestarts`, `MaxRepeat`, `MaxDlq`, `MaxPrice`, `MaxTasks`, `MaxToggles`,
`MaxUnrest`, `MaxUpsets`, `MaxClosed`, `MaxLapses`, `MaxReturns`, `MaxFaults`, `MaxWarms`, `MaxPolls`, `MaxHistories`, `MaxBehind`, `MaxHttp`, `MaxPosted`,
`MaxOpen`, `LastDay`, `LastBar`, `LastCandle`) stand in guards and only cut behaviours
short. `MaxAttempts`, `MaxHeld`, `MaxInFlight`, `MaxQueue` of the gaps, `MaxZones`, `Limit`,
`MaxAlerts`, `MaxBatch`, `IpLimit`, `Window`, `Gap`, `Hour`, `Session`, `Threshold` are limits of the code
made small. `MaxTasks` never bites: the flag admits one queued evaluation while another is
about to end.

## 5. Assumptions on scheduling

* `AlertStore!FairSpec`: the evaluator hands over what it changed, the worker's loop runs
  its tasks, and an HTTP thread goes on once its write is done. These are the loops of
  trantor and the threads of Drogon; nothing in the code can make them skip a task.
  Prices, requests, the clock and failures are never obliged to come.
* `NotificationQueue!LoopSpec`: the loop `alert-notify` runs its tasks and timers, and a
  minute ends. `FairSpec` adds that a provider answers every request. That is an
  assumption on the providers: `sendCall` and `sendSms` set no timeout.
* `MarketFeed!LoopSpec`: the sinks finish what they began and the loop `alert-eval` runs
  its tasks. `FairSpec` adds that the timer of the tick fires. A spot need never come.
* `TrendbarQueue!BarsFairSpec`: the client's loop runs its tasks and its timers. The server need
  not answer, and the session need not come up.
* `WsObserve!WsFair`: the main loop broadcasts on its timer and releases what it sent,
  handlers of closed connections run, a write ends one way or the other.
* `CTraderSession!SessionFair`: a wish is taken to the client's loop and run there. Nothing
  obliges the session to come up; `WatchedInTheEnd` speaks of sessions that stay.
* `Account!AccountFair`: the timer of `/me` fires. The database may hang for ever.
* `CandleMonitor!MonitorFair`: the flush and sync timers fire, loops judge what they took
  and finish their sync, requests are answered (`TrendbarQueue` proves and checks that),
  time passes and a lost connection comes back.
* `FairValueGaps!GapsFair`: of what brings history, something happens in the end: the
  connection comes back, the timer of watched pairs asks, an answer comes. One at a time can,
  and faults, which undo them, are bounded.

`AlertRequests`, `CandleRules`, `Structure` and `DeliveryQuota` state safety only and have no
fairness. In `WsObserve`, `CandleMonitor`, `CTraderSession` and `Account` a fair action is
split into what it does to the few variables that drive it and the rest (`Settle` and
`Release`, `Flushes` and `Flush`, `Runs` and `RefreshSpots`, ...), and fairness is stated of
the former: each such step is a step of the whole action, and TLC tells faster whether it
is enabled.

## 6. The theorems

All are `Spec => []P`, or `Spec => [][A]_v` for an action property, for any values of the
constants that satisfy the named assumption of the module (finite sets, a `NoClient` that is
not a client, bounds in `Nat`). Where a theorem has a hypothesis of its own it is stated with
`ASSUME ... PROVE` and named below; those on constants (`WsConstants`, ...) are evaluated by TLC
on the constants of the runs (`MCStreams!StreamsAssumption`, `MCRequests!RequestsAssumption`,
`MCMarketFeed!RulesAssumption`, `MCRequests!StructureAssumption`, `MCGaps!GapsAssumption`).

* `AlertStoreProofs`: `TypeCorrect`, `ToldOnlyIfSaved`, `BlockedIsServed`. `ToldWasSaved`
  says nothing of the reports still on their way, so the invariant `IInv` adds what every
  queued task and every request in progress promises: a queued report belongs to a saved
  trigger; a request that has seen its trigger saved has it saved; a queued write of a
  client is the first of that client's writes, the client is blocked on it, and it is the
  only one; what the evaluator has not handed over yet belongs to nobody. The proof has
  one lemma for types per group of actions, and three for how the queue may change:
  something else moves, a client adds its write, the worker takes the first one.
  `ReportedAtMostOnce` (`FiresOnce`): an alert that may still fire (`Fresh`: it is live, or its
  delete may be taken back) has no report anywhere, and one that may not has one at most
  (`OneReport`), in the batch, the queue, a blocked client or `told`; `Known` keeps an id that
  was never given out, and the row of a deleted alert, from coming back as something live.
  `StepsStayBehind` (`StepsWait`): whoever stands behind `p` and waits no longer does so because
  `p` has fired or is gone for good (`Fired`), and so does every client about to arm what
  waits behind `p` (`Firer`). Its hypotheses: no write failed (`AlertStepEarly` shows why), no
  restart (section 7), and a starting table in which steps wait behind what is live.
  `ReportsAreDurable` (`ToldIsDurable`), with restarts, while no write fails and no request
  comes: of one alert the trigger's write is the last one in the queue, and neither the
  expiry timer nor a later batch has a row of it that could follow (`Durable`).
  `BatchIsAllOrNone` (`AllOrNone`), for a batch of any size: while the batch is saved, the
  table holds what the request has counted as made and the write it has not seen yet
  (`Saving`); once a write was refused it holds what is still to be deleted (`TakingBack`).
  The hypotheses (`OneCommit`) are those of the property: one commit in an empty table, one
  refusal at most, no restart, nothing fires or expires. Each is needed: with a second
  request or refusal, a restart, a firing or an expiry, TLC finds a batch saved in part.
* `NotificationQueueProofs`: `TypeCorrect`, `HeldIsAlwaysReleased`, `OneCallAtATime`. The
  two safety properties need each other's gate: a held alert relies on `inFlight` being
  lowered by an answer that sets the timer, and a second call relies on `inFlight` being
  raised in the section in which the gate was looked at. `QueuedHasOneJob` adds to
  `QueuedIsLive` that a key has one job (`OneHolder`): without it, the end of one job would
  take from the set a key another still works on; the keys of summary calls are new because
  they are numbered (`DigestsCounted`). `SentAtMostOnce` (`SentOnce`): an alert that has not
  gone out over a channel is in one place on its way there, as a job's own, merged into
  one, or held; one that has gone out is in none (`OneTry`). Its hypothesis: no dead letter
  was taken up again, which is what `QueueSentTwice` refutes.
* `MarketProofs` is about two components that share no state.
  `TypeCorrect`, `NoLostWakeup`, `Implements`, of `MarketFeed`: `PendingIsServed` is not
  inductive alone, for `schedulePriceEval` queues nothing while the flag is up. `FlagIsBacked`
  says what a raised flag stands for, an evaluation that is queued or has not lowered it
  yet; `BatchIsHeld` ties the batch to the place of the evaluation. `Implements` then maps
  every step to a step of the box or to a stutter.
  `ReportsComeInTime` and `ReportsComeOnce` (`ReportsInTime`, `ReportsOnce` of `CandleRules`), from
  one invariant, for no property about the reports says what the alert in the cache, the row or a write on its
  way may still do. Each kind counts its triggers by marks (`MarksOf`): the last candle
  judged, the last trigger, the session used up, or for a side of an hourly sweep twice its
  hour, and one more when the sweep is used up. Marks only go up from the row over the
  writes on their way to the alert (`InOrder`), and a new trigger stands above the marks its
  judgement began from and not above those it leaves (`New`), so two reports never stand at
  one place (`ToldApart`). That the reports are in time is said of the alert itself
  (`GoodAt`): a pending sweep counts its candles from the sweep on, an hourly one is armed in
  the hour it is of. One lemma per kind says that its verdict keeps all that (`Judgement`).
  After a restart the row must have judged the newest candle if a sweep is pending, although
  `lastEvaluatedCandleTime` alone is never written: its count of candles shows that it has.
  Assumes `RulesConstants`.
* `BarsProofs` is about two components that share no state.
  `TypeCorrect`, `NeverStalled`, `AnsweredOnce`, `BarsAreRight`, of `TrendbarQueue`. The
  three properties are proved together. `RightBars` needs the one pending id to be the
  active job's (`NeverStalls`) and no request on the wire to be newer (`WireIsOld`), and every
  waiter to ask for its job's key (`JobsAsk`). `EachOnce` needs the queue to be empty whenever
  a job is sent at once. Each action that settles waiters goes through one lemma
  (`GiveRight`), each that adds a waiter through another (`CallJoins`).
  `TrackIsKept` (`TrackKept` of `Structure`, all four conjuncts): `ReadsTheTrack` is not
  inductive, for events do not say which levels the next candle is held against. `Reading`
  adds that: the engine's high and low are the latest ones of the track, broken and swept
  exactly when later candles show it (`HighIs`, `LowIs`), its trend is the side of the last
  break (`TrendIs`), its last two candles are the track's, and each level's events are
  accounted for by its flags (`SideSpent`). `ReadingStep` is the core: a candle adds to the
  meaning of the track what it adds to the events. `FirstsGrow` says so of the pairs of a
  candle and a level, `HighStep` and `LowStep` of the halves of `onBar`, `TrendGrows` of the
  trend when one candle breaks both sides. `AppliedRead` repeats the step for a track of any
  length. The library's induction rule takes an operator, so `Induct` says it of sets, from
  the well-foundedness of the naturals. `Ingest` keeps the order because `Newer` keeps only
  what is later than the history (`NewerIs`, the same induction). Assumes
  `StructureConstants`: prices and the buffer are integers.
* `CTraderSessionProofs`: `TypeCorrect`, `SessionGoesOn`, `SpotsAreStreamed`,
  `BreakerIsHeeded`, and `SessionIsKept`, which joins them. `scheduleReconnect` does nothing
  while `reconnectScheduled_` is raised, so `NeverGivenUp` needs the flag to be up exactly
  while its timer is set (`FlagIsTimer`), and excepts the two ways in which the code does give
  up, a login kept by a pause and one refused with an error nothing is done about (section 7). `connect` does not clear `subscribedSpotIds_`; the
  callback of its predecessor does, so they are empty once that has come (`StartsEmpty`),
  and `WatchedAreSubscribed` rests on it. `BreakerHolds` needs that the reconnect the breaker
  lets through is the one that was ahead as it opened (`OneIsAhead`).
* `StreamsProofs` is about three components that share no state.
  `ObserversAreKept` (`ObserversKept`): a handler that has passed the check of the limit has a
  place for the loop it runs on (`PlacesLeft`), which bounds the slip; who answers owes one
  frame at most, the one whose timer is set (`OneFrame`), so the drop for silence meets the
  silent only; and a copy marked with the current revision has every change made before it
  (`CopiesUpToDate`). Assumes `WsConstants`, with `IpLimit` at least 1: 0 switches the limit off.
  `AccountsAreKept` (`AccountKept`), `TrialsAreGivenOnce` (`TrialOnce`): what is missing from
  the row is what the request under way has still to write, or was lost with a failed
  statement (`PlanOwed`, `PrefsOwed`); `Left` lists the rests of requests, and `Replied` ties
  the flag of `/me` to its answers.
  `MonitorIsKept` (`MonitorKept`), `BarsAreTakenOnce` (`TakenOnce`): whatever is taken, waits at a
  loop or was asked for is before the open bar (`Before`), what was taken counts as emitted
  (`TrackRight`), and requests on their way have their places (`WarmRight`).
* `RequestsProofs` is about two components that share no state.
  `RequestsAreKept` (`RequestsKept` of `AlertRequests`, all seven conjuncts at once): the
  route and the manager look at an alert in separate sections, so the invariant says of each
  place in a handler what it still knows of the alerts it has in hand: outside `torn` they are
  in the hands of one handler (`OneHolder`), cache and table differ by what that one is about to
  write (`HandsKnow`), and agree on all others (`Agreed`). `NewAreNew`: what a creation has yet
  to insert is nowhere, not even as the alert another waits for; this keeps the alerts of two
  creations apart. `CreationsRight` says how far a creation or its compensation is, so that
  the answer can be right (`RepliesRight`). `ChainsMatch` allows a chain that is in the cache and
  due in the table, while the handler that gave it is at `parent`. The lemma of an action gives
  its `Result`: what it changes, takes and lets go of; `Ends` and `Continues` are the cases of
  one changed alert, and `Preserved` draws the invariant from any result. Assumes
  `RequestsConstants`: identifiers are new for each creation, and a request to read, change or
  delete names one alert.
  `PlanIsKept` (`PlanKept` of `DeliveryQuota`): what went out is known only up to what was taken and
  is not counted yet: below the limit the counter is behind by those, by the places of each
  restart and by what failed unnoticed (`CounterBehind`). Whoever reads the counter below the
  limit goes out, and the bound holds because he and those with him each have a place among
  the sends, and who goes out for want of a reading has his among the lapses (`OutAtMost`).
  For alerts, what requests were let through for is added to the open ones (`AlertsAtMost`).
  A check may see fewer than are open, by the steps that wait, which `StepsCounted` bounds,
  and by one; the number a batch was let through for is bounded by its own check, the rest
  by a batch for each other request. Assumes `QuotaAssumption`: requests and sends are finitely
  many.
* `FairValueGapsProofs`: `GapsAreKept` (`GapsKept`), `ReportedGapsAreReal` (`GapsAreReal`), for any
  courses of prices, moments of a minute, size of bars, alignment, limits and faults. What may
  not be missing in the detector is not there yet, so the invariant speaks of what is on its
  way. While nothing was missed (`NothingMissed`), the running minute is the broker's last and
  has its prices, in itself or in the bar it belongs to (`AllHeld`), unless it is the minute that
  was joined (`LastIsSeen`); the running bar, once it is in the broker's buckets, is one of the
  broker's with no price of its own, and has all that was closed unless it is partial or
  joined (`BarIsCurrent`); an answer holds the broker's bars of some moment, and running minute and
  bar have what came after it (`AnswerIsCurrent`), so that the three together are whole: an
  answer ends what was joined. `Line` is the detector's series with the queue behind it: what
  is in it and not partial is whole and over (`WholeIn`), no bar of the broker is left out
  between two of it (`Gapless`), nor between its last and the running one (`NextFollows`).
  Therefore a gap of the series is one of the broker (`GapsAreReal`). For `ReportedOnce`,
  `ToldInTime` names the moment of the last restart: what is made of ticks ends after it, and a
  gap that was reported is of a bar that ended before it, or that the series, which only goes
  forward (`SeriesGrows`), has passed and no partial bar can empty any more (`PartialFirst`). With
  nothing running only history is on its way (`OnlyHistory`), which is not reported. Minutes
  fit into buckets because a bucket is a number of them and begins with one (`MinuteInBucket`).
  Folds over the tape (`BrokerBars`) are read with an induction over sets, as in `BarsProofs`.
  Assumes `GapsConstants`: tapes are sequences of prices, 0 for none, bars and alignments are
  of whole minutes, and the limits are naturals.

Only model-checked: all liveness properties and the fairness part of `BoxSpec`, because
fairness and `ENABLED` are out of the prover's reach. `AllOrNone` is checked by `Requests` on an
instance of `AlertStore` and proved of `AlertStore` itself, under the hypotheses of that instance.
The action properties `TrialOnce`, `TakenOnce` and `GapsAreReal` are proved, the liveness
properties they are joined with in the runs are not.

## 7. What the models show about the code

Four runs end in a counterexample, each against a sentence of the repository:

* `AlertBatchTorn`: `commitCreatedAlerts` promises all or none (`alerts/AlertManager.h:108`).
  The batch is in the cache, and may fire, while it is being saved; the trigger's upsert
  can reach the worker after the batch was taken back and leaves one row.
* `AlertStepEarly`: a step waits until its predecessor triggers (`alerts/Alert.h:107`). If
  the trigger cannot be saved the predecessor is put back, the step it armed is not.
* `QueueSentTwice`: only a failed channel is retried (`alerts/ChannelDispatch.h:21`). A dead
  letter carries all channels of the alert, those that had succeeded too.
* `QueueMergedLost`: alerts merged into a job's call share its result
  (`services/NotificationQueue.h:43`). A job that is the retry of an SMS only takes
  merges too, and no call is made.

The same models show more, where no run is kept. In the alert store:

* `StepsMove` with a predecessor of a kind that stays active: `applyDependsOnLocked` accepts
  it, but firing such an alert never calls `armDependentsLocked`, so the step behind it
  waits for ever.
* `FiresOnce` holds while no write has failed and nothing has restarted, and says so. Without
  that condition `AlertFaulty` shows two reports of one alert: when the write that cleared
  an alert's gate fails after the alert has fired, its continuation puts the gated, active
  alert back over the triggered one, and it fires again. The same follows from a restart
  when the evaluator fires a new alert before the creating thread has queued its upsert,
  which then runs last.
* `StepsWait` excepts restarts too, even with no write refused: a step created behind an
  active alert writes that alert's row as it then was, with its chain, and that row can
  follow the trigger's. After a restart the alert is active again while its step is live
  already, and may be reported a second time.
* `AlertLive` with a restart: the trigger of a predecessor and the arming of its step are
  two writes, and a restart between them leaves the step waiting for ever.

In the requests and rules, each a condition of the property it is named in:

* Two updates that are each legal can make an alert that is not (`TextForSms` excepts
  alerts two handlers worked on), and a deletion between the two looks of `getAlert`
  leaves it nothing to show (`ReadIsDefined` likewise).
* An update of an alert that is still being created writes its row, which can be in the
  table before the chain of the alert it waits for is; a restart in between leaves the two
  without a chain in common (`OneChain` excepts such alerts likewise).
* A confirmation in quiet hours restores the direction of a sweep and not its age, so a
  sweep may be confirmed later than the window after the quiet hours (`InWindow` excepts
  behaviours with `held`). A session's trigger in quiet hours is used up.
* When a write is refused after a later candle has been judged, the older state wins
  (`crossed`), and a side, a session or a candle may be reported again.

In the limits of the plan, each a term of the bound it is named in:

* An error while the day's usage is read counts as nothing used
  (`services/PostgresService.cc:588`), one while it is counted leaves the message uncounted
  (`services/PostgresService.cc:607`, `:641`), and so does an answer of the provider that is lost
  (`services/Notifier.cc:212`): each lets one more message out than the plan has (`lapses`).
* `createDrawAlertBatch` counts active alerts only (`controllers/Routes.cc:1317`), though what it
  makes behind another alert waits (`alerts/AlertManager.cc:1567`): with every step that waits
  one more alert passes (`steps`). A PUT counts active alerts less one
  (`controllers/Routes.cc:172`), also when the alert it is about is not among them, and
  `updateAlert` takes over the status it brings: PUTs that reopen triggered alerts get one past
  the limit, and past the steps.
* An alert whose trigger or deletion is refused by the database is open again in the cache,
  checked by nobody, next to whatever was made in its place (`returns`).

In the streams:

* A copy of the alerts made while a write is under way is kept under the current revision
  when that write fails, for the revision moves only on success (`alerts/AlertManager.cc:1041`):
  the observer goes on seeing an alert that was never saved, until the next change
  (`CopyIsCurrent` and `ShownInTheEnd` except it).
* A warm-up that is answered after a reconnect seeds the forming bar while the aggregator still
  holds a minute from before the break. The next tick closes that minute, whose bucket differs
  from the seed's, and `process1mClosedBarLocked` emits the seed as a whole bar
  (`fvg/BarAggregator.cc:173`) though it has just begun. A gap found in it may be none, or is
  reported before its bar is over and, after a restart, again (`GapsAreReal` and
  `ReportedOnce` except what is reported after ticks were missed).
* A warm-up answer that a minute has overtaken seeds the bar without that minute. In buckets
  that were right all along the running bar has it; when the answer realigns the buckets, the
  running bar is dropped (`fvg/BarAggregator.cc:235`) and the minute with it, so with bars of
  three minutes or more the next one is taken for whole and is not. When the answer is
  overtaken by the end of a bar, and that bar was the half one the process began with, the bar is
  in neither the answer nor the ticks: the series has a hole, and a gap is found between bars
  that are not neighbours. The proof found both; they count as `Overtaken`.
* The disconnect callback of a connection `connect` destroyed schedules one more reconnect,
  which destroys a connection that is up, and so on while the broker is quick; the session
  is never given up, but this can repeat.
* A login kept back by a pause of output is not sent again on that connection, and
  subscriptions skipped in a pause are lost until the wish changes (`skipped`). A token
  refresh has no timeout, and while it is out a connected session waits for it.
* A login step answered by an error that is neither about tokens nor about routing, and one
  answered by `BLOCKED_PAYLOAD_TYPE`, is written down and nothing else
  (`ctrader/CTraderClient.cc:640`): the connection stays up, unready, nothing is sent again and no
  timer is set, until the broker closes it. `NeverGivenUp` without `"login" \in refused` fails
  in `Streams` for that reason; no sentence of the repository promises otherwise, so no run is
  kept.
* A subscription the server refuses stays in `subscribedSpotIds_` and is not asked for again
  on that connection (`WatchedAreSubscribed` and `WatchedInTheEnd` except it).
* A bar that was seen only in part should say so when it closes, says a comment
  (`fvg/BarAggregator.cc:174`). `partial` compares the start of the first minute's bucket with
  that of the bar (`fvg/BarAggregator.cc:206`), and `onTick` gives a minute that was joined in
  its middle the start of its bucket, so a bar joined within its first minute is whole by that
  test. Where no warm-up tells it the rest before it closes, it goes to the detector, and a gap
  that the broker's bars do not have may be reported (`BarsAreWhole` and `GapsAreReal` speak of
  what is not `lost`). That a partial bar always says so is therefore false in
  the instance of `Gaps`: a process that comes in the middle of a bar's first minute is enough.
* Ticks missed during a lost connection do not mark the running bar as partial: it goes to
  the detector as a whole one (`lost`).

In the queue and the feed:

* `QueueLive` without fair answers: one request that is never answered keeps the gate of
  its number closed, and what is held for it is never sent.
* A job that carries merged alerts and is held at dispatch drops the list of them; their
  bells stay at "queued".
* `MarketFeed`: a snapshot copied before a live quote may replace it in `pendingQuotes`, so
  an older price can be evaluated before the next tick corrects it (`NewestIsSeen` holds).

## 8. What is not modelled

* The rules by which a price, candle-close, previous-day, market-structure or gap alert is
  met: comparisons without memory, a choice of the environment in `AlertStore`. The daily
  expiry of previous-day alerts, `PrevDayLevelProvider`, and the lookback thread of sweep
  alerts.
* The Redis stream that mirrors jobs between processes. In the process that wrote an entry,
  reading it back only notes its id.
* Start-up in parallel: `loadAlerts` is one step, though requests may already be served
  while it replaces the cache (`main.cc:329`).
* Start-up on a failing database: `Restart` and `Crash` read the tables as they are, while
  `listAlerts` and `listAllUserDeliverySettings` (`services/PostgresService.cc:920`) catch an error
  and return nothing. A process that starts so has an empty cache over full tables until it
  is started again, so after a restart `SameAtRest` and `PrefsMatch` speak of starts whose
  reads succeeded, and the alerts `DeliveryQuota` counts after `StartOver` likewise.
* Writes of the expiry timer ahead of upserts of the same alerts that were queued before
  (`alerts/AlertManager.cc:2941`) are in `AlertStore`, but no property but `FiresOnce` and
  `StepsWait` is about them; a restart between a trigger's row and its report
  (`main.cc:238`) loses the report, which nothing in the code promises to repeat.
* Deleting an alert leaves the steps behind it waiting (`alerts/AlertManager.cc:1410`).
* Threads inside `CTraderClient`. `refreshAccessTokenHttp` makes its HTTP client without a
  loop (`ctrader/CTraderAuth.cc:67`), so its callback runs on Drogon's loop; when the
  refresh fails it may call `forceDisconnectAndReconnect` there while the client's own loop
  works on the same fields, without a lock. `CTraderSession` and `TrendbarQueue` take that
  call as a step of the loop, so their theorems speak of the code without that race. The
  staggering of more than a hundred subscriptions is one step.
* Pruning of gaps by age, and what a gap report makes of alerts. Sizes of swings
  (`minSwingAtr`) and the average range in `Structure`: the first is off by default, the
  second a constant.
* Sound, wording and formatting of messages; SMS stands for e-mail too. Chart streams and
  pushes of single triggers over WebSockets, which are stateless sends.
* Candles, broadcasts and metrics of the hub's tick; the symbol registry and the
  subscription planner, which select without state; pages, favourites, one-time codes,
  tokens and password hashes, which are request-local; the SQL of migrations other than
  the one that revises accounts; configuration, logging and utilities.
