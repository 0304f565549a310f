# InferenceInquire, specified

TLA+ specifications of the InferenceInquire dashboard (`src/app`), its host
agent (`src/agent`) and the page it serves, with the TLC configurations that
check them on small instances and proofs of the results that matter most.

Python and JavaScript are the reference. Every definition names the lines it
models in `PROJECT.json` under `map`; mutants of those definitions show that
each checked property depends on the code being as it is.

## 1. Inventory

One process, the dashboard, polls every `POLL_INTERVAL` (2 s): first the agent
(`/metrics.json`), then llama.cpp (`/health`, `/metrics`, `/props`, sometimes
`/slots`). It derives a snapshot and a point, judges alerts, makes the snapshot
current, stores history, and pushes a tick to every page over a WebSocket. All
of it runs on one asyncio event loop; only the sending of notifications uses a
thread. The agent runs beside the GPUs: threads refresh caches, two more follow
llama.cpp's log. The store is one SQLite file.

| Component | State it keeps | Operations | Talks to | What is hard | What makes it correct |
|---|---|---|---|---|---|
| Alert gate (`alerts.py`) | first-seen times, the transition | `update_transition`, `apply`, `view` | rules before it, log and notifier after it | polls at irregular times, signals that come and go, loss on restart | a switch is quiet, an outage is not, silence is bounded, a failed load alerts at once |
| Reachability rules (`rules.py`, `sources.py`) | none | one per poll | the gate | two reads of one poll are of different instants | every outage reaches the gate under a key that is held and suppressed as intended |
| Judgement (`monitor.py`, `_judge`) | `active_alerts` | `_judge`, `reconcile_alerts` | store, notifier | three memories of the same alerts, a store that may fail between them | page, log and announcements agree |
| Notifier (`notify.py`) | `open`, `last` (stored), outbox (memory) | `update`, `deliver`, reload | poll loop, sender thread, store | polls go on during a send; failure, retry, restart | nothing twice, nothing lost, nothing falsely cleared |
| Live stream (`monitor.py`, `snapshot.py`, `api.py`, `data.js`) | snapshot, points, what each client holds; what each page shows | publish, broadcast, `/ws`, `onmessage` | pages | awaits inside the broadcast and the handler, reconnects | a page shows whole snapshots, in order, every point once |
| Learned rules (`rules.py`, `store.py`) | kv rows: baselines, runs, counts | one per rule and poll | gate, store | runs over observations that are not polls, counters that reset, restarts | an alert means what the docs say it means |
| Telemetry (`monitor.py`, `derive.py`) | previous counters and times, standing `/slots`, current model | `_read_*`, `_slots` | store, agent, llama.cpp | server and agent restarts, missed polls, polls that raise, a model that sleeps | tokens and signals are those of their interval; polling lets an idle model sleep |
| History (`store.py`, `schema.py`, `usage.py`) | samples, rollups and their cursors, requests, events | `write`, `record_request`, `rollup`, `prune`, `series`, `usage` | poll loop, API | late rows, errors between statements, downtime longer than the retention | each row in its bucket at every resolution, none deleted before it is folded, charts and reports of what is stored |
| Demo (`demo.py`) | the session's start, the moment of this poll | `moment`, `answer`, `_shift`, `seed` | poll loop | the seam between passes, recorded errors, a clock that jumps | no time and no counter goes backwards |
| Agent caches (`cache.py`, `payload.py`) | value, time, key | `refresh`, `get`, `stale` | collectors, server | one slow refresh delays the others | a value no older than its period and a round |
| Agent runtimes (`runtimes/`) | what discovery found, and when | `collect`, `find_inference_ct`, `unit_names` | guests cache | remembered answers, commands that fail | the target that serves is found in time |
| Card stream (`collectors/nvidia.py`) | process, each card's last row | `run`, `rows`, `collect_gpus` | gpu cache | a process restarted while it is judged, cards that drop off | a lost card is not counted, a wedged process is killed |
| Journal follower (`journal/follower.py`) | the tail, its target, attached | `run`, `watch_target`, `_spawn`, `_kill` | cache, runtimes, parser | two threads, a blocking read, a lock | no deadlock; the active unit is followed in the end |
| Journal parser (`journal/parser.py`) | requests, slots, load, counters | one per line | follower | replayed and missed lines, task numbers that begin again | a signal counts once, a record is of one request |
| Page data (`data.js`, `state.js`, `main.js`) | socket, live buffer, loaded windows | connect, park, resume, load | API, `/ws` | answers out of order, hidden tabs | what is drawn is of the window asked for |
| Forwarder (`examples/forwarder`) | saved state | one run per timer | `/api/alerts` | failed fetches and sends, a limit on rows | the recipient knows what the state file says; nothing push-worthy is skipped |

Rendering, deployment, tools, schema migration and the parsing of command output
hold no state worth a model and are left out (section 7).

The hazards this code is exposed to, each at the line where it bites, are listed
in `PROJECT.json` under `hazards`.

## 2. Modules

| Module | Extends | Proofs | Checked by |
|---|---|---|---|
| AlertGate | Clock | AlertGateProofs | MCReachability, MCAlertPipeline |
| Reachability | AlertGate | PollProofs (on AlertGateProofs) | MCReachability |
| NotifyLedger | Clock | AlertPipelineProofs, NotifierProofs | MCAlertPipeline, MCNotifier |
| AlertPipeline | AlertGate, NotifyLedger | AlertPipelineProofs (on AlertGateProofs) | MCAlertPipeline |
| Notifier | NotifyLedger | NotifierProofs | MCNotifier |
| Telemetry | Clock | PollProofs | MCReachability, by itself |
| LlamaSleep | | PollProofs | MCReachability |
| Demo | Clock | PollProofs | MCReachability |
| TickStream, which implements SnapshotView | | ClientProofs | MCTickStream |
| Forwarder | Clock | ClientProofs | MCTickStream |
| LearnedRules | Clock | LearnedRulesProofs | MCLearnedRules |
| History | | HistoryProofs | MCLearnedRules |
| JournalFollower | | AgentProofs | MCJournalFollower |
| JournalParser | | AgentProofs | MCJournalFollower |
| Discovery | | AgentProofs | MCJournalFollower |
| GpuStream | | AgentProofs | MCJournalFollower |

MCReachability, MCTickStream, MCLearnedRules and MCJournalFollower put
components side by side that share nothing, or the clock only: the first state
of a behaviour chooses which of them it is a behaviour of, and the others keep
their first state. One run then checks each of them under its own bounds, and
costs what they cost together.

**Clock.** `now` is the time of the latest poll. Two polls are a member of
`Gaps` apart, because the loop sleeps `POLL_INTERVAL` less what the poll took
and a slow agent, server or page stretches it. The clock is taken to go
forward: `time.time()` set back by hand is not modelled.

**AlertGate** is `alerts.AlertGate`. `first_seen` and `transition` are its two
attributes (a record with `active` FALSE stands for `None`), `shown` the keys
`apply` returned. `Poll` is one poll's `update_transition` followed by `apply`;
`Restart` is a new process. `run`, `quiet` and `switch` are history: they say,
in terms of what was observed and never of what the gate remembers, since when
a key has been present, since when it has been due and hidden, and which polls
form the latest switch. The properties relate the two.

**Reachability** puts in front of it what one poll can observe and the rules
over it: `ReachabilityRule`, `UnitsRule`, `ContainerRule`, `Signal`
(`transition_signal`). The agent and the server are read one after the other,
so no consistency between the two is assumed.

**NotifyLedger** is `Notifier.update` with `_save` and the reload in
`__init__`. `saved` is the kv row; `open` and `last` the dicts. `told` is
history: what the recipient has been told, were everything delivered.

**AlertPipeline** is `Monitor._judge`: gate, then `reconcile_alerts`, then the
ledger, in one action, as no await separates them. The four outcomes of a poll
are four actions: all of it (`JudgePoll`); an exception before the gate
(`JudgeRulesFail`: the transition's row, or a rule that stores something), in
`reconcile_alerts` (`JudgeEventFails`, after any prefix of its rows) or in
`_save` (`JudgeSaveFails`). `Monitor.run` catches each and polls again.

**Notifier** adds delivery: `Monitor._deliver_notifications` is a task whose
round (`BeginRound` .. `EndRound`) works through a copy of the outbox, each
send a pair of actions between which polls and the clock go on. A send
succeeds, fails (heard or not: one destination of several is enough), or
raises, which ends the round.

**SnapshotView** says what the live stream promises: what a page shows is one
published snapshot, whole, and never an older one than before. **TickStream**
is how: every action is what the server's loop does between two awaits.
`Publish` is `_publish` up to the list `broadcast_tick` takes; `BeginTick` and
`TickSent`/`TickFails` enclose one awaited `send_text`; `ReadInit` and
`InitSent` enclose the init's, and only `InitSent` registers the client;
`Receive` is the page's `onmessage` with `mergeKept`. A digest stands for its
section (collisions are left out); the points are poll numbers.

**JournalFollower** is `journal/follower.py`: `reader` is where `run()` is
(`look`, `spawn`, `attach`, `read`, `end`) and the target it saw, `watchdog`
where `watch_target()` is. The reader waits at `read` while the pipe is empty
and open; its other steps take the lock and return it within one action, so
`locked` only says that the watchdog holds it, which it does for as long as
`stop()` takes. The value of `CACHES["guests"]` is read once by each thread and
may change at any time (`Refresh`). A tail starts with any replayed lines in
it; `TailDies` is a tail that ends by itself. Of the lines, those that move the
load record are told apart, because that record belongs to one unit.

**LearnedRules** is the rules whose verdict depends on rows in the store. `kv`
holds the rows, `obs` the rates of `decode_obs` that `decode_baseline` can still
read. A poll's reading is an input; `RowsAfter` is what the rules leave in their
rows and `Alerts` what they yield, in the order of `RULES`. `PollFails` is a
poll whose n-th row could not be written: those before it are stored, and the
alerts of the poll before stay. The rules read and write disjoint rows, so one
card and one unit stand for all, and each of TLC's hosts reports one kind of
thing. Rates are whole numbers and the median is doubled; the draw is one of
three levels of a fixed cap.

**Telemetry** is what a poll makes of counters. `prev` is `prev_metrics`,
`prev_ts`, `prev_disk` and `prev_counters`; llama.cpp and the agent each answer a
poll or do not, and each may restart. `ReadAll` is a poll that is published,
`ReadRaises` one that raises in its judgement: by then the agent's readings are
remembered and llama.cpp's are not. `book` is history: what was generated and
counted between the readings.

**LlamaSleep** is `fetch_llama` with `should_poll_slots` and `Monitor._slots`
against a server with an idle timer. Every request of a poll is a step, so the
timer may fire and requests may begin in between. The server is external: which
endpoints count as activity is taken from `config.py`'s description.

**Demo** is the replay: `Moment`, `Shift` and `Answer` over an arbitrary short
recording, the transport that keeps one moment for a poll (`at`), and the store
it is seeded into. What is asked of a recording (`IsRecording`) the shipped one
meets: a counter that its first or last frame lacked would not be carried on, and
would fall at the seam.

**History** is the store over time, in polls. A stored row is the set of polls
it stands for, so "counted once at every resolution" is a statement on sets; SQL
aggregates that are functions of those polls (sums, maxima, minima, last values)
need no more. `Iterate` is one iteration of `Monitor.run`: the agent's requests,
the window, then `rollup()` and `prune()` when they are due, any one of which may
fail (`RollupFails` stops between two statements). No table reads what another
one holds, so those `rollup()` gets to are folded together (`FoldTables`). `db` is
what the connection reads and `disk` what was committed; the difference is what a
restart loses. `safe` is history: a `rollup()` ran to its end since `prune()` was
last called.
`Series`, `UsageRequests` and `Covered` read it as the API does.

**JournalParser** is `parser.py` over a log whose lines are numbered: what a line
says of a request is its number, so a record shows which lines its figures came
from. `NewTail` is the follower's respawn with its replay of the last lines. A
replay does not reach behind a completed load, because loading logs more lines
than are replayed; the model's log has only the first and the last of them.

**Discovery** is the `guests` cache: which container, Docker or systemd serves,
what is remembered for how long, and how the two runtimes of `auto` are ranked.
A command that fails lists nothing, as it does to the agent. **GpuStream** is the
`nvidia-smi` loop, the thread that reads it and the refresher that judges it. In
both, of times only ages are kept, capped above the largest limit, so the models
are finite without a bound on time; the one refresher thread comes round within
`RefreshWithin` and `CollectWithin`.

**Forwarder** is `dash-alerts.py`. A run reads one answer and one clock, so it is
one step: saved (`RunSaved`), not saved after any prefix of its sends
(`RunFails`), or without an answer (`FetchFails`). The dashboard beside it raises,
clears, restarts and stalls. `belief` is what the recipient has heard.

Definitions marked *Mutant* are the plausible bugs the checks must notice; no
specification uses them.

## 3. Runs

| Run | Shows | Bounds |
|---|---|---|
| `reachability` | over all sequences of eleven kinds of observation, with restarts: `BoundedSilence`, `PlannedSwitchIsQuiet`, `HeldConditionIsShown`, `FailedLoadAlertsAtOnce` | times scaled so that `Hold` (1-3), `TransitionTail` 2 and `TransitionMax` 4 are crossed from below and above with gaps of 1 and 2; `MaxTime` 10 holds a whole switch, a stall and a second switch |
| | `TokensAreOfTheInterval`, `SignalsConserved` with lost answers, restarts and polls that raise | three events on the hosts at any time: enough to count, restart and count again |
| | `LeftAsleep`, `AsleepAfterWork` in the three modes, either build, and with `sleep_idle_s` reported or not | a timer of 3 ticks against polls of at most 2, two requests, one answer refused |
| | `NothingGoesBackwards` with one restart | 288 recordings of three frames (sessions that end above, at and below where they began, with errors and unread paths in the middle); `MaxTime` 10 plus `DemoOffset` 4 is two seams |
| `flapping` (violation) | `DownOrUnhealthyAlerts`: `docs/alerts.md` gives one 20 s hold to "unreachable, or unhealthy"; the code restarts it whenever the answer changes from one to the other | three polls |
| `disk_rate` (violation) | `DiskRateIsOfItsInterval`: the disk's rate divides by the time since the last poll with metrics | three events |
| `pipeline` | `ClearedMeansGone`, `ShownIsAnnounced`, `ShownIsLogged`, `NothingRepeated`, `CooldownKept` with restarts at any time and one store failure anywhere | two keys: a critical one transitions hide, and one of two levels they do not; `MaxTime` 7 is past grace 3 and cooldown 4, twice over a restart |
| `notifier` | `HeardIsTold`, `NothingVanishes`, `KeptNoLonger` | one key, up to five queued messages; `RetryEvery` 2 and `GiveUpAfter` 1 let a message fail, be retried and be given up before `MaxTime` 5 |
| `tick` | `HoldsWhatServerBelieves`, `PointsInOrder`, and `ImplementsView`: TickStream refines SnapshotView | two pages, two sockets (so one page may reconnect while its old handler still runs), two sections of which one changes and one disappears, three polls, a live buffer of two |
| | `RecipientKnows`, `ShortLogIsDelivered` of the forwarder | a push-worthy key of two ranks and one that is not, a limit of two rows, two failed fetches to trip, a cooldown of 3 within 7 moments |
| `tick_loss` (violation) | `NoPointLost`: a point of a poll made while an init is being sent reaches that page in no message, where `main.js` says "nothing is lost" | as `tick`, with a buffer of three so that the hole shows |
| `forwarder_events` (violation) | `CameAndWentIsDelivered`: the same without the exception for an answer that was cut | as `tick` |
| `follower` | `LoadIsOfTarget`, `FollowsActive`, and no deadlock of the two threads | two units of one container, two lines in the pipe; finite without further bounds |
| | `SignalsCountedOnce`, `RecordIsOfOneRequest`, `SlotsAgree` of the parser | a log of eight lines: two requests, or two starts of the server with a request in each; a second tail that replays three; one slot, since what the parser keeps of a request is by task and of a slot by slot |
| | `FoundInTime`, `LostCardIsNotCounted` | three kinds of host with two places each, any change at any moment; two cards; limits scaled, finite without further bounds |
| `follower_moved` (violation) | `FollowsActive` again, with two units of one name in two containers | one line in the pipe |
| `learned` | `OneSlowRequestIsNoNews` (of polls judged to the end), `FallbackIsFound`, `NewRecordIsNews`, `WearIsOfTheCard`, with restarts and one failing write | six kinds of host; a window of 5, 3 samples to learn from and a run of 2 keep the order 300 > 12 > 3; `MaxTime` 7 lets a model be learned and fall back, with a poll to spare |
| | `HistoryTypeOK` (the cursors stand at ends of buckets), `FoldedWhole`, `KeptUntilFolded` (no row is deleted that a table has still to fold, unless every rollup since the prune before failed), `ChartShowsWhatIsStored`, `UsageCountsRequests`, `EnergyOfGapIsMissing`, with two failures or restarts anywhere | buckets of two and four polls, raw rows kept for 12, a downtime of 14 (longer than that), 21 polls: three hours folded and a prune past each |
| `fallback` (violation) | `FallbackIsSustained`: the alert about a fallback that goes on ends by itself | one model, two rates, five polls |

Type invariants are one conjunct list per module; where they say something that
steps could break they are checked (`TypeOK` of TickStream, `HistoryTypeOK`), and
elsewhere only proved (section 5). Deadlock is checked for `follower` only: each other
model stops when its clock, its polls or its events reach the bound, where the
program would go on. The bounds are `MaxTime` (`Clock`), `MaxFaults`
(`AlertPipeline`, `LearnedRules`), `MaxTick` (`TickStream`), `MaxPipe`
(`JournalFollower`), `MaxEvents` (`Telemetry`), `MaxWork` and `MaxRefusals`
(`LlamaSleep`), `DemoRestarts` (`Demo`), `MaxPolls` and `MaxStoreFaults`
(`History`) and `MaxTask`, `MaxLog` and `MaxTails` (`JournalParser`).

### What the violations mean

*flapping.* `llama` and `llama_health` are two keys that exclude each other
(`rules.py:44-57`), and the gate forgets a key that is absent on one poll. An
overloaded server that times out on one poll and answers 500 on the next is
never "ok" and never alerted.

*tick_loss.* `ws_endpoint` reads the live buffer, awaits the send, and then
registers. On a slow link that takes longer than a poll, and the poll's point
is broadcast to the registered clients only. The page merges the next tick onto
a buffer with a hole; only a reconnect fills it. The snapshot itself is not
affected: `HoldsWhatServerBelieves` holds because the client is registered with
the signatures that were read together with the init. `QuickInitsLoseNothing`
holds: where each init is sent before the next poll, no point is lost.

*follower_moved.* The watchdog compares unit names (`follower.py:96`) where
`run()` compares target and unit (`follower.py:113`). A unit that becomes active
under the same name in another container, or in Docker after systemd, while the
old tail stays open, is not followed, and the page goes on naming the old one.

*fallback.* Every rate is learned from, also while `slow_decode` is shown. Once
the slow ones are the larger part of the window the median is theirs. With the
real constants that is the 13th slow request after a model's first 12, or the
151st after a full window; the scaled window changes the number, not the effect.
`FallbackIsFound` holds because the run is shorter than the samples it takes to
learn (`SlowRun < MinSamples`), and `FallbackGoesOn` says that it stays until then.

*disk_rate.* `prev_disk` is replaced on every poll and `prev_ts` only on polls
that had metrics (`monitor.py:298-299`, `423-424`). While a model loads, from the
second poll on, one poll's sectors are divided by the time since the load began:
the rate that is there to make a load visible fades as the load goes on.

*forwarder_events.* `/api/alerts` takes the oldest 100 rows after `since` and then
filters them (`api.py:214-219`), and the forwarder's `since` moves only to the
newest row it is given. Once 100 rows that are not push-worthy lie behind it, it
is given none, for ever. What is on when the forwarder runs is still told, from
the current alerts; what came and went in between is not. `ShortLogIsDelivered`
holds: as long as no answer is cut, nothing of it is lost, whatever fails.

## 4. Fairness

`FollowsActive` and `AsleepAfterWork` need some. For the follower, weak fairness of each thread is what the
operating system gives. `SF_vars(End)`: the reader gets a lock that the watchdog
takes every `RETARGET_POLL` and gives back; the lock is not fair, but it is free
almost always. `SF_vars(Spawn)`: a runtime that is asked again and again starts
a tail in the end; without it nothing could be followed. Nothing is assumed of
discovery, of what a unit logs, or of how often a tail dies, and the property
only asks to be following again and again, because a tail may always die. For
`AsleepAfterWork`, weak fairness of the poll loop (it sleeps and polls again,
whatever a poll raised), of the server's clock while a tick is possible at all
(a poll is out for at most `PollTicks` of them), and of a request's end; nothing
is assumed of when clients ask, of whom there are finitely many. The
other properties are safety properties. For the delivery task, which asyncio
resumes, liveness is planned.

## 5. Proofs

TLC checks the small instances above; TLAPS proves what follows for every set of
keys, pages, tables, models or cards, every limit, and behaviours of any length.
Of the properties the passing runs check, all have a theorem (listed in
`PROJECT.json`) but the two liveness properties named at the end of this section.

### Assumptions

The modules name what they assume of their constants (`GapsAssumption`,
`GateAssumption`, ...), and TLC evaluates each on the runs. Most give a constant
its type or tell a `None` from a value. Those with content, and why the code's
values satisfy them:

- `PipelineAssumption`: the grace period covers each hold plus the time a process
  takes to judge its first poll, which is what `max(HOLD_SECONDS) + 3 *
  POLL_INTERVAL` is for.
- `SleepAssumption`: a poll takes less time than a model is idle before it sleeps:
  seconds, against minutes.
- `LearnedAssumption`: `MinSamples <= BaselineWindow` (12 and 300).
- `DiscoveryAssumption`: a miss is remembered for no longer than a find, and the
  time within which `guests` is read again includes its period.
- `DemoAssumption`: what the proof needs of a recording: it begins at 0, the
  agent's times are in order, span no more than a pass, and its first and last
  frame hold what is counted. The recording in `app/demo` does: 1335 frames in a
  pass of 2700 s, the agent's times from 0.05 s to 2698.2 s after it began.

Five theorems hold under a condition on the constants, which their statements
carry:

- `OutageOfOneKindAlerts`: the hold of the key is no longer than the one the
  documentation gives (both are 20 s), and every failing observation raises it.
- `HistoryKeeps`: `KeepsEnough`, raw rows are kept for longer than it takes until
  the next rollup that runs to its end has folded them: 14 days, against an hour
  between prunes, an hour's bucket and the lag of twenty seconds.
- `HistoryUsage`: `HoursKept`, the hourly rows are kept for as long as the longest
  range the page offers: 730 days and a year.
- `FallbackFound`: `SlowRun < MinSamples` (3 and 12): with a longer run the slow
  requests would be the median before they are news.
- `OneSlowIsNoNews`: `2 * (SlowRun + MaxFaults) <= BaselineWindow + 1`: with 3 and
  300, up to 147 failed writes.

Three theorems say what is left of a promise that a run refutes, and so are about
fewer behaviours or one direction: `QuickInitsLoseNothing` where no poll is made while
a connected page's init is being sent (`InitsAreQuick`), `FallbackGoesOn` until a write
fails and for as long as the fallback's own rates are not half of the window or more,
and `DiskRatesOnlyFade`, a bound from one side.

### Arguments

Each theorem follows from an inductive invariant that says more than it does.

*AlertGateProofs.* `BoundedSilence` is not inductive: a key's silence could
begin under one transition and go on under the next. `QuietUnderOneTransition`
says that the transition that hides a key now began no later than the silence,
and `RunIsFirstSeen` that the gate's memory agrees with the observed run
(`GateInvariant`). `SwitchesAreQuiet` and `OutagesAreShown` follow from
`GateShowsExactly`: the gate's transition is the observed switch, and what it
shows is exactly what is present past its hold and not hidden.

*AlertPipelineProofs.* `ClearedMeansGone` rests on `GraceInv`: a key present on
every poll since shortly after the start has its hold behind it once the grace
is over, so it is shown or hidden by a transition. `NothingRepeated` rests on
`LedgerInv`: while the notifier's row could be written, the dict in memory, the
stored row and what the recipient was told have the same keys open.
`CooldownKept` rests on `CooldownInv`: in memory and in the stored row, `last`
is no earlier than what the recipient was told, even where a write failed.
`ShownIsAnnounced` is the other bound, `HeldBackInv`: no later, unless a write
failed, so a key is not held back for longer than a cooldown since it was said.
`PipelineTypeOK` carries through every way a poll can end what the dicts, the
row and the log are. `ShownIsLogged` rests on `LogInv`: while the store has not
failed, `active_alerts` is what is shown, and each of its keys has a raise as its
latest row.

*NotifierProofs.* `QueueInv`: the outbox is in the order it was queued, and what a
round has yet to look at is in it, unchanged, though polls append meanwhile.
`KeepInv`: no message is due later than the limits allow, and one a round has
passed was not due at the round's time, or was put off past it. `VanishInv`: a message queued is waiting,
heard, or given up as too old. `HeardIsTold` says nothing while messages wait, so
its invariant is about them: `HeardInv`, the last waiting message that speaks of a
key, or else what was heard, is what was told of it. It needs `FrontInv`: while no
send has failed a round works from the front, so what is heard is heard in order.

*ClientProofs, the stream.* `WholeInv` follows one socket from `accept()` to its
close. `SocketInv`: a socket is used once, by one page, and nothing is sent on it
before its init. `ShowsInv` and `ChannelInv`: a page shows the snapshot of its
position, and each message on its way, and the one a send is awaited for, *fits*:
merged with what the page will show by then it makes the snapshot it is numbered
with. `BeliefInv`: the signatures the server keeps of a client are those of the
snapshot its last message makes; `BroadcastInv` says so of the copy a broadcast
works through, which may be a poll ahead, and `InitInv` of what a handler is about
to register. `StreamImplementsView`, the refinement, follows: a poll publishes, a
received message moves the page to a published snapshot, whole and no older, and
every other step stutters. What the `tick_loss` run leaves, `QuickInitsLoseNothing`,
needs `HolesInv`: a page's points are unbroken and end before its position, and
each message on its way joins them (`JoinInv`), because a registered client's last
message is of this poll, or of the one before while the broadcast still owes it one.
A handler that is sending an init breaks this on the next poll, and at no other step.

*ClientProofs, the forwarder.* `KnowsInv`: unless a message was heard from a run
that was not saved, state file and recipient know the same, and the file counts no
fewer failed fetches than there were, so "dark" is said in time. `OwedInv`: as
long as no answer was cut, what is owed lies in the log behind `since`.

*AgentProofs.* `GpuInv`: no row is newer than the loss of its card, and a process
that is kept was not silent for longer than `STALL` at the last count.
`SignalsInv`: below the parser's high-water mark every signal was counted once,
and every line below the tail was read or is lost to it. The records need
`ParserInv`, whose half is about the log itself (`WorldInv`: between a load and a
line that tells of a request the load was done; a task that ends was told of on
its slot, where nothing else was launched meanwhile) and whose other half says
which lines what is pending (`PendingInv`) and recorded (`RecordsInv`) came from,
and what the slots show of a log that nothing was missed of (`ShownInv`).
`DiscoveryInv`: what was found after the machine last changed is right (`SinceInv`),
and what is remembered is refreshed in time (`AgesInv`). `LoadIsOfTarget` is
inductive with `StreamIsOfTarget`: the tail that is read is the target's, as
`_spawn` sets both.

*LearnedRulesProofs.* `WearInv`: a card's row was read of that card, which was
never seen with more. `SelInv`: the log's row is what was last read of it, and
since when it is news. `FoundInv` finds a fallback request by request: the latest
`j` are the latest of the window, and slow against all before them there, except
for the oldest, which leave it in time. `HeldInv` says that a request judged slow
stays so for as long as it is among the latest: half of a full window was faster,
and `a` rates learned since push out no more than `a` of them; a poll whose row
could not be written learns a rate and judges none, so faults count as well. The
induction over the polls is the temporal one; where an argument runs along a
sequence it takes the least counterexample (`NatLessThanWellFounded`). `FallbackGoesOn` says
what the `fallback` run leaves: the stored row has the run of slow requests and the
baseline of what is shown (`CriticalInv`), and the median of a window that is mostly
above a rate is above it (`MiddleIsAbove`), so a request that is slow against most of
its window is slow against its median, and the run goes on.

*PollProofs.* `WatchImplementsGate`: rules and observations are a behaviour of the
gate, so its four promises hold of them (`WatchSilenceIsBounded` and the three after
it). `OutageOfOneKindAlerts` says what the
`flapping` run leaves of the documented hold: of a server that is not ok in one way
only it is kept, so the change from one way to the other is all there is to that
finding. `TokensAreOfTheInterval` rests on
`TokensInv`: llama.cpp's total is never further ahead of `prev_metrics` than what
was generated since, which a restart keeps and only a poll with metrics resets.
`SignalsConserved` rests on `SignalsInv`: since an agent's first answer
`prev_counters` is what it last said, so the deltas telescope; a poll that raises
moves `prev_counters` without being heard, which turns the equality into a bound.
`DiskRateIsNoHigher` says what the `disk_rate` run leaves of a rate: `prev_disk` is
always the last poll's and `prev_ts` never later than that (`DiskInv`), so the time
it divides by is too long or right, never too short.
`LeftAsleep` rests on `ReadInPoll`: what a poll read was so when it read it, and
the server cannot have been idle for longer since than the poll has taken.
`NothingGoesBackwards` counts frames over all passes: `NextValue` shows that from
one place to the next no time falls, the seam included, and `ValuesRise` that so it
is between any two; `DemoInv` says that what was heard was the value at a place no
later than this poll's, and that no poll to come is of an earlier moment.

*HistoryProofs.* `HistInv` says the same of what the connection reads and of what
is committed, since a restart reads the disk back (`StoreInv`): cursors stand at
ends of buckets (`StoreTyped`); a row that a table has still to fold is there
(`RowsKept`); before a cursor each bucket holds every row ever committed in it, and
each hour every request that was not late (`BucketsWhole`, `HoursWhole`).
`KeptUntilFolded` adds the loop's timers, `YoungInv`: while `prune()` may count on a
rollup since the last one, what is not folded is younger than what is deleted.
`FoldIntoIs` is the lemma about `INSERT OR REPLACE`: from the cursor on a fold
replaces whole buckets, and leaves the others. `EnergyOfGapIsMissing` is a bound on a
sum. `GapInv` says that each moment not polled lies in a gap that one failure or
restart ended (`GapsEnd`), so a row is charged for no more than the polls since the
row before it and three windows for each gap that ended since (`ChargedIsCovered`).
These shares are disjoint, from row to row, within the polls and the failures there
were; `SumWithin` adds them up. The sum is a fold, whose recursive function is shown
to exist (`SumExists`) and to be within the shares by the least counterexample.

### Only model-checked

- The liveness properties `FollowsActive` and `AsleepAfterWork`: liveness under
  fairness is out of the provers' reach.

## 6. Plan

Proofs: of the properties checked, all that TLAPS can state is proved; liveness is
left to TLC. Each model below would bring its own.

Model: the page's sockets (parking and resuming while a close event is on its
way, answers to fetches out of order), and the agent's keyed cache, whose failed
read of a model's header stays for its whole period under the new key.

## 7. Not modelled

- *Drawing, wording and formats*: no state beyond what is shown.
- *Page data apart from the socket's messages*: planned.
- *Schema migration and column averages*: SQL whose results the properties do
  not tell apart; an average of averages weighs windows alike, whatever they
  hold (`schema.py:118`).
- *Parsing* of GGUF headers, IPMI, `/proc`, log patterns and command output:
  functions of their input, left to the repository's tests.
- *Agent server, self-test, deployment, tools, end-to-end tests*: they keep no
  state the system depends on.
- *Rules without a memory* (temperatures, throttling, links, sensors, Xid,
  memory, storage): a comparison each, which the gate's keys stand for.
- Met while modelling and covered by no property: an alert that drops in level
  and worsens again is not announced again (`notify.py:141`); the dashboard's
  restart makes the forwarder say that everything cleared
  (`dash-alerts.py:174`); a usage report pinned to an old moment is read from the
  table its length chooses (`usage.py:25`); a request is stored under the model
  served when it was polled (`monitor.py:372-375`); with `DEMO_AGENT=0` the
  replay stands still (`demo.py:163`); a stream that has just been started is
  judged by the last line of the one before (`nvidia.py:203`).
