# Specifications of bar-daemon

bar-daemon is a desktop daemon in Rust: it watches batteries, displays, audio,
notifications, agenda, updates and workspaces, publishes one state to a shell
over a socket and D-Bus, and carries out the shell's requests.  This directory
holds TLA+ models of the parts whose correctness depends on interleavings,
failures and restarts, the TLC configurations that check them on small
instances, and TLAPS proofs of what matters most for every instance.

    tlc -workers 2 -config BatteryControl_safety.cfg MCBatteryControl
    tlapm BatteryControlProofs.tla

Paths below are relative to the repository, whose crate is under `src/`.

## 1. Inventory

Each component, the state it keeps, what it does, where it is hard and what
makes it correct.

**Battery control** (`src/api/battery.rs`, `src/battery/mod.rs`,
`src/battery/config.rs`, client half of `src/battery/helper.rs`).
State: two files, `battery.json` (the charge policy per battery) and
`battery-state.json` (the recovery record: a charge-once, inhibition or
calibration in progress, and *fences*, the batteries whose last write has an
unknown outcome); the published battery state; the hardware itself.
Operations: set thresholds, set protection, charge once, inhibit, resume, start
and cancel calibration, and the monitor's reconciling pass.  They share one
mutex, `lock_effects`, held across helper calls.  Hard: the hardware cannot be
part of a transaction with the files; every helper call may fail, be refused,
be cancelled or end unknown; the daemon may die at any point; the monitor reads
sysfs before it has the lock and works on a copy of the record.  Correct when no
hardware setting outlives the record that will undo it, a record is never
overwritten by that of another operation, and every temporary state ends.

**Battery helper** (`src/battery/helper.rs`, `src/battery/authorization.rs`).
A privileged D-Bus service.  It authorizes a caller through polkit, with a
budget and a watch on the caller's bus name, and rewrites two sysfs files one
after the other, in an order chosen so that start stays below end, with a
rollback and a readback.  Hard: failures between the writes, a caller that
disappears, two requests at once.

**Battery operations** (`src/daemon/battery_operations.rs`,
`src/daemon/owner.rs`).  A bounded table of asynchronous operations: one at a
time, each owned by a client, cancelled by request, owner loss or budget, its
answer retained for a while.  Hard: the three ways to end race with the reply.

**Native notifications** (`src/activity/notifications/`): `engine.rs` keeps the
live notifications, update routes, DND and delete confirmations in memory;
`persistence.rs` owns a bounded command queue and a thread; `database.rs`,
`storage*.rs`, `schema.rs` and `history.rs` keep the archive.  Memory changes at
once, the archive later; some handlers wait for the thread while they hold the
mutation mutex.  Hard: ordering between memory and archive, deletion against
queued saves, once-only notifications across crashes and unknown commits, reads
abandoned halfway, shutdown, identifiers across restarts.

**Notification popups, server and center** (`toasts.rs`, `center.rs`,
`server.rs`, `search.rs` there, and `src/activity/swaync.rs`).  The popup deck
(admission, timers, group caps, sharing privacy), the D-Bus front and the pages
of the notification center.  Popups do not reach the archive.

**Battery telemetry, history and alerts** (`src/battery/`).  Reading and shaping
of sysfs values; a low-battery alert policy with hysteresis.

**State store and subscriptions** (`src/state.rs`, `src/state/`,
`src/daemon/subscriptions.rs`).  One snapshot behind a lock; replaceable streams
coalesce, ordered streams report a gap when a subscriber lags; publications carry
an epoch and a revision.  Hard: initial state against later events, lag,
revision rollover, stale writers.

**Sleep** (`src/sleep.rs`, `src/sleep/`) carries out one lock or sleep request at
a time and tracks what became of it; **sleep policy** (`src/sleep_policy.rs`,
`src/sleep_policy/`) asks for sleep by itself: at a lid close, when idle, at a
critical battery level.  State: the tracker, the lid controller, the recovery
file of the critical engine, the saved policy, hypridle's live timeout, the
published sleep state.  Hard: logind's reply may be lost after it acted; a
retry must not suspend twice; a cancellation races a save, a call and a restart;
observations are made without the lock; slow queries meet newer signals.

**Workspaces** (`src/workspace/`).  A journal of reservations, placements,
closes and handoffs, saved before the compositor is asked for anything, and an
observer that compares it with the compositor.  Hard: crash or lost reply
between admission and effect, windows that replace each other, identifiers that
must not be given out again.

**Display policy** (`src/display_policy.rs`, `src/display_policy/`).  A planner
that follows the dock, and layouts that are previewed on trial, confirmed or
rolled back.  Hard: hotplug, sleep, timeouts and restarts in the middle of a
trial; never a desktop without a lit output.

**Agenda** (`src/activity/agenda_service.rs`, `src/activity/agenda_store/`,
`src/agenda_maintenance.rs`).  A database with request receipts, a cached
snapshot, legacy import, export and restore.  Hard: an unknown COMMIT, resent
requests, a cache beside the database.

**Activity service** (`src/activity/service.rs`, `catalog.rs`).  One published
state made of calendars, weather, saved cities and the agenda.  Hard: four kinds
of writers publish from data they read at different times.

**Updates** (`src/updates.rs`, `src/updates/`).  Reads what other processes write
while they write it, and announces each outcome once.

**Location daemon** (`src/bin/bar-location-daemon/`).  A system service that sets
the timezone from evidence about the place.  Hard: evidence ages while it is
used; a privileged write has an unknown outcome; the user may have chosen a zone.

**Power profile automation** (`src/power.rs`, `src/power/automation.rs`,
`src/battery/levels.rs`).  Holds or selects a profile at battery levels and gives
it back.  Hard: another program's selection, service restarts, crashes between
an effect and its note.

**Audio** (`src/audio.rs`, `src/audio/controller.rs`) and **timezone**
(`src/timezone.rs`).  A controller and a monitor publish the same domain; a
reading is made of several calls.

**Media** (`src/media.rs`, `src/media/enrichment.rs`).  A monitor lists the
players, reads each, watches it, selects the one to show and looks up metadata
for its content.  Hard: a lookup ends after its player went on or left, or dies;
requests select and write beside the monitor; signals before a subscription.

**Popups** (`src/activity/notifications/decks.rs`, `sharing.rs`, `policy.rs`).
Decks per output, frozen while they are read; popups hidden while the screen is
shared or an application is silenced.  Hard: observations of PipeWire apply
late, outputs come and go, deadlines run out while a popup is read.

**Brightness, theme, OSD, protocol and transport**: monitors that copy one
external value, wire formats and wiring.

How they meet: API handlers run on tokio tasks and use the mutex of their
component; monitors are tasks of their own that write to the state store;
notifications are raised by other components through the engine (the updater
through `notify_update_once`); the battery daemon part and its helper are two
processes that speak D-Bus.

`PROJECT.json` lists every component with its status, the hazards at their lines
with the properties that cover them, and the lines each definition models.

## 2. Modules

| module | models | variables that stand for code state |
| --- | --- | --- |
| `BatteryHelper` | the helper's authorization and writer | the two files, each request's position, the bus names |
| `BatteryOperations` | the operation table | `entries`, `owner`, `cancel`, `answer`, the tasks, the owner monitor |
| `BatteryControl` | handlers, monitor pass, files, client side of the helper | `runtime`, `config` (files), `view` (store), `call`, `apiPc`…, `monPc`, `mRuntime`, `seen`… |
| `NotificationStore` | the archive: rows, identifiers, once keys, DND, retention; pure operators | (value `db`) |
| `Notifications` | engine, queue, thread, crash and restart, over `NotificationStore` | `active`, `routes`, `nextId`, `dnd`, `tickets`, `queue`, `db`… |
| `StateStream` | the promise of one subscription to one stream (abstract) | |
| `Publication` | the state store, its channels and subscriptions | `value`, `pub`, `failed`, `sub`, `cursor`, `hand` |
| `SleepRequest` | sleep requests, their outcome, Keep awake, the lid controller, the helper's lease | `request`, `tracker`, `lid`, `override`, `session` |
| `CriticalBattery` | the critical-battery engine | `engine`, `file`, `token`, `worker`, `canceller` |
| `IdlePolicy` | the saved idle policy and hypridle | `file`, `lock`, `setter`, `monitor`, `idler`, `live` |
| `SleepTelemetry` | the published sleep state and its writers | `shown`, `query`, `events`, `clock`, `toggle` |
| `WorkspaceLifecycle` | journal, handlers, observer | `journal`, `disk`, `poisoned`, `op`, `watchers`, `pins`, `grace`, `desk` |
| `DisplayPolicy` | planner, transition, layout trials | `doc`, `rt`, `planner`, `docking`, `job`, `outs` |
| `AudioControl` | request queue, controller thread, watcher, monitor | `requests`, `pending`, `ctl`, `mon`, `pw` |
| `AgendaStore` | database owner, service, migration, maintenance | `db`, `txn`, `blocked`, `cache`, `op`, `legacy` |
| `ActivityFeed` | refreshes, city edits, publications | `data`, `file`, `guard`, `busy`, `published` |
| `UpdateDelivery` | producers, monitor, delivery | `disk`, `proc`, `monitor`, `saved`, `delivered` |
| `LocationAuthority` | the location daemon's worker | `disk`, `mem`, `auth`, `sched`, `worker`, `queue` |
| `PowerAutomation` | the profile envelope | `ppd`, `taken`, `run`, `file`, `cookie`, `step` |
| `TimezoneView` | the timezone task | `zoneSeen`, `placeSeen`, `statusSeen`, `task`, `shownZone` |
| `MediaView` | the media monitor, selection, requests and metadata lookups | `bus`, `view`, `enr`, `sel`, `shownMedia` |
| `PopupDecks` | popups of the notification engine, screen sharing | `active`, `dnd`, `policies`, `leases`, `sharing`, `cards`, `observer` |
| `Registers`, `SleepServices`, `AmbientServices`, `DataServices`, `ScreenServices`, `SoundServices` | the last fifteen as instances on shared registers, in groups that are proved together | `focus`, `r1`…`r18` |
| `Desktop` | the fifteen, side by side | |
| `MC*` | instances for TLC; `MCDesktop` also has the liveness of the services | |
| `BatteryServiceProofs` | theorems about `BatteryHelper` and `BatteryOperations` | |
| `BatteryControlProofs`, `NotificationsProofs`, `PublicationProofs` | theorems about the module they are named after | |
| `MachineProofs` | `SleepServices` and `AmbientServices`: when the machine sleeps, zone, place, power profile | |
| `DataProofs` | `DataServices` and `SoundServices`: agenda, feed, updates, audio, media | |
| `ScreenProofs` | `ScreenServices`: workspaces, displays, popups | |
| `DesktopProofs` | theorems about `Desktop`, from those three | |

The compositions are `BatteryControl` with what it uses of the helper (a call is
sent, then succeeds with a readback, is refused with nothing written, or ends
unknown: the three outcomes `BatteryHelper` justifies, see `DeniedWroteNothing`
for the second and `FailedRangeExplained` for the third, which covers the old
range, the torn one and the complete new one), `BatteryOperations` with the fact
that a cancelled handler replies (`HandlersReturn` of `BatteryControl`), and
`Notifications` with the archive.  `Publication` is the detailed form of
`StateStream`, once per client and stream.

### BatteryHelper

A request is `polkit → owner → read → first → second → readback`, with
`rollback` after a failed second write; each file write is a step, because the
kernel and other requests see them one at a time.  Every access to a file may
fail, the readback included: then both writes are stored and the caller is told
that the request failed.  `stored` counts the writes of a request that reached a
file; only the properties look at it.  Percentages are real numbers
of the range 0..100; five of them give every relative position of two ranges.
The charge-behaviour write is one file write and appears in `BatteryControl`.

### BatteryOperations

`Start` prunes, admits and spawns; the task confirms the owner, then waits for
the reply, the owner's loss or the budget.  Time is an action: the budget, the
retention and the owner's disappearance may happen whenever they can.

### BatteryControl

A handler is a start action (checks, first save, dispatch of the first write)
and one action per reply; it holds the lock in between.  The pass has one action
per stretch between two awaits: `MonRead` (outside the lock), `MonLock`, the
operation part (`OperationDone` … `FinishRetained`), the threshold part
(`PlanThresholds` … `ThresholdNotWritten`), `FinishPass` and, outside the lock
again, `Publish`.

Data: a threshold pair is a member of `Ranges`; the charge is empty, in between
or full, the only levels the code compares; external power, charge and presence
have no variable, since the code knows them only through a read, and each read
may find any values.  `expired` stands for the 24 h and 48 h deadlines.  `disk`
says whether saves fail or a file cannot be loaded.  An action that could only
return an error leaves no state and is not enabled.

Assumptions.  A write whose outcome is unknown has happened or not by the time
it is declared unknown (an abandoned call that is executed much later is not
modelled).  All batteries expose thresholds and charge behaviours.  The
migration of a charge-once marker without a battery identifier, and corrupt
files other than unreadable ones, are left out.

### Notifications

An ordinary handler is one action: it reserves a queue slot, changes memory and
enqueues its batch when it ends, all under the mutex.  A handler that waits for
the thread is a start and an end action, with `op`, `arg` and `reply` between
them.  The thread executes the head of the queue, one transaction per action;
a transaction commits, is rolled back, or ends unknown, after which the store is
fenced (`blocked`).  `Crash` loses memory and queue; `Restart` closes all
conversations and restores the counter and DND.

Data: content is not modelled; a notification is its identifier, its stamp (its
place in the order of creation), whether it is transient, its two deadlines and
its once key.  Deadlines are unset, set or due.  The retention cutoff is a stamp.

Left out: popups, application policies and screen sharing, which are `PopupDecks`; the
unrevisioned `history` list, which promises less than `query_history` (it does not consult
the sticky history error); the removal of once keys after 180 days.

### Publication

`StateStream` is the promise: publications are numbered; a subscriber gets the
one that was current when it subscribed, then later ones in order; a stream of
replaceable states may leave some out, an ordered stream only with a count of
what was left out, and never the newest.  `Publication` is the code: a writer
changes a domain, advances its identity and sends the projection in one step
(the write lock), a subscription takes the projection and registers its receivers in
one step (the read lock), and a worker per stream takes a message and then emits
it.  The refinement maps an identity (epoch, revision) to its number, and a
client's place to the number of its last state plus what it was told it missed.

Data: a domain is a value.  Epochs are random in the code and successive numbers
here, that is, taken to be distinct.  `log` is history: the channels keep only
its end (the ring of an ordered stream, the last state of a replaceable one), and
receivers never look elsewhere.  The transport is external: what is emitted
arrives until the connection breaks, and nothing after that; a failed emission
is logged and dropped, as in `emit_event`.  A client is one subscription.

Left out: the demand for work areas, the compositor's connectivity, and receipts
of effects, which carry no identity.  The sleep state has several writers and a
module of its own, `SleepTelemetry`.

### SleepRequest

A request is `check → lock → setup → recheck → validate → final → call → reply →
status`, one step per await, while it holds `SLEEP_ACTION`; the session may
unlock, the lid open or the dock connect between any two.  What the request of a
lid close reads before it asks may fail to be read, which ends the close as
failed.  logind's side of the call is separate from the reply: a call may be
accepted after the daemon gave up waiting.  The lid controller asks, learns the
result and retries what provably was never dispatched.  The helper keeps a runtime
setting while an operation holds its lease.  `asked` counts the calls per observed
close.

### CriticalBattery

`Engine::refresh` is a chain of steps with the recovery file saved in between;
the hibernate worker and the canceller run beside it.  An episode ends where the
code re-arms: a recovered battery, a changed policy, or a countdown given up
because a sample failed.  A pass that cannot load the policy stops the engine as
blocked (`Unread`).

### IdlePolicy

A setter saves, applies to hypridle, and rolls back when that fails, all under
`POLICY_WRITE`; the critical settings live in the same file and have their own
setter; the monitor observes first and locks afterwards.  hypridle stops, starts
and becomes ready by itself.

### SleepTelemetry

Four writers of one record: signal and clock observations, the status query,
operation outcomes, and the answer of an action.  The query compares the record
with the one it started from (`if_unchanged`).

### WorkspaceLifecycle

Each request saves the journal before it asks the compositor, and the observer
reconciles after every event and grace period.  A dispatch takes effect, is
refused, or takes effect without a reply.  What became of a placement is read
from a snapshot, which may fail and then leaves the reservation as it was; a
placement that did not arrive is recorded as unknown, and its handoff is given up
unless the release of its pin fails.  Identifiers run up to a bound; the
branch that refuses an allocation beyond it is the only one no run takes.

### DisplayPolicy

A panel and one external connector.  A request or a monitor pass holds
`POLICY_WRITE` from start to end and is a chain of steps.  Geometry is the place
of an output.  `disturbed` and `tampered` are history: what happened since a
preview began.

### AudioControl

Requests queue for the controller thread, which merges a run of adjustments,
probes, writes, reads back and publishes; the monitor does the same from the
other side.  Volumes are small numbers with the code's clamps.

### AgendaStore

The database is its committed content and the view of the open transaction.
`finish` commits, fails, or fails after it became durable, and then fences
further writes until a reopen reconciles receipts and catalog.  A created item's
identifier derives from its request, so a resent request meets its receipt.

### ActivityFeed

Data and the published state are versions.  A publication takes
`publication_guard`, builds a draft and stores it, as two steps; refreshes and
city edits share `refresh_guard`; a save of the cities may be unconfirmed and
fences later ones.

### UpdateDelivery

A producer replaces a record, or writes a marker, a ledger line and removes the
marker; the monitor reads file by file, so a catalog may mix moments.  What a batch
holds is a set: its order does not matter to what it announces.  Delivery
uses the once-only key of the notification engine (`OnceShownOnce` of
`Notifications`) and saves its cursor afterwards.

### LocationAuthority

The worker's path from evidence through the fence and the durable
`write_pending` to the privileged call is a chain of steps, and so is the path of
an explicit request.  A moment counts network changes, sleeps and resumes.

### PowerAutomation

The monitor and a request each take a snapshot of the battery and the policy
before they wait for the envelope's mutex (`MonitorReads`, `CallReads`), and work on
that snapshot, however old it is when they get the mutex (`Begin`, `TakeCall`).
The envelope reads the service, holds a profile, or notes what to restore and
selects balanced; each call is a step.  Which profile a level asks for comes from
the policy: none, balanced or a profile that can be held.  Percentages lie around
the two thresholds and the recovery margin.

### TimezoneView

A location reading is three calls; the revision of the location daemon stands for
its fix and policy.  Signals, owner changes and the status file make the task
read again.

### MediaView

A reading asks for the owner of a player, then for its properties; what plays is
a video or nothing that can be looked up.  A lookup is a task that carries a
ticket (owner and generation) and is joined by the monitor, so that a result can
be late and a task can panic.  The cache may evict any entry.  `Shows` gives
each player the videos it may play: a player with one video, which it may stop showing
and show again, meets a player that has none to look up, so that selection and
lookups run together.  The proofs cover any number of videos.

### PopupDecks

Every handler holds the engine's mutation lock until it has published and is one
action that ends in `publish_summary`; the observer thread and the time between
taking an observation and getting the lock are steps of their own.  A deadline
is unset, later or due, and any of them may become due.  `hushed` and `ended`
are history: what was hidden for good, and the shares that ended and were not
yet recorded.  The instance has two applications and two outputs with room for
one deck each (three in the code).  The
generation that fences `snooze_sharing` is left out: a stale request changes
nothing.

### Desktop and MCDesktop

The fifteen services do not call one another, so their product adds states and no
behaviour.  `Desktop` therefore runs one of them at a time: `focus` names the
service of a behaviour and never changes, the registers `r1`…`r18` are the
variables of that service (each service's `INSTANCE`, in the module of its group,
names the ones it uses), and the others keep a fixed value.  Every property is the
conjunction of the services' own, each under `focus = …`.  The bounds and sets of
all services are constants of the groups, so that its theorems hold for all their
values; `MCDesktop` adds the tables that a configuration cannot write down, the
symmetry and the liveness of the services, where every fairness conjunct holds one
assumption of each service.

The caps that keep the state space finite (`MaxSleeps`, `MaxRevision`, `MaxEdits`
and the like) stand in guards.  Type invariants do not repeat them where the code
has no such limit: a counter is a natural number there, which is what the proofs
show for every cap.

## 3. Runs

Every passing run reaches its properties' interesting cases: a mutant of the
modelled code that breaks each property is listed in `PROJECT.json`.  The
properties of `Desktop` are conjunctions; each service's module carries the
mutants of its own part (`Mut…`, before the definition they change), and each of
them is found by the run of its property.

| run | shows |
| --- | --- |
| `BatteryHelper_one` | with one caller the range is valid at every instant, a denied request wrote nothing, what a failed one leaves is explained by how far it came (`FailedRangeExplained`), every request is answered |
| `BatteryHelper_two` | with two callers the first is violated: finding 1 |
| `BatteryOperations` | one handler at a time, bounded table, answers kept, operations end, orphans removed |
| `BatteryControl_safety` | no behaviour without marker, no marker overwritten, restoring is final, with two operations, a fault and firmware that rounds |
| `BatteryControl_liveness` | an expired charge-once and a restoring calibration end, every handler returns |
| `BatteryControl_calibration` | finding 2 |
| `BatteryControl_stale` | finding 3 |
| `Notifications_safety` | archive, pages and engine agree and identifiers stay distinct (`ArchiveFaithful`), deletion is final, routes are live, once-only is once |
| `Notifications_liveness` | expiry happens, handlers end, a shutdown that was acknowledged is complete |
| `Desktop_safety` | sleep is asked for once and on current evidence (`SleepSafe`); workspace, display and audio effects happen as they were admitted (`DeskSafe`); agenda, feed and update records agree with their effects (`DataSafe`); metadata stays with its content and no popup leaks (also `DeskSafe`); zone, place and power profile are changed by right (`AmbientSafe`); no step rolls back, darkens, overrides or moves popups that are read (`StepsSafe`) |
| `Desktop_liveness` | what is published comes to agree with its subject (`Converges`); what is owed is paid (`Settles`) |
| `Publication` | every subscription implements `StateStream` and catches up, an identity stands for one content, the lineage of epochs survives coalescing, failures are sticky |

### Bounds

* `BatteryHelper`: percentages {0, 40, 60, 80, 100}, two failing accesses (enough
  for a failed write and a failed rollback, or for a failed readback); one and two callers.
* `BatteryOperations`: two owners, capacity 2, three operations: the third meets
  a full table, a pruned one and a running operation.
* `BatteryControl`: one battery, three ranges (full, the configured one, one that
  nobody asked for), two operations and one fault for safety (the second
  operation meets what the first left behind), one and one for liveness.  A
  fault is a refusal, an unknown outcome, a failing disk, an absent battery, a
  failed read or a crash.  The liveness and the violation runs use exact
  firmware: with firmware that never reports the requested range, no restoration
  is ever verified, and the code retries for ever, as it should.  Finding 2 has one
  operation and no fault: cancelling the request is enough.  Since there is
  one record for all batteries, a second battery adds policy writes to a pass
  and little else; the proofs cover any number.
* `Notifications`: two notifications, one live at a time, so that the second
  evicts; three identifiers, so that the counter gets near its end without
  wrapping (the `ArchiveIdsDistinct` part of `ArchiveFaithful` asks for that); a
  queue of two slots, the least with which the expiry task's prune request works
  (it holds one slot while it waits for another; the model takes both in one step,
  so that what the runs show is that its handler gets them and ends, not how two
  such holders would wait for each other, which the mutation mutex excludes); one
  once key, one delete token, one fault.  The liveness run has one notification
  and two DND modes instead.

* `Publication`: one stream of each kind, owned by one monitor together and the
  replaceable one by another too; a ring of two and four publications beyond the
  first, so that a receiver lags and a gap is reported; a revision limit of two,
  so that an identity rolls over twice.  One client; clients do not interact.

* `MCDesktop`: per service, the least budget with which every branch of its
  module is taken, and one fault more for safety where states allow.  Two sleep
  operations and three changes of the session (a close, a retry, a lost reply); two
  episodes of a critical battery; two windows and two pending reservations with two
  identifiers, enough for one that must not be given out again; two requests of the
  agenda, so that one retries while another changes the same item; two changes for
  the feed, so that two publications are under way; two display requests and one
  hotplug, sleep or fault; one change of network, sleep or resume and two reloads,
  faults or changes by the user for the location daemon; four events for power (a
  level, a selection, a restart, a crash), over five battery snapshots under two
  policies; two audio requests, which may merge, with one outside change or error;
  two revisions of a place; two changes of the players, which at first all run or
  none; three events for popups (a share, an arrival, its end; an arrival, a reading,
  another arrival).  The liveness run leaves out `critical` and `agenda`, which
  promise no progress of their own: both wait for a user or a battery.  It has one
  player, one audio request, one reservation at a time with three identifiers, and
  one event less for most services, because the graph that liveness is checked on has
  to stay small.  The safety run reaches 1 785 129 states, the liveness run 248 867.

`CHECK_DEADLOCK FALSE` is used where the system stops because the bounded input
is used up or all owners have left (`BatteryHelper`, `BatteryOperations`,
`MCDesktop`).

### Fairness

* `BatteryHelper`: weak fairness of each request's steps; polkit is bounded by a
  timeout, the writer never waits.
* `BatteryOperations`: weak fairness of the owner check, of the end by owner loss
  or budget (timers fire), and of the reply of a *cancelled* handler only: an
  uncancelled one may wait for a long authorization.
* `BatteryControl`: weak fairness of replies, reads, publication and of the
  helper call's end (answer or timeout), strong fairness of the pass because
  tokio's mutex is first come, first served, so that handlers cannot starve it,
  and weak fairness of `DiskHeals`: a restoration can only be completed on a
  disk that works again.
* `Notifications`: weak fairness of the thread, of returning handlers and of the
  exit, strong fairness of `expire_due`, because the mutex and the channel's
  slots are granted in order.

* `MCDesktop`: weak fairness of the steps of whoever holds a lock (every await
  in them has a deadline), of monitors (interval timers tick) and of timers;
  strong fairness where a task waits for a tokio mutex, which is granted in
  order (the idle monitor, feed refreshes and edits, workspace projection) and
  where a signal has to be taken from a queue before another arrives (the
  branches of the timezone and media loops).  Each
  service's own module states the same assumptions in its specification.  No
  user, no other program and no fault is fair.

* `Publication`: weak fairness of each worker, which the runtime polls (a slow
  transport is slow, not stuck), and of the end of a subscription whose
  connection broke, which the owner monitor sees.  `CatchesUp` assumes that the
  store is quiet for a while; it does not assume that writers stop for good.

## 4. Findings

1. `docs/battery.md:126` says that the helper "orders writes so an intermediate
   value remains valid".  The order is chosen from values read at the start of a
   request, and nothing serialises requests (`src/battery/helper.rs:290`): two
   interleaved requests produce a start at or above the end.
2. `docs/battery.md:82` says "If restoration fails or readback differs, the
   recovery marker is retained and restoration is retried".  The rollback of a
   calibration that fails at its start drops the marker even when the range could
   not be put back (`src/api/battery.rs:522`).  `CalibrationMarkerKept` looks at
   that undo alone, at its step from the write that should restore the range to the
   reply.  In the trace, of 14 states, nothing fails by itself: the range is raised
   to 0-100 and read back, the client cancels, so that forced discharge and the
   restoring write are both refused before they are dispatched, and the empty
   record is saved while the battery holds 0-100.
3. `docs/battery.md:80` says "The runtime marker is cleared only after verified
   restoration."  A pass that read sysfs before a charge-once began, and got the
   lock after it, takes the old reading for the restored range
   (`src/battery/mod.rs:245`).

Observations without a run.  When a charge-once is cleared the whole record is
replaced from the pass's copy, so that a fence set during that pass is lost
(`src/battery/mod.rs:264-268`, against the comment at
`src/battery/config.rs:236`).  A behaviour write of a calibration is retried for
a fenced battery, although "automatic writes" are said to be paused
(`src/battery/mod.rs:194, 439-486`).  A runtime file that cannot be read counts
as the default one for a pass (`load_policy_data`); the model has this
(`badRuntime`).  A prune after a batch that only set DND changes the archive
without a new history revision.  `forward_signals` drops NotificationClosed
signals when its broadcast channel of 256 lags.

The desktop services add these, each met while its module was written; a module
that has to exclude one names the exclusion.

* Sleep policy: a cancellation is forgotten when the next battery sample fails,
  because a countdown given up for want of evidence re-arms the engine
  (`src/sleep_policy/critical.rs`; `CancelHolds` says so).
* Updates: the once-only key of a batch is the identifier of its last run
  (`src/updates/desktop.rs:117`).  If a batch `[r2]` is delivered and not saved, and a
  run `r1` that sorts before it ends in the meantime, the retry is the batch
  `[r1, r2]` under the same key, is taken for delivered, and `r1` is never
  announced (`swallowed`).
* Displays: a trial whose rollback needs an output that was unplugged stays
  pending and refuses other layouts until it is plugged in again (`Stranded`).
* Location: when a sleep and a resume fall into one wake-up of the worker together
  with a reload, `reconcile_control` does not renew the start of the network, although
  its comment says that evidence from before a sleep is refused (`fence`).
* Power: a crash between a manual choice of balanced and the removal of the
  restore note restores the older profile; a hold taken on a restarted service
  before its owner change is seen loses its cookie until the connection ends.
* Audio: muting a sink whose volume belongs to a route writes the probed volume
  with it, and undoes a change that another client made in between.
* Timezone: when only the first of the three calls fails, the fix is published
  without its policy, and is read again only when the revision changes.
* Media: a property that changes between a reading and the subscription of the
  player's watcher is not heard before its next signal (`src/media.rs:286`).  A
  failed listing is not retried, so that a player that left stays as a stopped
  one until the next owner signal, and a request under way may write the old
  players back over the error (`src/media.rs:290`).  After a lookup panics, each
  aborted lookup is joined as another failure, which aborts the lookups started
  since and files them as failed (`src/media/enrichment.rs:187`).
* Popups: when a share begins, `observe_sharing` hides the popups there are for
  good, as the test "No replay after sharing ends" asks.  A snooze chosen again
  later in the same share hides them only while it lasts, and a popup without a
  deadline comes back when it ends (`src/activity/notifications/engine.rs:416`).
  `NothingLeaks` speaks of what was hidden for good.

## 5. Proofs

| theorem | for every |
| --- | --- |
| `BatteryServiceProofs!HelperTypeCorrect`, `DeniedIsSafe` | set of callers and percentages, number of failures |
| `BatteryServiceProofs!RangeAlwaysValid`, `FailedRangeIsExplained` | set of percentages, number of failures, *one* caller (`SingleCaller`; the run with two shows that it is needed) |
| `BatteryServiceProofs!TypeCorrect`, `HandlersExclusive`, `TableWithinCapacity`, `AnswersAreKept` | set of owners, capacity, number of operations |
| `BatteryControlProofs!TypeCorrect`, `MarkersCoverBehaviour`, `MarkersAreNotOverwritten`, `RestorationIsFinal` | set of batteries and ranges, firmware readback, number of operations and faults |
| `NotificationsProofs!TypeCorrect`, `RoutesStayLive`, `ShownAtMostOnce`, `DeletionIsFinal`, `ShutdownIsDurable`, `ArchiveIsFaithful` | number of notifications, keys, tokens, queue slots and faults |
| `PublicationProofs!PromiseKept`, `IdentityIsContent`, `FailureIsSticky`, `LineageIsKept`, `TypeCorrect` | set of clients, of streams of either kind and of monitors, ring size, revision limit |
| `DesktopProofs!SleepIsSafe` | set of lid actions and idle policies, table of minutes, number of operations, closes, cancellations, episodes, failures and restarts |
| `DesktopProofs!AmbientIsSafe` | set of zones, percentages and requests, number of revisions, reloads, network changes, sleeps, failures and restarts |
| `DesktopProofs!DataIsSafe` | finite set of agenda requests; set of editors, places, workers and manual runs; number of imports, edits and faults |
| `DesktopProofs!DeskIsSafe` | set of windows and keys, number of workspaces, trials and hotplugs, set of sinks and volume steps, length of the queue, finite set of ranked players, set of videos, applications and outputs |
| `DesktopProofs!StepsAreSafe`, `TypesCorrect` | all of these |
| `MachineProofs!SleepRequestSafe`, `CriticalBatterySafe`, `IdlePolicySafe`, `IdleTypeCorrect`, `TelemetryNeverRollsBack`, `TimezonePlaceIsWhole`, `TimezonePlaceNeverOlder`, `PowerAutomationSafe`, `PowerAutomationActsOnItsOwn`, `LocationRequestsApplyOnce`, `LocationZoneWritesJustified` | the same under the specification of one service |
| `DataProofs!AgendaEffectsMatchReceipts`, `FeedShowsItsData`, `UpdateNoOutcomeLost` | the same under the specification of one service |

With these every invariant and every action property of the passing runs is
proved; what remains with TLC is named at the end of this section.

The assumptions are those named in the modules (`PercentsAssumption`,
`OperationsAssumption`, `ControlAssumption`, `ScopeAssumption`, `EngineAssumption`,
`PublicationAssumption`, `NoneAssumption`, and `…Constants` in the groups of
services); TLC evaluates each of them in the runs.  They say that bounds are
numbers, that a name which stands for "none" names nothing else, and that the
sets a property counts are finite.

*Helper.*  `IntermediateValid` is not inductive: the second write is safe only
because of what the first left.  `RangeInv` adds `WriterAt`: at each step of the
writer the files hold the range it read, with or without its first write.
`DeniedInv` adds that a request without authorization has touched nothing.
`FailedRangeIsExplained` reads its conclusion off `WriterAt` at the step that fails, with
the number of writes stored.

*Operations.*  `TaskInv` ties a task to its entry: an active handler has an entry
without an answer, and identifiers beyond the counter have no task.  Then
admission, which looks at entries, excludes a second handler.

*Control.*  `BehaviourHasMarker` says nothing about what is in flight.  `IInv`
adds that the lock and the call belong to one side (`LockInv`), what each step of
a handler knows of the record, the call and the hardware (`ApiInv`: for instance,
while a start is being rolled back all behaviours are `auto`), and that the
pass's copy is the record on disk or one without an operation (`MonInv`).  Each
action has a lemma; `NextKeeps` collects them.  `MarkersAreNotOverwritten` and
`RestorationIsFinal` are action properties and follow from `IInv` step by step; the
second because the restoring phase is saved before the first write of a restore, so
a handler or pass that still resumes has not read it.

*Notifications.*  `RoutesLive` is inductive by itself, given what each handler
does to both maps.  The other five rest on four invariants, each using the ones
before it.

1. `OnceInv`, for a key that must not be granted twice: `QueueInv` (a command that
   will be answered is the last of the queue and its handler waits), `HandlerInv`
   (an acknowledged once-only handler holds a key that is on disk and has not been
   shown) and `ShownInv` (a shown key is on disk), with the fact that no operation
   of the store forgets a key.
2. `DataInv`, for `TypeOK` and `DeletedStaysDeleted`: everything that names a
   position (rows, queued writes, live records, the page in hand, a once-only
   record on its way) names one that was issued and is not deleted.  A deletion is
   confirmed only behind everything queued before it, and stamps are never reused.
3. `MatchInv`, for `CatalogAgrees`, `PageAgrees` and `ShutdownDrained`.  The
   properties fold the queue over the database, and the prover has no induction
   over a fold.  The proof replaces the fold by a relation: a batch makes *claims*
   (an identifier is open with this record, or is not open, or the DND setting is
   this), `Behind` says what holds after the batches from a place on, `ReplayedHolds`
   links it to the fold by induction over a set of naturals, and the steps are then
   about the *last* claim for an identifier (`Lasts`), which must be what the engine
   holds: appending a batch changes the last claims as the handler changes the
   engine, and taking the first batch moves its claims into the database.
   `LedgerInv` has what the steps need besides (the cutoff is not ahead of the
   pruning, a handler that waits for a page is the last in the queue).
4. `IdsInv`, for `ArchiveIdsDistinct`: while fewer records were born than there are
   identifiers the counter has not wrapped, the queue flattens to one sequence of
   mutations (`Flat`, `Cuts`), and at each place of it an identifier in use or still
   to be saved has no closed record, and an identifier not yet issued has none.

`MatchInv` and `IdsInv` were checked with TLC on the bounds of
`Notifications_safety` before they were proved.  Inductions over numbers and over
finite sets are done on the *set* of places where the claim holds
(`WellFoundedInduction` and the least element of a set of naturals), since the
library's rules with an operator parameter cannot be used.

*Publication.*  The promise says nothing of what lies between the store and the
client.  `IInv` adds `Numbered` (the number of an identity is its place in the
log, and the last place is the current state) and, per worker, that what it holds
was published and that a connected client is at the cursor but for the message in
hand (`InStep`).  Each step then maps to a step of `StateStream` or a stutter.
`LineageIsKept` adds that every identity of the log names the epoch before its own
(`Successions`) and that what is in hand is not behind the client (`Ahead`).
`FailuresStay` (nothing healthy after a failure in a log) gives `FailureIsSticky`,
because what is in hand is newer than what the client has.

*Desktop.*  The service that runs keeps its own invariant, `IInv` of its module,
and no step changes `focus`.  The proof modules of the groups have a section for
each service, in which the registers carry the names of its variables; the section
shows `IInv` inductive action by action (`…InitHolds`, `…NextKeeps`) and that it
implies the properties (`…SafeFollows`).  `DesktopProofs` puts them together.  Every
`IInv` was checked with TLC, on larger bounds than the runs have, before it was
proved.  What each adds to the properties:

* *Sleep requests.*  `OncePerClose` counts calls and says nothing of what may still
  ask.  `WorkerInv` adds that the worker's close is the one in the lid's books, that
  a running worker *is* the lid's request, and that whatever may still ask (a worker
  before its call, a retry that is due, a close not yet seen) has not asked:
  "retryable" is reported only before dispatch, so a retry never follows a call.
  `RequestInv` says that up to its call a request holds its operation, open, with
  nothing sent to logind, and past its setup the lease; `CallsInv` that operations
  not begun have sent nothing and that the helper's setting outlasts the call.
  Keep awake waits for the same lock as the request, which gives
  `KeepAwakeRespected`.
* *Critical battery.*  `OnceAnEpisode` and `CancelHolds` look at calls; what decides
  them lies in the engine and on disk.  `SpentInv`: an episode that has had its
  attempt, or has one under way, is latched in the engine and in the recovery file,
  and an action decided but not yet durable belongs to an episode that is not spent.
  A restart therefore finds the latch.  `HaltInv`: once the user cancels the current
  episode the engine is latched or counts down under a token that is stale, a decided
  action carries a stale token and will fail its validation, and every write still to
  come sets the flag, because `persist_recovery` compares tokens.
* *Idle policy.*  Who holds the lock (`LockInv`), that a save in progress carries the
  critical settings in force, in the new policy and in the one it would put back
  (`SetterInv`), and that from its selection on the callback's profile is the saved
  one (`IdlerInv`): then no save can fall between two steps of another holder.
* *Sleep telemetry.*  Only that every writer makes a status and that the operation
  shown is not ahead of the tracker; the rest is what `commit_power_sleep` keeps and
  the comparison in `RefreshCommits`.
* *Timezone.*  Revisions in order: shown, kept, halfway read, current.  Since they
  only grow, a control that has not changed around the fix means that the fix is of
  the same revision.
* *Power profiles.*  `NoteInv`: a profile that would be restored has its note, in
  memory and on file, at every step between the save and the selection.
  `PauseInv`: a manual selection is remembered for the episode, also by the undo of a
  selection that failed.  `HoldInv`: past the look for an outside selection no
  restarted service goes unnoticed.
* *Location.*  `MemoryInv` (memory and disk differ by a pause or an intent that was
  not saved), `RequestInv` (a request's revision is spent before its write),
  `ZoneInv` (what the worker knows of the zone at each step of a write) and
  `FenceInv`: a fix is not older than the last network change or resume that the
  worker has reconciled.  The first form of `FenceInv` asked this at every step and
  is not inductive; it holds from the reconciliation of a wake-up on (`Reconciled`).
* *Agenda.*  Every store (committed, in a transaction, exported) obeys the same rules
  (`Sound`, `Saved`), an open transaction holds exactly what its holder applied
  (`TxnInv`), and the cache is the store but for the change being accepted
  (`CacheInv`).  The prover showed the first form of `TxnInv` too weak: a mutation
  that commits must still be applicable to what is durable, which is what a
  revision check under the same lock gives.  `EffectsMatchReceipts` counts patches;
  the proof says how one receipt changes the count.
* *Activity feed.*  Either somebody still has to read the data (`Debt`), or what is
  published, or about to be by the holder of the guard, is the data (`ShownInv`).
  `CatalogInv` has ids below the file's counter.  The proof found that `places`, a
  history variable, had counted the ids of saves that never reached the file, for
  which the claim "an id names one place" is false; it now holds what was on file.
* *Updates.*  What the monitor has read can only have gone further since (`ReadInv`);
  what a batch files as seen is over and was covered (`BatchInv`); without a fault
  every delivered key is filed or about to be (`KeysInv`).
* *Workspaces.*  `Kept` holds of the journal in memory *and* of the file: no effect
  was dispatched that it has not admitted, so a crash at any point finds the
  admission.  `FileInv` says in what the two differ, and that after a failed save
  nobody holds the mutex; `HolderInv` what the holder has established.
* *Displays.*  `WriterInv`: what holds of the command the compositor is about to get,
  by its check, and what of that survives a hotplug.  `TrialInv`: what disturbed a
  trial shows in the clock, the sleep state or the topology, which is what confirming
  looks at.  `RollbackDurable` and `MirrorsHaveSource` are inductive with these.
* *Audio.*  Requests are numbered in the order in which they are answered, carried
  out, received and queued (`QueueInv`); `WrittenInv` has what was written for each
  of these.  That one clamped step has the effect of the merged requests rests on
  `ControlInv` (a batch goes in one direction) and an induction over the batch,
  `AudioOneDirection`: it is false for adjustments of either sign, which the code
  does not merge.
* *Media.*  A session's metadata is of the content it observed, and a ticket of its
  generation was issued for that content (`Bound`); what is shown, or was when a
  request began, names its own players (`Consistent`).
* *Popups.*  A card shows a notification that is visible, on its output and not
  silenced (`CardsInv`); between what the engine takes for shared and what is shared,
  through the observations under way, no more shares end than the history owes
  (`ObserverInv`).

Two definitions were given another form for the provers, without a change of
meaning: the merged volume of `AudioControl` is a recursive function instead of a
fold, and choices with overlapping guards (the player to show, the state of a
docking change) are nested conditions in the order of the code.  `CASE` with
overlapping guards lets TLA+ choose any of them, and TLC the first.

Only model-checked: the liveness properties (fairness and `ENABLED` are out of the
prover's reach), that is `EveryRequestAnswered`, `OperationEnds`, `OrphanRemoved`,
`ChargeOnceEnds`, `RestorationEnds`, `HandlersReturn`, `ExpiryHappens`,
`HandlersEnd`, `CatchesUp`, `Converges` and `Settles`; and that an
instance is a fair picture of the code, which no proof shows.

## 6. Not modelled

* Brightness, theme and OSD hardware: each copies one external value; the
  race between a probe and a request is the one `AudioControl` has.
* Protocol, API dispatch and transport: wire formats and wiring.  What a broken
  connection means for a subscriber is in `Publication`.
* Notification search and center: projections of rows; the read they rest on is
  in `Notifications`.  The D-Bus server and the SwayNC adapter translate; the
  lagging signal channel is described above.
* Battery telemetry, history and alerts: shaping of sysfs values.
* In the services of `Desktop`: capability probes and diagnostics of sleep, text
  and recurrence rules of the agenda, network fetches and parsers of the
  activity sources, output modes and scales, PipeWire's encodings, the providers'
  transport and retry delays; raise and seek of a media player, the text rules of
  its sources and the HTTP client; context actions of a notification.
* Two batteries with operations at once (see the observations about fences).

## 7. What could follow

Modules: battery alerts with their hysteresis, brightness beside `AudioControl`, the
lagging signal channel of the notification server, two batteries with operations at
once.  Proofs: every safety property of the runs has one; liveness would need another
prover.
