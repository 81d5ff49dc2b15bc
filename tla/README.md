# crash_monitor: TLA+ models

crash_monitor runs a program as its child, waits for the child to crash, hang,
exit or be asked about, captures what it can see of the child while the child is
suspended, and publishes a crash report. These modules model the parts of it
that are concurrent, that survive crashes of the monitor itself, or that
account for time, and check what a unit test hardly reaches: orders of events
between threads and processes, interruptions between two system calls, limits
and deadlines.

Paths below are relative to the repository root; `PROJECT.json` prefixes them
with `src/`, and its `map` gives the lines each definition stands for.

## The system

| Part | Source | State | What is hard |
|---|---|---|---|
| Task control | `src/platform/task_control.rs`, `src/platform/macos/ffi/task.rs` | the suspend guard, retry count, supervisor health | a resume that fails, a task that dies while suspended |
| Isolated capture | `src/pipeline/worker.rs`, `capture_isolation.rs`, `ffi/capture_spawn.rs` | helper process, absolute deadline, outcome | the helper outlives the deadline, exits as it is killed, or cannot be reaped |
| In-process capture | `src/pipeline/worker.rs` | worker thread, bounded job channel, cancellation bit | a collector that returns after the deadline |
| ANR watchdog | `src/watchdog.rs`, `src/event_loop.rs` | heartbeat baseline, hang, warmup and cooldown budgets, check clock | captures stop the application but not the clock |
| Event source | `src/event_source.rs`, `ffi/exceptions.rs` | pending signal bits, two pipes, a bridge channel, kqueue, saved wait status | edge-triggered wakeups, coalesced bytes, priorities |
| Event loop and supervisor | `src/event_loop.rs`, `src/main.rs` | the outcome, process-group guard, exception queue, fatal ticket, exit status | deaths of the child anywhere, unanswered exceptions, failing waits |
| Artifact transactions | `src/pipeline/artifact.rs`, `src/pipeline/mod.rs` | staging directory, registry, manifest, lock, lease | crashes between system calls, several monitors on one root |
| Shared memory | `src/shm/reader.rs`, `producer/`, `schema/` | ring and registry generations, entries, counts | a copy that overlaps writes, producers stopped in mid-write |
| Background and fatal finalization | `src/pipeline/worker.rs`, `src/main.rs` | queue of two, ticket channels, finalizer thread | a full queue, a finalizer past its budget |
| Retention | `src/postprocessors/retention.rs` | report directories, tombstones, budgets | crash between hiding and deleting, concurrent lease |
| Rate limiter, duplicates | `src/filters/rate_limiter.rs`, `src/preprocessors/duplicate.rs` | persisted window, lock, quarantine | monitors sharing the file, old clock readings, corrupt state |
| Session log | `src/preprocessors/session.rs`, `src/postprocessors/session_recorder.rs`, `log_rotator.rs` | log, its lock, session.lock | append against rotation, torn writes |
| Private paths | `src/utils/paths.rs` | a private directory and exclusive names in it | creation races, replaced entries, withdrawal |
| Pipeline runner | `src/pipeline/mod.rs`, `safety.rs` | stage order, per-plugin results | dependencies, plugins cut short |
| File post-processors | `src/postprocessors/*.rs` | converted, archived and moved reports | several file operations per step |
| Configuration | `src/config.rs` | enabled plugins | closure of dependencies |
| Startup, child spawn, parent-death guard | `src/main.rs`, `ffi/shm.rs`, `ffi/spawn.rs` | shared-memory name, guardian process | the monitor's own death |
| Exception listener, thread collector | `ffi/exceptions.rs`, `platform/macos/exceptions.rs`, `src/collectors/thread.rs` | Mach rights | malformed requests, rights released twice or never |
| Other collectors, formatting, notifiers, CLI | `src/collectors`, `src/preprocessors`, `src/notifiers`, `src/cli` | none | input and output |

The child's faulting threads send exception requests to a Mach port; a listener
thread receives them, a bridge thread forwards them to the event loop and wakes
it through a pipe. Signals reach it through a handler that sets a bit and writes
a second pipe. The event loop asks the capture worker to suspend the child and
collect; the captured event goes to a background finalizer (snapshots, ANR) or a
fatal ticket (crashes), which writes a report through an artifact transaction.
`run_monitor` ends by reaping the child, handing its wait status to the ticket
and computing the exit status. The producer in the child publishes breadcrumbs
and heartbeats in shared memory the monitor copies.

## Modules

| Module | Models | Used by |
|---|---|---|
| `TaskControl` | `TaskSuspendGuard`: suspend, bounded resume, terminate, escalate, health | `IsolatedCapture` |
| `IsolatedCapture` | `CaptureWorker::capture` with the exec helper, one action per call | `WorkerCapture` |
| `CaptureContract` | what a capture promises: the abstract specification of `IsolatedCapture` | `IsolatedCapture` |
| `WorkerCapture` | `CaptureWorker` with both backends: the helper above or the in-process worker thread and its collectors | |
| `Watchdog` | `WatchdogState` and the event loop's clock accounting | |
| `ArtifactStore` | transactions, startup recovery, stale-staging scavenger on one disk | `Retention` |
| `Retention` | `RetentionManager::process` over the same disk | |
| `RateLimiter` | the persisted sliding window | |
| `SessionLog` | session lock, session record, log rotation | |
| `PrivatePaths` | `ensure_private_directory` and `publish_private_path` | |
| `EventSource` | `MacEventSource`, listener bridge, signal handler, kqueue | |
| `Supervisor` | `run_monitor` and what `event_loop` can return | `Launch` |
| `Launch` | `run_monitor` before the spawn, the shared-memory name, the guardian, the monitor's death | |
| `ExceptionRights` | the Mach rights of requests and of the thread collector | |
| `ShmBreadcrumbs` | `crash_monitor_add_breadcrumb` and the reader's before/copy/after protocol | `ShmSections` |
| `ShmSections` | the other sections and the capture policy | `ShmScreenshots` |
| `ShmScreenshots` | `read_screenshots_bounded`: the frames read from a snapshot under the budgets | |
| `Finalization` | background queue, fatal ticket, terminated-child finalizer, and the main thread's waits for them | |
| `Pipeline` | the steps of one finalization: `finalize_captured`, `finalize_termination_event`, `emergency_finalize_captured`, and what each plugin does to the report's files | |
| `PluginSubprocess` | `run_plugin_cooperative` and `run_plugin_subprocess`: a plugin's helper process under its supervisor | |
| `Capture_proofs` | theorems of `IsolatedCapture` and `WorkerCapture` | |
| `ReportStore_proofs` | theorems of `ArtifactStore`, `Retention` and `PrivatePaths` | |
| `EventSource_proofs` | theorems of `ExceptionRights` and `EventSource` | |
| `MonitorThreads_proofs` | theorems of `Watchdog` and `Finalization` | |
| `Launch_proofs`, `ShmBreadcrumbs_proofs`, `ShmSections_proofs`, `Pipeline_proofs` | theorems of the module each is named after; `Launch_proofs` also those of `Supervisor` | |
| `MC*` | constants for TLC; `MCFinalization`, `MCSupervisor`, `MCSharedMemory` and `MCSharedRoot` check several modules that share no state in one run, the initial state choosing which of them moves | |

### TaskControl and IsolatedCapture

`TaskControl` has the kernel's suspend count, the guard's state and the recorded
health. `release` takes one action per resume attempt (`RESUME_ATTEMPT_LIMIT`)
and then one terminate; `contain_without_resume` terminates at once. A kernel
call's result is a choice; a dead task makes it fail.

`IsolatedCapture` follows `capture`: policy check, report directory, deadline
check, acquire, shared-memory copy, spawn, hand-off of the task right, poll
until exit or deadline, kill, bounded reap, release or containment, and the
event loop's look at the health afterwards. The helper, the clock and the task's
death are separate actions. `ECHILD` is a helper somebody else reaped: the
kernel has already removed it.

Properties:

* `NoLiveInspection`: the task is never resumed beside a helper that could still
  inspect it.
* `StuckTaskEscalated`: a live task is left suspended only with an escalation
  recorded and monitoring stopped.
* `CaptureReturns`: every capture returns. Fairness: the event-loop thread runs
  and deadlines pass. Nothing is assumed of the helper.
* `ImplementsContract`: refinement of `CaptureContract`: an inspector of the task
  exists only while the task is held or the capture lasts, the task is let go only
  after it is gone, and a task that cannot be let go is kept and monitoring ends.
  `phase` is computed from `guard`, `inspector` from the helper, `open` from the
  event loop.

### WorkerCapture

Extends `IsolatedCapture` by the backend of platforms without capture isolation:
a worker thread that takes one job at a time from a channel and runs the
collectors one after the other, looking at the job's cancellation flag before
each. The event loop copies the shared memory under the suspension, queues the
job, and waits for the payload until the deadline; then it cancels, resumes and
retires the worker, whose collector may run on. `guarded` says that a job belongs
to a capture that had suspended the task. `built` and `payload` are what the worker
assembles and what it has sent: it looks at the cancellation flag once more before it
adds the raw bytes, so a payload built too late has none. `carried` is what the
outcome holds of the shared-memory copy, set anew by each place of `capture` that
builds an outcome. The properties above are checked for both backends.

* `CancelledBeforeResume`: when the live task runs, every job of a capture that
  had suspended it is cancelled, queued or half done. (A collector that has
  already begun is not stopped by this; the code retires the worker and, in
  production, uses the helper.)
* `OneJobAtATime`: no job is queued behind, or runs beside, an earlier capture's.
* `EvidenceKept`: whatever the capture returns (a payload, a deadline at any of its
  checks, a dead worker, a helper that failed or could not be reaped), the outcome has
  the raw bytes exactly when a copy was made and the policy keeps it, and the copy for
  the deferred collectors exactly with isolation.

### Watchdog

Time is discrete. `Wait` advances the clock while the application runs; `Work`
advances it while the application is suspended. `appTime`, `beatAt` and
`graceAt` are history: application time, and its value at the latest heartbeat
or readiness change and at the latest warmup or cooldown grant. The producer may
publish heartbeats, become ready and become unready at any moment. `wakeAt` is when
the current `wait_until` times out, which it does up to `WakeLag` late; an event may
end the wait at any moment before, and the loop then handles it before it looks at
the watchdog. `interrupts` counts these events since the latest heartbeat or grant.

* `HangIsApplicationTime`: a report's duration never exceeds the application
  time since the latest heartbeat; a capture is never counted as a hang.
* `GraceIsApplicationTime`: no report before the granted warmup or cooldown has
  passed in application time.
* `HangIsReported`: an armed watchdog reports within the grace, the threshold and two
  check periods of application time, plus one wake-up lag for every event handled
  since. `wait_until` returns an event before it looks at its deadline, so a stream of
  events that never pauses postpones the check for as long as it lasts; but no event
  starts the interval over, and only captures stop the count.

### ArtifactStore

One variable per fact on disk (directory, files, temporaries, manifest, lock,
age) and per fact in the owning process (state, commit position, active write,
registry, lease). Each system call that another process can observe is an
action. `Crash` ends the owner between any two; the lock dies with it. A
scanner is a startup recovery or scavenger pass of any monitor: it stats, locks,
validates, publishes, deletes. Files appear by rename, so a temporary is a
separate fact. Contents are abstracted to artifact names, so checksums always
match; a directory with other files fails validation. `begin` creates the directory,
opens it and locks it in three steps, and so does a pass that opens a directory and
locks it afterwards: with `max_age_days = 0` a new directory is stale at once, and a
pass may delete it before its owner has the lock. That report is lost, and never half
published. A rename whose result cannot be verified is rolled back or quarantined.

* `PublishedIsComplete`: a published report has exactly its manifest's files.
* `LiveTransactionUntouched`: no step of a recovery or scavenger pass changes anything
  of the report of a transaction past `begin` and not yet committed, and a Prepared
  one has its directory with exactly the files of its manifest.
* `PreparedIsRecovered` (liveness). Fairness: monitors keep being started, and
  an entry is not skipped for ever by limits, errors or crashes. This is strong
  fairness because a pass may find the lock taken and come back. It says that no
  reachable manifest-complete directory is beyond recovery; it does not promise
  that a given run recovers it.

### Retention

`RetentionManager::process` on the disk of `ArtifactStore`, run by the finalization
of each committed report: scavenge old staging directories, take
`.retention.lock`, finish the tombstones of interrupted passes, scan, and for the
age, count and byte limits remove the oldest entry while the limit is exceeded: a
flat legacy file at once, a report by lock, inspection, hiding rename and deletion
file by file. `modified` orders the entries by modification time. Which of them are
too old is decided once, when the pass lists them (`old`): a report that is renewed
afterwards may still be removed for its age. Transactions, recovery and crashes of the
other processes run between any two of these steps.

* `LiveReportKept`: a committed report stays under its name as long as its
  finalization lives.
* `RemovesOnlyExcess`: an entry disappears only if it was too old when the pass listed
  it, or if the store as it is at that moment, and not as it was listed, has too many
  entries or bytes.

### RateLimiter, SessionLog, PrivatePaths

What else the monitors of one data root share; a monitor may fail or crash between
any two steps and the kernel then releases its lock.

`RateLimiter`: clock reading, lock, load, quarantine of an unreadable file, decision,
replacement of the file. `admitted` is history; corruption by something outside
empties it, since what was recorded is lost. The wall clock does not go backwards.

* `RateCap`: never more than `max_events` admitted events of a type in the window.
  An event that passes because the filter failed is not an admitted one.

`SessionLog`: `SessionEnricher` reads `session.lock`, `SessionRecorder` appends a
record (two writes, either of which may fail half way) and removes the lock,
`LogRotator` copies the newer half of the valid lines and renames the copy over the
log. Sizes are counted in records.

* `OnlyOldRecordsRotate`: a record disappears only from the older half of the log as
  it is when it is replaced, or with an over-long line.
* `RecordedSessionIsClosed`: see finding 2.

`PrivatePaths`: `ensure_private_directory` against a concurrent creator that may
clean up after a failure, and `publish_private_path`: open and validate, exclusive
rename, compare what is now under the name with the open handle, and otherwise
restore or quarantine. Sources may be replaced and modes may drift in between.

* `PublishIsAllOrNothing`: who returns Ok has the validated object under the name in
  the live private directory; who returns an error has left nothing there unless
  both containment calls failed; no two succeed.

### EventSource

The kqueue is a set of activated knotes: an event is consumed by `kevent`
(`EV_CLEAR`), a pipe with bytes left is not reported again until it is written
or closed. The signal handler's two effects, bit then byte, are two steps. Poll
is split at each point where another thread can act: take a listener event,
`waitpid`, drain the pipe, swap the bits, pop.

Assumed of the operating system: `NOTE_EXIT` may fire while the child is still
`exiting`, before `waitpid` can see it as a `zombie`; a byte written to a full pipe is
lost, but a full pipe is already readable; the bridge closure drops its receiver and
sender before the write end, so end of file comes after the disconnection; `EINTR`
repeats the wait.

* `TerminationWins`: once the child is reaped its one status is saved or
  delivered, and a poll that starts with a waitable child delivers nothing but its
  termination or a failure of the source itself.
* `TriggersGetThrough` (liveness): a shutdown signal, a crash, a lost listener, or a
  dead child whose exit event is not consumed ends monitoring, and a snapshot request
  is delivered unless monitoring ends. `Anr` is off, so that no deadline can mask a lost
  wakeup. Fairness: the main and bridge threads run and a handler that has begun ends.
* `ChildEndGetsThrough`: see finding 3.

### Supervisor

`run_monitor` from the adopted child to the exit status. `event_loop` is reduced
to its outcomes, each with what it sets: answered or kept exceptions, a pending
fatal ticket, the cleanup and listener-loss flags, task-control failures. The
exception requests are counted where they wait: in the port, in the listener's
channel, in the loop. The guard kills the process group on every early return.

Assumed of the kernel: a child with an unanswered exception may die of `SIGKILL`
but need not, which is the situation `run_monitor`'s comment on dropping the
request first describes; a deadline may pass at any time; `killpg` and `waitpid`
may fail, which is recorded in `osError`.

* `ExitIsHonest`: the exit status is the child's status, unless monitoring failed
  or a shutdown was requested; and a captured crash reaches its finalizer on
  every path, with the true status if and only if the child was reaped for it.
* `NoOrphan`: the monitor does not end before the child is reaped, unless a
  system call failed.
* `ChildIsReleased` (liveness): monitor and child never wait for each other for good.
  A child that runs when its monitor leaves the loop, fails to set it up or is killed
  comes to its end, unless a system call failed: the monitor drops the requests it
  holds, closes the port, or dies, and any of these ends the exception wait that keeps
  `SIGKILL` from taking effect. Fairness: the monitor and the guardian run, and a
  child that was sent `SIGKILL` and has no unanswered exception dies.
* `NoSignalAfterReap`: no signal to a process group whose leader was reaped.
* `MonitorExits` (liveness). Fairness: the monitor's thread runs; a wait ends by
  its result or its deadline.

### Launch

`run_monitor` from its first line, around `Supervisor`: the exception port, the
shared-memory name (owned by a `PendingShm`, then by the mapping), the pipeline,
the spawn, each of which may fail. `ChildProcessGroup::new` installs the
guardian, a forked process that blocks in `read(2)` on a pipe the monitor holds;
a byte disarms it, end of file makes it kill the group and unlink the name.
`MonitorDies` may happen at any moment. Disarming blocks the monitor until the
guardian has been reaped.

* `EndIsContained` (liveness): a monitor that exits has unlinked its name, from
  startup errors on; one that dies with an armed guardian leaves neither the name
  nor a group without `SIGKILL`. Fairness: the monitor's thread and the guardian
  run.

### ExceptionRights

`refs` counts the monitor's user references to each thread's port, `disposed`
how often a reply right was used up. A request carries one of each; it is owned
by the kernel's queue, the listener, the channel or the event loop, and its owner
drops it. A request's fields are those `parse_exception_message` looks at, so a
malformed one takes the path the code gives it. The thread collector takes a
reference to every thread, releases those over `MAX_CAPTURED_THREADS`, and the
`PortGuard` gives back the rest; it may panic, and it may run on after the
capture's deadline.

* `RightsAreBalanced`: every right is given back exactly once.
* `FaultingThreadReleased` (liveness): a waiting thread is answered, or its reply
  right destroyed, whatever fails. Fairness: listener, event loop and worker run.

### ShmBreadcrumbs, ShmSections and ShmScreenshots

Every load, store and compare-and-swap of `crash_monitor_add_breadcrumb` is a
step, and so is each range the reader copies, so a copy can be torn anywhere. A
producer that stops in mid-write is a producer that takes no more steps: no
fairness is given. The reader loads the generations, copies, loads them again,
and keeps a ring only if both loads agree on an even number and the registry does
too. The model is sequentially consistent. `copy` holds payloads and indices; the
publication words are overwritten by sanitizing and are not copied. `log` and
`seen` are history. `started` counts the calls of `crash_monitor_add_breadcrumb`;
its bound `Crumbs` is below half of the generations' modulus
(`CrumbsAssumption`), so that no generation returns to a value the reader loaded.

`ShmSections` has the annotations, the settings extension and the attachments,
each a list behind one generation, and the screenshot slots. The policy decides
what is loaded and copied; the deadline may end the copy before any chunk.
`ShmScreenshots` orders the frames of the finished snapshot and copies them one by one
under a frame, a byte and a time budget; the pixels may be cut off behind any slot.

* `AcceptedIsPublished`: an accepted ring reads as exactly the newest published
  breadcrumbs, in order, and an accepted registry counts every published ring.
* `SectionsAreWholeOrEmpty`: every section of a snapshot is what the producer had
  completed when it was approved, or empty, and sections outside the policy are
  empty.
* `UrgentFramesFirst`: under any budgets and any cut of the payload every published
  frame is read, named unreadable, or left out for a budget that is used up and is the
  one reported; and no frame is read before, or left out for, a less urgent one.

### Finalization

The main thread's path through `event_loop` and `run_monitor`, reduced to what it
does to finalizers: `try_submit`, `CrashFinalization::start` and `complete`,
`finalize_terminated_child`, `shutdown` and `detach`. An event's `fate` says
where it is, `reports` counts its reports. One finalization is a step with two
outcomes, a report or none (rejected, duplicate, error); a finalizer thread may
also panic or never end. The exit of the process stops every thread. A
termination event whose thread cannot be spawned is simply not reported, as in
the code, and is not counted as an event.

* `FinalizedOnce`: retry, late finalizer and emergency path never publish an event
  twice; captured evidence of a crash or containment is finalized, or was given up
  only at a deadline or by a panic; an orderly exit before its deadlines leaves no
  accepted event unfinished.
* `CrashReportHasStatus`: a crash's report is begun only after the reaping, with
  what the reaping returned.
* `ExitIsBounded` (liveness). Fairness: once the loop has ended the main thread
  goes on and its waits expire. Nothing is assumed of finalizers. The emergency
  path writes on the main thread and has no deadline; the model takes its file
  operations to return.

### PluginSubprocess

The supervisor follows `run_plugin_subprocess` call by call; the helper, one
descendant of it, the two pipe readers, the late reaper and the deadline are
separate actions. The helper and its descendant may exit, hang, keep a pipe
open, leave the group or survive `SIGKILL` past the grace period. Sending a
signal to a group of which only a zombie is left fails with `EPERM`, as a
comment in the code says of Darwin. A pid that does not fit its type is left
out. A reader that is asked to stop makes at most `MAX_STOP_DRAIN_READS` more reads
(`src/pipeline/safety.rs:447`); they are one step, from a blocked read to the cut, which
leaves the output incomplete. `Classify` is the decision `run_plugin_cooperative` takes
afterwards.

* `SignalsOwnedGroup`: no group is signalled after its leader was reaped.
* `ResultIsTrue`: when the pipeline goes on, no reader thread is left; after
  `Completed` or `TimedOut` the helper is reaped and no descendant survives in its
  group; completed output was read to its end. What is kept of it is at most 1 MiB, and
  a longer output is marked as truncated (`src/pipeline/safety.rs:448`), which the model
  does not distinguish.
* `SupervisorReturns` (liveness). Fairness: the supervisor, the readers and the
  late reaper run and deadlines pass; nothing is assumed of the helper, and errors
  of `waitid` are not forced.

### Pipeline

`Steps` is the sequence of stages and plugins a finalizer runs: the plugins of
the configuration in the order `stable_plugin_order` gives them, without those
`close_plugin_enablement` removes. `OrderAssumption` states what the properties
need of that order: `report.json` before what reads or removes its evidence, that
before the archive, the archive before the choice of the destination, all of it
before the commit, and every sequence with a commit. TLC evaluates it for the
run's configurations and, as `EveryOrder` of `MCPipeline`, for every set of
post-processors. A finalization is one thread and its staging directory is its own.
The four plugins that change files themselves and tell the transaction afterwards
(`AttachmentCopier`, `RawCleanup`, `PNGConverter`, `ZIPArchiver`) take one action per
file operation and per call of the transaction: `op` is what comes next, `work` the
files still to go through, `half` the file that was published or removed and not yet
registered or unregistered. An error, a panic or the deadline ends them wherever the
code can return; `unregister_artifact` cannot fail there, since the transaction is open
and no other thread uses it. Every other step is one action that chooses where it was
cut short and what it has changed by then.
`disk` is the directory, `registry` what the transaction has registered, `refs`
the files `report.json` names, `archived` what the archive holds. `fault` records
a file operation that failed on a file already visible: a temporary that cannot
be removed, a published file that cannot be registered. `DuplicateDetector.recent`
(`seen`) is what outlives a finalization; a later event is taken to have the same
key, and entries may expire. A commit that fails behind the manifest leaves the
report to recovery (`ArtifactStore`).

* `StagingIsExact`: between any two steps, wherever the earlier ones were cut short, the
  directory holds exactly the registered artifacts, so the commit does not refuse it.
  A plugin must have no way out between a file operation and what it tells the
  transaction about it.
* `NamedFilesExist`: at every moment, also inside a plugin, what a result's report
  names is beside it, and a notifier's path is a file of a published report, under the
  root the report was published to.
* `RawIsFallback`: raw evidence stays as long as there is no `report.json`, and is
  neither published nor archived after a successful cleanup, whichever plugins
  are enabled.

## Runs

| Run | Bounds | Distinct states | Shows |
|---|---|---|---|
| `isolated_capture` | resume limit 3 as in the code, every trigger enabled, 3 collectors, both backends | 33 thousand | captures of every kind follow one another without a bound |
| `watchdog` | warmup 1, threshold 2, interval 2, cooldown 2, lag 1, 13 ticks, 2 beats, 2 events between two beats or grants | 3.6 million | long enough for warmup, a hang, the cooldown, a second hang, with captures anywhere |
| `artifact_store` | 1 report, 2 artifacts, 2 scanners | 23 thousand | reports are independent directories, so one is enough; two scanners meet on one lock |
| `artifact_scavenger` | 1 report, 2 artifacts, 1 scanner | violation | finding 1 |
| `event_source` | 1 exception, 2 signals of 2 kinds, no deadline | 580 thousand | coalescing of equal and different signals around an exception and the child's death |
| `child_exit` | no exception, no signal, no deadline | violation | finding 3 |
| `supervisor` | 2 faulting threads; for the rights 3 threads of which 2 fault and 2 may be captured, 4 kinds of request | 136 thousand | one exception captured, a second one queued anywhere; a thread over the limit; the monitor's death anywhere |
| `shm_breadcrumbs` | 2 producers, 2 rings of 2 entries, 3 breadcrumbs of which 1 in the second ring (`SecondRing`); 2 writers, lists of 1, 2 screenshot slots with 3 stamps that differ in tier or time, 3 policies, 2 updates | 3.1 million | the first ring overflows, the second is registered, a list fills; two units are published concurrently with the copy; frames read under every budget |
| `finalization` | 4 events, queue of 2 as in the code; a plugin call with 1 helper, 1 descendant, 2 pipes | 81 thousand | the queue overflows with one event in work, then the monitor ends in each way; every order of exit, kill, end of file and deadline |
| `pipeline` | 2 screenshots; all plugins, or every subset of `RawCleanup`, `PNGConverter` and `ZIPArchiver` beside one plugin of each other kind | 3.6 million | every plugin cut short at any of its file operations, one event after the other |
| `shared_root` | 3 reports of which 1 may be old, 1 legacy file or a new root, limits of 2 entries and 2 bytes; 2 monitors, 2 events in a window of 2, 5 ticks; 3 crashes of 2 sessions; 2 publishers; symmetry over the reports that are not there at the start | 1.2 million | two passes overlap with a third report's transaction; the quota fills and slides; an append between scan and replacement; two publishers of one name |
| `session_lock` | 1 crash, 1 session | violation | finding 2 |

Deadlock is not checked where the program really stops: the event source after a
terminal event, the supervisor, the finalization, a plugin call, a snapshot and the
finalizations of a data root after their end, the capture after monitoring has
stopped, and where a bound ends the behaviour. The generation counters are taken
modulo 16, more than the writes of a behaviour: a generation that wraps between
the reader's two loads takes 2^31 publications and is not explored.

Each property also has a mutant, a changed form of one definition as a plausible
bug would change it, under which TLC reports the property violated; they stand
before the definitions they change and are listed in `PROJECT.json`.

## Findings

1. `artifact_scavenger`: the scavenger deletes `manifest.json` like any other
   file of a stale directory (`src/pipeline/artifact.rs:965`), although comments
   say it only deletes transactions that never reached the manifest. A report
   that recovery skipped, or that an error left prepared, is lost when it ages.
2. `session_lock`: `src/postprocessors/session_recorder.rs:156` says that the
   recorder removes `session.lock`. The enricher reads it from the data directory,
   the recorder removes it from the output directory, so it stays and later crashes
   are recorded under the same session.
3. `child_exit`: with ANR detection off `child_wait_deadline`
   (`src/event_source.rs:506`) gives no deadline as long as the process filter counts as
   registered, and it still does after its one event was delivered. If `NOTE_EXIT` comes
   before `waitpid` can see the exit, nothing wakes the monitor again and the dead child
   goes unnoticed, although `src/event_source.rs:467` means to keep the `waitpid` poll
   live. With ANR detection on, the next deadline finds the child.

Observations, which the models contain and no property forbids:

* A requested shutdown exits with 128 + the monitor's own signal also when the child
  exited with 0 (`src/event_loop.rs:248`); `docs/reports.md:242` speaks of the
  child's signal. `ExitIsHonest` leaves requested shutdowns out.
* A plugin helper that exits by itself just before its deadline is alone in its
  group as a zombie; `killpg` then fails with `EPERM` and the helper is reaped but
  recorded as a failed cleanup (`src/pipeline/safety.rs:532`), where
  `docs/pipeline.md:120` says `TimedOut`.
* Between the spawn and the installation of the guardian (`src/main.rs:849`) the
  death of the monitor leaves the child and the shared-memory name;
  `EndIsContained` starts at the installation.
* A monitor that dies between `waitpid` and the disarming lets the guardian signal a
  group whose leader is already reaped. `NoSignalAfterReap` is about the monitor.
* A detached worker that still holds the pipeline when the process exits keeps the
  mapping, and its name stays linked (`outlived`).
* A thread collector that panics loses the port references it had listed
  (`lostPorts`).
* The session record and its newline are two writes, so a failure between them joins
  two records on one line.

## Proofs

TLAPS proves these for all values of the constants that satisfy the named
assumptions the proofs cite: `ResumeAttemptAssumption`, `WatchdogConfigAssumption`
and `BoundAssumption` of `Watchdog`, `ReportsAssumption`, `NamesAssumption`,
`ScannersAssumption`, `RetentionAssumption`, `CallersAssumption`, `RightsAssumption`,
`FinalizationAssumption`, `OrderAssumption`, `RingAssumption`, `ModulusAssumption`,
`CrumbsAssumption` and `SectionAssumption`. TLC evaluates each of them for the
constants of a run. The theorems are
about the specifications of the components; a run may check the same property in a
composition of several.

`Capture_proofs`, of `IsolatedCapture`: `TypeCorrect`, `ResumeAfterHelperGone`,
`NothingLeftBehind`, `StuckTaskIsEscalated`, `DataFromReapedHelper`,
`SuspensionBalanced`, `IsolatedCaptureImplementsContract`. No invariant above is
inductive: they say what holds where a helper is alive or a capture returns, not
how the capture got there. `IInv` adds, for each position in `capture`, which
guard states (`GuardPlace`) and helpers (`HelperPlace`) are possible there, that
the suspend count of a live task is the guard's (`GuardCount`), and that a
failure which prevents monitoring is only recorded on the way out
(`HealthPlace`). The refinement theorem maps each action to a step of the
contract or a stutter using the same invariant.

`Capture_proofs`, of `WorkerCapture`: `NoCollectorAfterResume`, `OneCaptureAtATime`,
`CopyReachesTheReport`, for every list of collectors. `GuardHolds` says that a guard
which is held keeps the task suspended; `JobInv` that there is at most one job, that
it belongs to the capture which waits, relying on that capture's guard, and is
cancelled once no capture waits, and that only an idle worker is used again;
`PayloadInv` that what the worker builds for the capture that waits has the raw bytes it
should have: the flag it looks at before it adds them is set only by a capture that no
longer waits; `CopyInv` when the copy exists and what an outcome carries; `BackendInv`
what each backend leaves alone. `IsolatedBackendImplements`
shows that the worker with the isolated backend implements `IsolatedCapture`.
`NoLiveInspectionByWorker` follows from it; the in-process backend has no helper, so
for that backend the statement says little.

`MonitorThreads_proofs`, of `Watchdog`: `TypeCorrect`, `HangReported`,
`HangApplicationTime`, `GraceApplicationTime`. `IInv` relates the watchdog's
accumulators to the history clocks from both sides: `Lower` says that hang plus
unsampled time never exceeds the application time it stands for, `Upper` that it
misses at most the grace, one period and one lag per event; `Slack` is how much longer
the application may run before the next check if no event comes, `Lags` what the
events have postponed it by, and a step trades one for the other. `Clocks` orders the
clock readings and bounds the slack by a period, `Shape` says that at most one
accumulator runs. The bounds on time, heartbeats and events are constants, so the
theorems hold for every horizon.

`ReportStore_proofs`, of `ArtifactStore`: `PublishedComplete`, `LiveUntouched`, for
every set of reports, artifact names and scanners. That a published directory is
complete is not inductive: a scanner publishes what it validated several steps before.
The invariant adds that a live transaction holds its lock (`OwnerInv`), what its
directory holds at each stage of the commit (`ContentInv`), and that a scanner past
its lock holds that lock on an unpublished directory and, before it publishes, has a
complete one (`ScannerInv`); the lock's exclusion keeps the validation true.
`LiveUntouched` is an action property: `ScannerSparesOwned` shows from the same
invariant that a scanner's step leaves a report whose owner holds the lock as it is.

`ReportStore_proofs`, of `Retention`: `LiveReportsKept`, for every set of reports and
legacy files and all limits. It uses `OwnerInv` above and `PassInv`: a pass under way
holds the retention lock, and while it inspects or deletes an entry it holds that
entry's owner lock, which a live transaction would hold itself.

`ReportStore_proofs`, of `PrivatePaths`: `PathInvariance`, `PublishedOrWithdrawn`, for
any set of callers. A caller withdraws whatever stands under the destination name, so
that it never withdraws another's entry depends on the others: `DestinationOwned` says
that the destination holds an object of a caller exactly from its own rename to its own
withdrawal, and the validated one once it was compared. `FolderHeld` says that the
directory a caller opened is the one under the name and, after its parents were opened,
private; nobody removes it, and it is created only where there is none.

`EventSource_proofs`, of `EventSource`: `ChildEndDelivered`, for any signals, exceptions
and deadline. `ChildEndInv` says that a reaped child's status is saved or delivered, and
that a poll which began with a waitable child stands before its `waitpid` with the child
still waitable, or was the last: nothing but that `waitpid` can take the status.

`EventSource_proofs`, of `ExceptionRights`: `RightsBalanced`, for every finite set of
threads, every set of request forms and every limit on captured threads. The balance
needs to know that a queued request is in the channel once (`ChannelHolds`) and that
only a request with port descriptors is forwarded (`ForwardedHasPorts`).

`Launch_proofs`: `ChildNeverOrphaned`, `HonestExit`, `ReapedGroupNotSignalled`, for
any number of exceptions. The first and the last except runs in which a system call
failed, as the properties say. `ChildInv` says where the child can have been reaped
and what the group's guard then records, `ReapInv` for whom a reaping procedure runs
and what it has sent, `PortInv` where requests can be, `OutcomeInv` what the outcome
and the attached termination stand for, and `EndInv` where the exit status and the
evidence are settled.

`MonitorThreads_proofs`, of `Finalization`: `FinalizationInvariant`,
`EventsFinalizedOnce`, `CrashReportsHaveStatus`, for any number of events and any
capacity of the queue. That an event is finalized once is not inductive: a late
thread, a retry and the emergency path must never all own it. `QueueInv` says that a
queued event is in work or in the channel, and there once; `TicketInv` that the held
event belongs to the ticket, then to its thread, until it is decided; `EventInv` that
the reports of an event are those its fate says; `MainInv` what each position of the
main thread implies; and `WaitInv` what a wait that did not expire has waited for.

`Pipeline_proofs`: `PipelineInvariant`, `DirectoryIsExact`, `ResultsNameFiles`,
`RawEvidenceIsFallback`, for any set of screenshots and all configurations that
satisfy `OrderAssumption`. The three properties depend on what is left to run: a
cleaned directory is safe only because nothing that writes raw evidence comes later.
`OrderInv` says that the steps left are in order and which of them can no longer be
there. Inside a plugin the directory and the registry do differ: `FileInv` says that
they do so by at most the file in `half`, which an action that ends a step has
settled, and `WorkInv` what each of the four plugins has done and still holds in
`work` at each of its operations. `ReportInv` relates the report to what it names,
`RawInv` the raw evidence to the steps passed, and `NotifyInv` a notifier's path to
the commit. `EveryOrder` covers every set of post-processors with all other plugins
on; the assumption itself is for each configuration in the constant.

`ShmBreadcrumbs_proofs`: `RingInvariant`, `AcceptedRingsArePublished`, for any finite
set of threads, any number and size of rings and any number of calls below half of the
modulus. `ProducerInv` says that the registry and each ring with an odd generation
have one owner, and what an owner has written so far; `Published` that a ring with an
even generation holds the newest entries of its `log`. `CountInv` bounds a
generation by the calls that were started, counting those that may still claim it, so
it does not wrap (`Counting` collects what this needs of finite sets). `CopiesInv`
says that a range copied while the generation has not moved is the live ring's; since
generations do not wrap, two equal even loads mean that it did not move.

`ShmSections_proofs`: `SectionInvariant`, `SnapshotIsWholeOrEmpty`, for any number of
threads, slots and list entries, and updates below half of the modulus. `WriterInv` is
the owner argument again, per section: `ListProgress` and `ShotProgress` say how much
of its update an owner has stored. `ReaderInv` says what each copied range is worth
while the generation stands. The proofs rely on the positions of loads and copies in
`SectionSteps` only through lemmas on where each kind of step stands.

`SuspensionBalanced` is about `BalancedSuspension`, an action property that is
only proved: the suspend count never exceeds one and goes down only in the
release of the guard that took it. The type invariants of `IsolatedCapture` and
`Watchdog` are proved as well; no run lists a type invariant. Each describes its own
module: a composition adds values to the base module's variables (the start-up places
and `dead` of `pc` in `Launch`, `await` of `pc` in `WorkerCapture`, `retention` of
`lock` in `Retention`), so the base invariant is not one of the composition.

Only model-checked are:

- every liveness property, since the proof system does not cover fairness;
- `RateCap`, `OnlyOldRecordsRotate`, `UrgentFramesFirst` and `RemovesOnlyExcess`: they
  count, filter or sort sequences, which needs induction over data;
- `SignalsOwnedGroup` and `ResultIsTrue`: `PluginSubprocess` has no constants, so its
  run already covers every instance;
- `StuckTaskEscalated` for the in-process backend: the theorem is about
  `IsolatedCapture`.

## Not modelled

* Collectors other than the thread collector read a suspended task or the owned copy
  and keep no state; report formatting, symbolication, fingerprints and notifiers
  transform or print data.
* The command-line tools read one report file and share nothing with the monitor.
* The wire format between the monitor and its capture helper, and the spawn
  attributes of children, are encodings and system calls in sequence.
* The tee of the child's output (`child_output.rs`) copies bytes into a bounded tail.
* Parsing, defaults and clamping of the configuration are data; only the closure of
  plugin dependencies is in `Pipeline`.
* Checksums, access-control lists and directory aliases are data of the validations
  in `ArtifactStore` and `PrivatePaths`.
* Weak memory: the models are sequentially consistent; the monitor copies from a
  suspended task. A breadcrumb count that wraps after 2^32 entries is not explored.
* A wall clock that goes backwards.
