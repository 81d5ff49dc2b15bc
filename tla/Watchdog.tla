------------------------------ MODULE Watchdog ------------------------------
(***************************************************************************)
(* The ANR watchdog (src/watchdog.rs) and the part of the event loop that  *)
(* drives it (src/event_loop.rs: the inline check, the snapshot handler    *)
(* and finish_anr_monitor_work).                                           *)
(*                                                                         *)
(* The application publishes a heartbeat counter in shared memory; the     *)
(* event loop samples it every check_interval and accumulates the time for *)
(* which it did not change.  A capture is monitor-owned time: the clock    *)
(* runs and the application does not.                                      *)
(***************************************************************************)
EXTENDS Integers

CONSTANTS
    Warmup, Threshold, CheckInterval, Cooldown,   \* WatchdogConfig
    WakeLag,    \* how late after its deadline one wait_until may return
    MaxTime,    \* bound: the clock ticks of a behaviour
    MaxBeats,   \* bound: the heartbeats of a behaviour
    MaxInterrupts  \* bound: the events between two heartbeats or grants

\* WatchdogConfig::validate.
ASSUME WatchdogConfigAssumption ==
    /\ Warmup \in Nat \ {0}
    /\ Threshold \in Nat \ {0}
    /\ CheckInterval \in Nat \ {0}
    /\ Cooldown \in Nat \ {0}
    /\ CheckInterval <= Threshold

ASSUME BoundAssumption ==
    WakeLag \in Nat /\ MaxTime \in Nat /\ MaxBeats \in Nat /\ MaxInterrupts \in Nat

VARIABLES
    now,        \* anr_clock
    counter,    \* heartbeat_counter in shared memory
    ready,      \* producer_ready in shared memory: "no" or "yes"
    wd,         \* WatchdogState
    lastCheck,  \* last_anr_check
    wakeAt,     \* when the current wait_until times out
    loop,       \* "waiting" in wait_until, or "working" on a capture
    workStart,  \* monitor_work_started of the capture
    hangFor,    \* hang_duration_ms of the ANR event being captured, 0 if none
    \* History, not read by the code:
    appTime,    \* clock ticks during which the application could run
    beatAt,     \* appTime of the latest heartbeat
    graceAt,    \* appTime at which the latest warmup or cooldown was granted
    grace,      \* and how long it is
    interrupts  \* the events wait_until has returned since the later of the two

shm == <<counter, ready>>
history == <<appTime, beatAt, graceAt, grace, interrupts>>
vars == <<now, shm, wd, lastCheck, wakeAt, loop, workStart, hangFor, history>>

\* prev_heartbeat before the first ready sample; no counter value.
None == -1

WatchdogState == [warmup : 0 .. Warmup, prev : Nat \cup {None}, hang : Nat,
                  cooldown : 0 .. Cooldown]

TypeOK ==
    /\ now \in 0 .. MaxTime
    /\ counter \in 0 .. MaxBeats
    /\ ready \in {"no", "yes"}
    /\ wd \in WatchdogState
    /\ lastCheck \in 0 .. MaxTime
    /\ wakeAt \in Nat
    /\ loop \in {"waiting", "working"}
    /\ workStart \in 0 .. MaxTime
    /\ hangFor \in Nat
    /\ appTime \in Nat /\ beatAt \in Nat /\ graceAt \in Nat
    /\ grace \in {Warmup, Cooldown}
    /\ interrupts \in 0 .. MaxInterrupts

-----------------------------------------------------------------------------
(* The pure state machine.                                                 *)

SaturatingSub(a, b) == IF a > b THEN a - b ELSE 0

\* read_live_anr_heartbeat: readiness first, then the counter.
LiveHeartbeat == IF ready = "yes" THEN counter ELSE None

\* WatchdogState::new.
NewState(heartbeat) == [warmup |-> Warmup, prev |-> heartbeat, hang |-> 0, cooldown |-> 0]

\* WatchdogState::disarm.
Disarmed == NewState(None)

\* Mutation of Tick: the time before the first ready sample consumes warmup.
TickArmingConsumesWarmup(s, heartbeat, elapsed) ==
    LET counted == s.hang + elapsed IN
    IF heartbeat = None THEN [s |-> Disarmed, fired |-> 0]
    ELSE IF s.warmup > 0
         THEN [s |-> [s EXCEPT !.warmup = SaturatingSub(@, elapsed),
                               !.prev = heartbeat, !.hang = 0],
               fired |-> 0]
    ELSE IF s.cooldown > 0
         THEN [s |-> [s EXCEPT !.cooldown = SaturatingSub(@, elapsed),
                               !.prev = heartbeat, !.hang = 0],
               fired |-> 0]
    ELSE IF heartbeat # s.prev
         THEN [s |-> [s EXCEPT !.prev = heartbeat, !.hang = 0], fired |-> 0]
    ELSE IF counted >= Threshold
         THEN [s |-> [s EXCEPT !.cooldown = Cooldown, !.hang = 0], fired |-> counted]
    ELSE [s |-> [s EXCEPT !.hang = counted], fired |-> 0]

(***************************************************************************)
(* update_watchdog_state: the next state, and the duration of the hang to  *)
(* report (0 for None; a reported duration is at least Threshold).         *)
(***************************************************************************)
Tick(s, heartbeat, elapsed) ==
    LET counted == s.hang + elapsed IN
    IF heartbeat = None THEN [s |-> Disarmed, fired |-> 0]
    ELSE IF s.prev = None THEN [s |-> [s EXCEPT !.prev = heartbeat], fired |-> 0]
    ELSE IF s.warmup > 0
         THEN [s |-> [s EXCEPT !.warmup = SaturatingSub(@, elapsed),
                               !.prev = heartbeat, !.hang = 0],
               fired |-> 0]
    ELSE IF s.cooldown > 0
         THEN [s |-> [s EXCEPT !.cooldown = SaturatingSub(@, elapsed),
                               !.prev = heartbeat, !.hang = 0],
               fired |-> 0]
    ELSE IF heartbeat # s.prev
         THEN [s |-> [s EXCEPT !.prev = heartbeat, !.hang = 0], fired |-> 0]
    ELSE IF counted >= Threshold
         THEN [s |-> [s EXCEPT !.cooldown = Cooldown, !.hang = 0], fired |-> counted]
    ELSE [s |-> [s EXCEPT !.hang = counted], fired |-> 0]

\* consume_active_grace.
ConsumeActiveGrace(s, elapsed) ==
    IF s.warmup > 0 THEN [s EXCEPT !.warmup = SaturatingSub(@, elapsed)]
    ELSE [s EXCEPT !.cooldown = SaturatingSub(@, elapsed)]

\* rebase_after_monitor_work: the next state, and ResetElapsed or
\* PreserveElapsed.
Rebase(s, heartbeat, elapsedBefore) ==
    IF heartbeat = None THEN [s |-> Disarmed, reset |-> TRUE]
    ELSE IF s.prev = None THEN [s |-> [s EXCEPT !.prev = heartbeat], reset |-> TRUE]
    ELSE IF s.prev # heartbeat
         THEN [s |-> [ConsumeActiveGrace(s, elapsedBefore) EXCEPT !.prev = heartbeat,
                                                                  !.hang = 0],
               reset |-> TRUE]
    ELSE [s |-> s, reset |-> FALSE]

\* Mutation of ExcludeMonitorWork: the capture counts as application time.
ExcludeNothing(last, started, finished) == last

\* exclude_monitor_work_from_anr_clock.
ExcludeMonitorWork(last, started, finished) ==
    LET adjusted == last + SaturatingSub(finished, started)
    IN  IF adjusted > finished THEN finished ELSE adjusted

-----------------------------------------------------------------------------
(* The event loop.                                                         *)

Init ==
    /\ now = 0
    /\ counter = 0
    /\ ready \in {"no", "yes"}
    /\ wd = NewState(LiveHeartbeat)
    /\ lastCheck = 0
    /\ wakeAt = CheckInterval
    /\ loop = "waiting"
    /\ workStart = 0
    /\ hangFor = 0
    /\ appTime = 0 /\ beatAt = 0 /\ graceAt = 0 /\ grace = Warmup /\ interrupts = 0

\* next_watchdog_check; a deadline that has passed is a timeout of 0.
WaitUntil(last) == wakeAt' = IF last + CheckInterval > now THEN last + CheckInterval ELSE now

\* A sample that arms the watchdog grants the warmup.
Granted(s) ==
    IF wd.prev = None /\ s.prev # None
    THEN graceAt' = appTime /\ grace' = Warmup /\ interrupts' = 0
    ELSE UNCHANGED <<graceAt, grace, interrupts>>

\* The inline ANR check when wait_until returned None: a hang starts a capture.
Check ==
    /\ loop = "waiting"
    /\ now - lastCheck >= CheckInterval
    /\ LET r == Tick(wd, LiveHeartbeat, now - lastCheck) IN
       /\ wd' = r.s
       /\ hangFor' = r.fired
       /\ IF r.fired > 0
          THEN /\ loop' = "working" /\ workStart' = now
               /\ graceAt' = appTime /\ grace' = Cooldown /\ interrupts' = 0
               /\ UNCHANGED wakeAt
          ELSE /\ Granted(r.s)
               /\ WaitUntil(now)
               /\ UNCHANGED <<loop, workStart>>
    /\ lastCheck' = now
    /\ UNCHANGED <<now, shm, appTime, beatAt>>

\* wait_until polls before it looks at its deadline: an event is returned also
\* when a check is due.
Event == loop = "waiting" /\ interrupts < MaxInterrupts /\ interrupts' = interrupts + 1

\* A snapshot event; its capture starts.
Snapshot ==
    /\ Event
    /\ loop' = "working"
    /\ workStart' = now
    /\ UNCHANGED <<now, shm, wd, lastCheck, wakeAt, hangFor, appTime, beatAt, graceAt, grace>>

\* Mutation of Ignored: the check starts over after every event.
IgnoredRestarts ==
    /\ Event
    /\ lastCheck' = now
    /\ WaitUntil(now)
    /\ UNCHANGED <<now, shm, wd, loop, workStart, hangFor, appTime, beatAt, graceAt, grace>>

\* An event that the loop skips: an exception that is not subscribed, or a
\* snapshot when they are disabled.
Ignored ==
    /\ Event
    /\ WaitUntil(lastCheck)
    /\ UNCHANGED <<now, shm, wd, lastCheck, loop, workStart, hangFor, appTime, beatAt, graceAt, grace>>

\* The capture returned: finish_anr_monitor_work.
FinishWork ==
    /\ loop = "working"
    /\ LET r == Rebase(wd, LiveHeartbeat, SaturatingSub(workStart, lastCheck)) IN
       /\ wd' = r.s
       /\ lastCheck' = IF r.reset THEN now ELSE ExcludeMonitorWork(lastCheck, workStart, now)
       /\ WaitUntil(lastCheck')
       /\ Granted(r.s)
    /\ loop' = "waiting"
    /\ hangFor' = 0
    /\ UNCHANGED <<now, shm, workStart, appTime, beatAt>>

-----------------------------------------------------------------------------
(* Time and the application.                                               *)

\* Time passes while the event loop waits; this wait_until returns within
\* WakeLag of its deadline.
Wait ==
    /\ loop = "waiting"
    /\ now < MaxTime
    /\ now < wakeAt + WakeLag
    /\ now' = now + 1
    /\ appTime' = appTime + 1
    /\ UNCHANGED <<shm, wd, lastCheck, wakeAt, loop, workStart, hangFor, beatAt, graceAt, grace, interrupts>>

\* Time passes during a capture.
Work ==
    /\ loop = "working"
    /\ now < MaxTime
    /\ now' = now + 1
    /\ UNCHANGED <<shm, wd, lastCheck, wakeAt, loop, workStart, hangFor, history>>

\* crash_monitor_heartbeat; also during a capture, before the task is
\* suspended or after it was resumed.
Heartbeat ==
    /\ counter < MaxBeats
    /\ counter' = counter + 1
    /\ beatAt' = appTime /\ interrupts' = 0
    /\ UNCHANGED <<now, ready, wd, lastCheck, wakeAt, loop, workStart, hangFor, appTime, graceAt, grace>>

\* crash_monitor_mark_ready: a heartbeat, then the handshake.
MarkReady ==
    /\ ready = "no"
    /\ counter < MaxBeats
    /\ counter' = counter + 1
    /\ ready' = "yes"
    /\ beatAt' = appTime /\ interrupts' = 0
    /\ UNCHANGED <<now, wd, lastCheck, wakeAt, loop, workStart, hangFor, appTime, graceAt, grace>>

\* The ready word no longer holds the handshake value.
Unready ==
    /\ ready = "yes"
    /\ ready' = "no"
    /\ UNCHANGED <<now, counter, wd, lastCheck, wakeAt, loop, workStart, hangFor, history>>

Next ==
    \/ Check \/ Snapshot \/ Ignored \/ FinishWork
    \/ Wait \/ Work
    \/ Heartbeat \/ MarkReady \/ Unready

Spec == Init /\ [][Next]_vars

-----------------------------------------------------------------------------
(* Properties.                                                             *)

(***************************************************************************)
(* "Time before the producer is ready, and time spent doing monitor-owned  *)
(* work, is never counted as application hang time" (watchdog.rs): the     *)
(* duration of a reported hang is at most the time for which the           *)
(* application could run since its latest heartbeat, whatever captures     *)
(* happened in between.                                                    *)
(***************************************************************************)
HangIsApplicationTime ==
    [][hangFor = 0 /\ hangFor' > 0 => hangFor' <= appTime - beatAt]_vars

(***************************************************************************)
(* A hang is reported only after the whole warmup (since the sample that   *)
(* armed the watchdog) or the whole cooldown (since the previous report)   *)
(* and a full threshold of application-running time after it: captures     *)
(* consume neither.                                                        *)
(***************************************************************************)
GraceIsApplicationTime ==
    [][hangFor = 0 /\ hangFor' > 0 => appTime - graceAt >= grace + Threshold]_vars

(***************************************************************************)
(* A hang is not missed: an armed watchdog reports within the grace, the   *)
(* threshold and two check periods of application time after the later of  *)
(* the last heartbeat and the last grant, and one wake-up lag more for     *)
(* each event the loop has handled since: wait_until returns an event      *)
(* before it looks at the deadline, but no event starts the interval over, *)
(* and the time its capture took is the only time left out.                *)
(***************************************************************************)
HangIsReported ==
    LET period == CheckInterval + WakeLag
        since == appTime - (IF beatAt > graceAt THEN beatAt ELSE graceAt)
    IN  wd.prev # None => since <= grace + Threshold + 2 * period + WakeLag * interrupts

=============================================================================
