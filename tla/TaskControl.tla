---------------------------- MODULE TaskControl ----------------------------
(***************************************************************************)
(* Suspension of the monitored task and the policy that ends it            *)
(* (src/platform/task_control.rs, src/platform/macos/ffi/task.rs).         *)
(*                                                                         *)
(* A TaskSuspendGuard owns exactly one successful task_suspend.  It is     *)
(* consumed either by `release` (bounded resume retries, then one          *)
(* task_terminate) or by `contain_without_resume` (terminate at once).     *)
(* This module gives the state and one action per call that changes it;    *)
(* IsolatedCapture puts them in the order of the capture.                  *)
(***************************************************************************)
EXTENDS Integers

CONSTANT ResumeAttemptLimit   \* RESUME_ATTEMPT_LIMIT, 3 in the code

ASSUME ResumeAttemptAssumption == ResumeAttemptLimit \in Nat \ {0}

VARIABLES
    task,       \* the monitored process: "alive" or "dead"
    suspended,  \* the task's kernel suspend count (only the monitor suspends it)
    guard,      \* the capture's TaskSuspendGuard, see GuardState
    attempts,   \* resume_attempts of the release that is running
    health      \* recoveries recorded in SupervisorHealth

taskVars == <<task, suspended, guard, attempts, health>>

(***************************************************************************)
(* "none": no guard was acquired; "active": the guard's `active` bit is    *)
(* set; "releasing": `release` cleared the bit and is retrying;            *)
(* "released" and "contained": consumed.                                   *)
(***************************************************************************)
GuardState == {"none", "active", "releasing", "released", "contained"}

\* TaskRecoveryAction.
Recovery == {"Resumed", "Terminated", "EscalationRequired"}

\* TaskControlFailure::prevents_continued_monitoring over the recorded health,
\* as task_control_monitor_failure asks it.
PreventsMonitoring(h) == "Terminated" \in h \/ "EscalationRequired" \in h

\* SupervisorHealth::requires_escalation.
RequiresEscalation(h) == "EscalationRequired" \in h

TaskTypeOK ==
    /\ task \in {"alive", "dead"}
    /\ suspended \in Nat
    /\ guard \in GuardState
    /\ attempts \in 0 .. ResumeAttemptLimit
    /\ health \subseteq Recovery

TaskInit ==
    /\ task = "alive"
    /\ suspended = 0
    /\ guard = "none"
    /\ attempts = 0
    /\ health = {}

\* TaskSuspendGuard::acquire, task_suspend succeeds.
AcquireOk ==
    /\ task = "alive"
    /\ guard = "none"
    /\ suspended' = suspended + 1
    /\ guard' = "active"
    /\ UNCHANGED <<task, attempts, health>>

\* TaskSuspendGuard::acquire, task_suspend fails: no guard is constructed.
AcquireErr ==
    /\ guard = "none"
    /\ UNCHANGED taskVars

\* `finish`, or Drop, of an active guard: the bit is cleared before any call.
BeginRelease ==
    /\ guard = "active"
    /\ guard' = "releasing"
    /\ attempts' = 0
    /\ UNCHANGED <<task, suspended, health>>

\* One pass of the retry loop in `release`: task_resume succeeds.  A success
\* after errors is recorded as Resumed.
ResumeOk ==
    /\ guard = "releasing"
    /\ task = "alive"
    /\ attempts < ResumeAttemptLimit
    /\ suspended' = suspended - 1
    /\ guard' = "released"
    /\ attempts' = attempts + 1
    /\ health' = IF attempts > 0 THEN health \cup {"Resumed"} ELSE health
    /\ UNCHANGED task

\* Mutation of ResumeErr: the retry loop tests its limit too late.
ResumeErrUnbounded ==
    /\ guard = "releasing"
    /\ attempts <= ResumeAttemptLimit
    /\ attempts' = attempts + 1
    /\ UNCHANGED <<task, suspended, guard, health>>

\* One pass of the retry loop in `release`: task_resume fails.
ResumeErr ==
    /\ guard = "releasing"
    /\ attempts < ResumeAttemptLimit
    /\ attempts' = attempts + 1
    /\ UNCHANGED <<task, suspended, guard, health>>

\* task_terminate succeeds or fails; the recovery is recorded.
TerminateTask(terminated) ==
    /\ terminated => task = "alive"
    /\ task' = IF terminated THEN "dead" ELSE task
    /\ health' = health \cup {IF terminated THEN "Terminated" ELSE "EscalationRequired"}

\* Mutation of TerminateAfterRetries: the failure is not recorded.
TerminateAfterRetriesUnrecorded(terminated) ==
    /\ guard = "releasing"
    /\ attempts = ResumeAttemptLimit
    /\ terminated => task = "alive"
    /\ task' = IF terminated THEN "dead" ELSE task
    /\ guard' = "released"
    /\ UNCHANGED <<suspended, attempts, health>>

\* The end of `release` when every resume attempt failed.
TerminateAfterRetries(terminated) ==
    /\ guard = "releasing"
    /\ attempts = ResumeAttemptLimit
    /\ TerminateTask(terminated)
    /\ guard' = "released"
    /\ UNCHANGED <<suspended, attempts>>

\* contain_without_resume (active guard) and contain_task_without_resume (a
\* best-effort capture that holds none): terminate, never resume.
ContainWithoutResume(terminated) ==
    /\ guard \in {"none", "active"}
    /\ TerminateTask(terminated)
    /\ guard' = IF guard = "active" THEN "contained" ELSE guard
    /\ UNCHANGED <<suspended, attempts>>

\* The monitored process dies on its own, or is killed by somebody else.
TaskDies ==
    /\ task = "alive"
    /\ task' = "dead"
    /\ UNCHANGED <<suspended, guard, attempts, health>>

\* The guard of the next capture is a new value.
NewGuard ==
    /\ guard' = "none"
    /\ attempts' = 0
    /\ UNCHANGED <<task, suspended, health>>

=============================================================================
