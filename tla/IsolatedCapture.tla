-------------------------- MODULE IsolatedCapture --------------------------
(***************************************************************************)
(* CaptureWorker::capture with the killable exec helper of production      *)
(* builds (src/pipeline/worker.rs, src/pipeline/capture_isolation.rs,      *)
(* src/platform/macos/ffi/capture_spawn.rs).                               *)
(*                                                                         *)
(* The event-loop thread suspends the task, copies shared memory, spawns a *)
(* helper process, hands it the task rights, and waits for it under one    *)
(* absolute deadline; the helper, the monitored process and the clock run  *)
(* concurrently with it.  Captures follow one another until the event loop *)
(* stops monitoring.                                                       *)
(***************************************************************************)
EXTENDS TaskControl

CONSTANT EnabledKinds   \* the report types the pipeline's policy allows

Kinds == {"Crash", "Snapshot", "Anr"}

ASSUME EnabledKindsAssumption == EnabledKinds \subseteq Kinds

VARIABLES
    pc,          \* where the event-loop thread is in `capture`
    kind,        \* the event's report type
    elapsed,     \* the absolute capture deadline has passed
    graceOver,   \* the reap grace after SIGKILL has passed
    helper,      \* the capture-helper process, see HelperState
    cause,       \* why the helper is being killed: "handoff" or "deadline"
    outcome,     \* what the capture returns
    eventLoop    \* "running" or "stopped"

captureVars == <<pc, kind, elapsed, graceOver, helper, cause, outcome, eventLoop>>
vars == <<taskVars, captureVars>>

PC == {"idle", "setup", "acquire", "snapshot", "launch", "spawn", "handoff",
       "poll", "kill", "reap", "release", "contain", "returned"}

(***************************************************************************)
(* "untracked": posix_spawn succeeded without a usable pid; "starting":    *)
(* running without task rights; "inspecting": running with them;           *)
(* "exited0" and "failed": terminated, not yet waited for; "lost": the     *)
(* wait status went to somebody else (ECHILD); "reaped": waitpid returned  *)
(* the terminal status, so its Mach rights are gone.                       *)
(***************************************************************************)
HelperState == {"none", "untracked", "starting", "inspecting",
                "exited0", "failed", "lost", "reaped"}

HelperAlive == helper \in {"untracked", "starting", "inspecting"}

Outcomes == {"none", "Skipped", "Completed", "TimedOut", "Failed"}

TypeOK ==
    /\ TaskTypeOK
    /\ pc \in PC
    /\ kind \in Kinds
    /\ elapsed \in BOOLEAN
    /\ graceOver \in BOOLEAN
    /\ helper \in HelperState
    /\ cause \in {"handoff", "deadline"}
    /\ outcome \in Outcomes
    /\ eventLoop \in {"running", "stopped"}

Init ==
    /\ TaskInit
    /\ pc = "idle"
    /\ kind = "Snapshot"
    /\ elapsed = FALSE
    /\ graceOver = FALSE
    /\ helper = "none"
    /\ cause = "deadline"
    /\ outcome = "none"
    /\ eventLoop = "running"

-----------------------------------------------------------------------------
(* The event-loop thread.                                                  *)

Goto(next) == pc' = next /\ UNCHANGED <<kind, elapsed, graceOver, cause, eventLoop>>

\* finish_suspend and the return of result r: the guard, if one is held, is
\* released first.
Finish(r) ==
    /\ Goto("release")
    /\ outcome' = r

\* An event that triggers a capture.  A crash's deadline starts when its Mach
\* message was received, so it may have passed already.
Begin(k) ==
    /\ pc = "idle"
    /\ eventLoop = "running"
    /\ kind' = k
    /\ elapsed' \in IF k = "Crash" THEN BOOLEAN ELSE {FALSE}
    /\ pc' = "setup"
    /\ outcome' = "none"
    /\ NewGuard
    /\ helper' = IF helper = "reaped" THEN "none" ELSE helper
    /\ UNCHANGED <<graceOver, cause, eventLoop>>

\* The checks before suspension: policy and report context, deadline, helper
\* request and result file.
Setup ==
    /\ pc = "setup"
    /\ \/ Goto("returned") /\ outcome' = "Skipped"
       \/ /\ kind \in EnabledKinds
          /\ elapsed
          /\ Goto("returned") /\ outcome' = "TimedOut"
       \/ /\ kind \in EnabledKinds
          /\ ~elapsed
          /\ \/ Goto("returned") /\ outcome' = "Failed"
             \/ Goto("acquire") /\ UNCHANGED outcome
    /\ UNCHANGED <<taskVars, helper>>

\* Snapshot and ANR events skip the capture when the task cannot be suspended;
\* a crash goes on without a guard (suspend_failure_policy).
Acquire ==
    /\ pc = "acquire"
    /\ \/ AcquireOk /\ Goto("snapshot") /\ UNCHANGED outcome
       \/ /\ AcquireErr
          /\ kind = "Crash"
          /\ Goto("snapshot") /\ UNCHANGED outcome
       \/ /\ AcquireErr
          /\ kind # "Crash"
          /\ Goto("returned") /\ outcome' = "Skipped"
    /\ UNCHANGED helper

\* The deadline check after suspension, then the shared-memory copy.
Snapshot ==
    /\ pc = "snapshot"
    /\ IF elapsed THEN Finish("TimedOut") ELSE Goto("launch") /\ UNCHANGED outcome
    /\ UNCHANGED <<taskVars, helper>>

\* The deadline check after the copy; without a task-facing collector there is
\* no request and the capture completes with no data.
Launch ==
    /\ pc = "launch"
    /\ \/ elapsed /\ Finish("TimedOut")
       \/ ~elapsed /\ Finish("Completed")
       \/ ~elapsed /\ Goto("spawn") /\ UNCHANGED outcome
    /\ UNCHANGED <<taskVars, helper>>

\* run_isolated_capture up to posix_spawn.
Spawn ==
    /\ pc = "spawn"
    /\ \/ elapsed /\ Finish("TimedOut") /\ UNCHANGED helper
       \/ ~elapsed /\ Finish("Failed") /\ UNCHANGED helper
       \/ /\ ~elapsed
          /\ helper' = "untracked"
          /\ Goto("contain") /\ outcome' = "Failed"
       \/ /\ ~elapsed
          /\ helper' = "starting"
          /\ Goto("handoff") /\ UNCHANGED outcome
    /\ UNCHANGED taskVars

\* Mutation of HandOff: a failed handoff is reported without cleaning up.
HandOffNoCleanup ==
    /\ pc = "handoff"
    /\ \/ /\ helper = "starting"
          /\ helper' = "inspecting"
          /\ Goto("poll") /\ UNCHANGED outcome
       \/ /\ Finish("Failed")
          /\ UNCHANGED helper
    /\ UNCHANGED taskVars

\* The capability handoff: the helper's control port arrives and the rights
\* are sent in one message, or a bounded wait fails.
HandOff ==
    /\ pc = "handoff"
    /\ \/ /\ helper = "starting"
          /\ helper' = "inspecting"
          /\ Goto("poll") /\ UNCHANGED outcome
       \/ /\ pc' = "kill"
          /\ cause' = "handoff"
          /\ UNCHANGED <<kind, elapsed, graceOver, eventLoop, helper, outcome>>
    /\ UNCHANGED taskVars

\* Mutation of Poll: ECHILD is taken for an ordinary helper failure.
PollTrustsEchild ==
    /\ pc = "poll"
    /\ \/ /\ helper = "exited0"
          /\ helper' = "reaped"
          /\ Finish("Completed") \/ Finish("Failed")
       \/ /\ helper \in {"failed", "lost"}
          /\ Finish("Completed")
          /\ UNCHANGED helper
       \/ /\ HelperAlive
          /\ elapsed
          /\ pc' = "kill"
          /\ cause' = "deadline"
          /\ UNCHANGED <<kind, elapsed, graceOver, eventLoop, helper, outcome>>
    /\ UNCHANGED taskVars

\* One pass of the wait loop that does not just sleep: poll_reap,
\* decode_result after exit status 0, then the deadline check.
Poll ==
    /\ pc = "poll"
    /\ \/ /\ helper = "exited0"
          /\ helper' = "reaped"
          /\ Finish("Completed") \/ Finish("Failed")
       \/ /\ helper = "failed"
          /\ helper' = "reaped"
          /\ Finish("Failed")
       \/ /\ helper = "lost"
          /\ Goto("contain") /\ outcome' = "Failed"
          /\ UNCHANGED helper
       \/ /\ HelperAlive
          /\ elapsed
          /\ pc' = "kill"
          /\ cause' = "deadline"
          /\ UNCHANGED <<kind, elapsed, graceOver, eventLoop, helper, outcome>>
    /\ UNCHANGED taskVars

\* SIGKILL of the helper (kill_and_reap_timed_out_helper and
\* kill_and_reap_failed_handoff); ESRCH counts as sent, another error does not.
Kill ==
    /\ pc = "kill"
    /\ \/ /\ pc' = "reap"
          /\ graceOver' = FALSE
          /\ UNCHANGED <<kind, elapsed, cause, eventLoop, outcome>>
       \/ Goto("contain") /\ outcome' = "Failed"
    /\ UNCHANGED <<taskVars, helper>>

\* Mutation of Reap: when the grace is over the SIGKILL is taken for proof.
ReapTrustsKill ==
    /\ pc = "reap"
    /\ \/ /\ helper \in {"exited0", "failed"}
          /\ helper' = "reaped"
          /\ Finish(IF cause = "deadline" THEN "TimedOut" ELSE "Failed")
       \/ /\ helper = "lost" \/ (HelperAlive /\ graceOver)
          /\ Finish(IF cause = "deadline" THEN "TimedOut" ELSE "Failed")
          /\ UNCHANGED helper
    /\ UNCHANGED taskVars

\* Mutation of Reap: the loop has no grace.
ReapForever ==
    /\ pc = "reap"
    /\ helper \in {"exited0", "failed"}
    /\ helper' = "reaped"
    /\ Finish(IF cause = "deadline" THEN "TimedOut" ELSE "Failed")
    /\ UNCHANGED taskVars

\* One pass of the reap loop after SIGKILL that does not just sleep: only a
\* terminal wait status proves that the helper is gone; ECHILD and the end of
\* the grace do not.
Reap ==
    /\ pc = "reap"
    /\ \/ /\ helper \in {"exited0", "failed"}
          /\ helper' = "reaped"
          /\ Finish(IF cause = "deadline" THEN "TimedOut" ELSE "Failed")
       \/ /\ helper = "lost" \/ (HelperAlive /\ graceOver)
          /\ Goto("contain") /\ outcome' = "Failed"
          /\ UNCHANGED helper
    /\ UNCHANGED taskVars

\* waitpid fails with neither EINTR nor ECHILD in either loop.
WaitError ==
    /\ pc \in {"poll", "reap"}
    /\ Goto("contain")
    /\ outcome' = "Failed"
    /\ UNCHANGED <<taskVars, helper>>

\* The steps of TaskSuspendGuard::release, and the return when no guard is held
\* or the release is over.
Release ==
    /\ pc = "release"
    /\ \/ BeginRelease /\ UNCHANGED pc
       \/ ResumeOk /\ pc' = "returned"
       \/ ResumeErr /\ UNCHANGED pc
       \/ \E terminated \in BOOLEAN :
             TerminateAfterRetries(terminated) /\ pc' = "returned"
       \/ guard = "none" /\ UNCHANGED taskVars /\ pc' = "returned"
    /\ UNCHANGED <<kind, elapsed, graceOver, helper, cause, outcome, eventLoop>>

\* Cleanup of the helper is unproven: the target is terminated, not resumed.
Contain ==
    /\ pc = "contain"
    /\ \E terminated \in BOOLEAN : ContainWithoutResume(terminated)
    /\ Goto("returned")
    /\ UNCHANGED <<helper, outcome>>

\* Mutation of AfterCapture: the health is only consulted for a crash.
AfterCaptureIgnoresHealth ==
    /\ pc = "returned"
    /\ pc' = "idle"
    /\ eventLoop' = IF kind = "Crash" THEN "stopped" ELSE eventLoop
    /\ UNCHANGED <<taskVars, kind, elapsed, graceOver, helper, cause, outcome>>

\* The event loop after `capture`: a crash ends monitoring after the reply, and
\* so does a task-control failure that could not resume the task.
AfterCapture ==
    /\ pc = "returned"
    /\ pc' = "idle"
    /\ eventLoop' = IF kind = "Crash" \/ PreventsMonitoring(health)
                    THEN "stopped" ELSE eventLoop
    /\ UNCHANGED <<taskVars, kind, elapsed, graceOver, helper, cause, outcome>>

-----------------------------------------------------------------------------
(* The environment: helper process, clock, monitored process.              *)

Environment(h) ==
    helper' = h /\ UNCHANGED <<taskVars, pc, kind, elapsed, graceOver, cause, outcome, eventLoop>>

\* The helper terminates, by itself or by SIGKILL.  Status 0 needs the rights
\* it was handed: run_capture_helper fails without them.
HelperExits ==
    \/ helper = "inspecting" /\ Environment("exited0")
    \/ helper \in {"starting", "inspecting"} /\ Environment("failed")

\* Another waiter in the process collects the helper's status.
HelperStolen == helper \in {"exited0", "failed"} /\ Environment("lost")

\* The absolute deadline passes.
Expire ==
    /\ pc # "idle"
    /\ ~elapsed
    /\ elapsed' = TRUE
    /\ UNCHANGED <<taskVars, pc, kind, graceOver, helper, cause, outcome, eventLoop>>

\* The reap grace passes.
ExpireGrace ==
    /\ pc = "reap"
    /\ ~graceOver
    /\ graceOver' = TRUE
    /\ UNCHANGED <<taskVars, pc, kind, elapsed, helper, cause, outcome, eventLoop>>

TaskDeath == TaskDies /\ UNCHANGED captureVars

-----------------------------------------------------------------------------

CaptureStep ==
    \/ Setup \/ Acquire \/ Snapshot \/ Launch \/ Spawn \/ HandOff
    \/ Poll \/ Kill \/ Reap \/ Release \/ Contain \/ AfterCapture

Next ==
    \/ \E k \in Kinds : Begin(k)
    \/ CaptureStep
    \/ WaitError
    \/ HelperExits \/ HelperStolen
    \/ Expire \/ ExpireGrace
    \/ TaskDeath

Spec == Init /\ [][Next]_vars

(***************************************************************************)
(* The event-loop thread runs and time passes.  Nothing is assumed of the  *)
(* helper, which may hang, nor of the monitored process.                   *)
(***************************************************************************)
Fairness == WF_vars(CaptureStep) /\ WF_vars(Expire) /\ WF_vars(ExpireGrace)

FairSpec == Spec /\ Fairness

-----------------------------------------------------------------------------
(* Properties.                                                             *)

(***************************************************************************)
(* A capture that suspended the task never lets it run while its helper    *)
(* process may still be alive (and so may hold the task's rights): the     *)
(* task stays suspended or is dead, through timeouts, failed handoffs,     *)
(* lost wait status and failed kills ("a successful waitpid proves the     *)
(* helper and all of its Mach rights are gone before the task is resumed", *)
(* worker.rs).                                                             *)
(***************************************************************************)
NoLiveInspection ==
    HelperAlive /\ guard # "none" => task = "dead" \/ suspended > 0

(***************************************************************************)
(* While monitoring goes on between captures, the live task is not left    *)
(* suspended by an earlier capture, and no helper of one is left running:  *)
(* whatever failed in between, `capture` balanced its suspension or the    *)
(* event loop has stopped.                                                 *)
(***************************************************************************)
CleanBetweenCaptures ==
    pc = "idle" /\ eventLoop = "running" => suspended = 0 /\ ~HelperAlive

(***************************************************************************)
(* A task that a finished capture left suspended and alive is known to the *)
(* supervisor as one that it must kill itself (EscalationRequired).        *)
(***************************************************************************)
StuckTaskEscalated ==
    pc \in {"returned", "idle"} /\ suspended > 0 /\ task = "alive"
        => RequiresEscalation(health)

(***************************************************************************)
(* Collected task data is only returned when the helper's exit status was  *)
(* collected by this capture, or no helper was needed.                     *)
(***************************************************************************)
CompletedMeansReaped ==
    outcome = "Completed" => helper \in {"none", "reaped"}

(***************************************************************************)
(* The suspend count the monitor holds never exceeds one, and one capture  *)
(* releases at most the count it acquired: a step never takes the count    *)
(* down unless this capture's guard owned it (finish and Drop cannot both  *)
(* resume).                                                                *)
(***************************************************************************)
BalancedSuspension ==
    [][/\ suspended' <= 1
       /\ suspended' < suspended => guard = "releasing" /\ guard' = "released"]_vars

(***************************************************************************)
(* Every capture returns to the event loop, even if the helper hangs       *)
(* forever and ignores SIGKILL: all the waits are bounded.                 *)
(***************************************************************************)
CaptureReturns == (pc # "idle") ~> (pc = "idle")

-----------------------------------------------------------------------------
(* Refinement.                                                             *)

\* The phase of CaptureContract this state stands for.
ContractPhase ==
    IF PreventsMonitoring(health) THEN "kept"
    ELSE IF guard \in {"active", "releasing"} THEN "held"
    ELSE IF guard = "none" /\ pc \notin {"idle", "setup", "acquire", "returned"}
         THEN "loose"
    ELSE "open"

C == INSTANCE CaptureContract
        WITH phase <- ContractPhase, inspector <- HelperAlive, open <- (eventLoop = "running")

(***************************************************************************)
(* The isolated capture implements the capture contract: suspend, helper   *)
(* launch, reap, resume and containment happen in an order the contract    *)
(* allows, in every interleaving with the helper, the clock and the death  *)
(* of the task.                                                            *)
(***************************************************************************)
ImplementsContract == C!Contract

=============================================================================
