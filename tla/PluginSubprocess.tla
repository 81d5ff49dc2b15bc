-------------------------- MODULE PluginSubprocess --------------------------
(***************************************************************************)
(* A plugin that declares PluginExecution::Subprocess                      *)
(* (src/pipeline/safety.rs: run_plugin_cooperative, run_plugin_subprocess; *)
(* src/pipeline/mod.rs: enforce_execution_boundary).                       *)
(*                                                                         *)
(* The finalizer thread spawns a process in a group of its own, polls it   *)
(* under a deadline, kills and reaps it, and joins the two threads that    *)
(* drain its output.  The process, one descendant of it, the readers and   *)
(* the clock run concurrently; the descendant may leave the group and keep *)
(* the pipes open.                                                         *)
(***************************************************************************)
EXTENDS Naturals

Streams == {"stdout", "stderr"}

VARIABLES
    \* The operating system.
    child,       \* "none", "running", "zombie" or "reaped"
    group,       \* the group the child is in: "own" or "other"
    killed,      \* "yes" once SIGKILL was delivered to the running child
    descendant,  \* "none", "group", "escaped", "dying" or "dead"
    elapsed,     \* deadline or cancellation of the supervisor's context
    outer,       \* the same of the plugin's context
    osError,     \* history: "yes" once a call failed that normally succeeds
    \* The finalizer thread.
    pc,
    cause,       \* why kill_and_reap_process_group runs
    groupError,  \* "yes" if its killpg failed
    outcome,     \* of the poll loop: "none", "Ok", "TimedOut" or "Failed"
    failure,     \* subprocess_cleanup_failure: "no" or "yes"
    boundary,    \* subprocess_boundary
    result,      \* PluginRunResult of run_plugin_subprocess
    final,       \* PluginRunResult the pipeline records
    \* The other threads.
    reader,      \* per stream: "none", "reading", "blocked" or "done"
    capture,     \* per stream: "none", "whole" (end of file) or "cut"
    stop,        \* per stream: the reader's stop flag
    waiter       \* delayed reaper: "none", "waiting" or "done"

osVars == <<child, group, killed, descendant, elapsed, outer>>
threadVars == <<reader, capture, stop, waiter>>
runVars == <<cause, groupError, outcome, failure, boundary, result, final>>
vars == <<osVars, osError, pc, runVars, threadVars>>

YesNo == {"yes", "no"}
Results == {"none", "Completed", "Failed", "Panicked", "TimedOut"}
PCs == {"enter", "body", "spawn", "setup", "stdout", "stderr", "poll", "clean", "reap",
        "killGroup", "killChild", "waitExit", "joinOut", "joinErr", "finish", "plugin", "returned"}

TypeOK ==
    /\ child \in {"none", "running", "zombie", "reaped"}
    /\ group \in {"own", "other"}
    /\ killed \in YesNo /\ elapsed \in YesNo /\ outer \in YesNo /\ osError \in YesNo
    /\ descendant \in {"none", "group", "escaped", "dying", "dead"}
    /\ pc \in PCs
    /\ cause \in {"none", "setup", "deadline", "poll"}
    /\ groupError \in YesNo /\ failure \in YesNo
    /\ outcome \in {"none", "Ok", "TimedOut", "Failed"}
    /\ boundary \in {"unused", "started", "not required"}
    /\ result \in Results /\ final \in Results
    /\ reader \in [Streams -> {"none", "reading", "blocked", "done"}]
    /\ capture \in [Streams -> {"none", "whole", "cut"}]
    /\ stop \in [Streams -> YesNo]
    /\ waiter \in {"none", "waiting", "done"}

Init ==
    /\ child = "none" /\ group = "own" /\ killed = "no" /\ descendant = "none"
    /\ elapsed = "no" /\ outer = "no" /\ osError = "no"
    /\ pc = "enter" /\ cause = "none" /\ groupError = "no" /\ outcome = "none"
    /\ failure = "no" /\ boundary = "unused" /\ result = "none" /\ final = "none"
    /\ reader = [s \in Streams |-> "none"] /\ capture = [s \in Streams |-> "none"]
    /\ stop = [s \in Streams |-> "no"] /\ waiter = "none"

-----------------------------------------------------------------------------
(* Signals.                                                                *)

\* Members of the process group that killpg can signal.
Signalable == (child = "running" /\ group = "own") \/ descendant \in {"group", "dying"}

\* killpg's result on Darwin: EPERM for a group of which only the unreaped
\* leader is left (the comment in kill_remaining_process_group).
Killpg ==
    IF Signalable THEN "Ok"
    ELSE IF child = "zombie" /\ group = "own" THEN "EPERM" ELSE "ESRCH"

\* What a successful killpg does.
SignalGroup ==
    /\ killed' = IF child = "running" /\ group = "own" THEN "yes" ELSE killed
    /\ descendant' = IF descendant = "group" THEN "dying" ELSE descendant

-----------------------------------------------------------------------------
(* run_plugin_cooperative, up to the plugin's own code.                    *)

\* The deadline check before the plugin starts.
Enter ==
    /\ pc = "enter"
    /\ IF outer = "yes" THEN pc' = "returned" /\ final' = "TimedOut"
                        ELSE pc' = "body" /\ final' = final
    /\ UNCHANGED <<osVars, osError, cause, groupError, outcome, failure, boundary, result,
                   threadVars>>

\* The plugin calls the supervisor, which checks its context; or it has nothing
\* to do and says so; or it returns without either.
Body ==
    /\ pc = "body"
    /\ \/ /\ boundary' = "started"
          /\ IF elapsed = "yes" THEN pc' = "plugin" /\ result' = "TimedOut"
                                ELSE pc' = "spawn" /\ result' = result
       \/ boundary' \in {"not required", "unused"} /\ pc' = "plugin" /\ result' = "Completed"
    /\ UNCHANGED <<osVars, osError, cause, groupError, outcome, failure, final, threadVars>>

-----------------------------------------------------------------------------
(* run_plugin_subprocess.                                                  *)

\* failed_for_context.
FailedForContext == IF elapsed = "yes" THEN "TimedOut" ELSE "Failed"

Spawn ==
    /\ pc = "spawn"
    /\ \/ pc' = "setup" /\ child' = "running" /\ UNCHANGED <<result, osError>>
       \/ pc' = "plugin" /\ result' = FailedForContext /\ osError' = "yes" /\ UNCHANGED child
    /\ UNCHANGED <<group, killed, descendant, elapsed, outer, cause, groupError, outcome,
                   failure, boundary, final, threadVars>>

\* Call kill_and_reap_process_group.
KillFor(why) == pc' = "killGroup" /\ cause' = why

\* The pipes are taken and made nonblocking, and a reader is started for each.
Setup ==
    /\ pc = "setup"
    /\ \/ pc' = "stdout" /\ UNCHANGED <<cause, osError>>
       \/ KillFor("setup") /\ osError' = "yes"
    /\ UNCHANGED <<osVars, groupError, outcome, failure, boundary, result, final, threadVars>>

StartStdout ==
    /\ pc = "stdout"
    /\ \/ /\ pc' = "stderr" /\ reader' = [reader EXCEPT !["stdout"] = "reading"]
          /\ UNCHANGED <<cause, osError>>
       \/ KillFor("setup") /\ osError' = "yes" /\ UNCHANGED reader
    /\ UNCHANGED <<osVars, groupError, outcome, failure, boundary, result, final, capture, stop,
                   waiter>>

StartStderr ==
    /\ pc = "stderr"
    /\ \/ /\ pc' = "poll" /\ reader' = [reader EXCEPT !["stderr"] = "reading"]
          /\ UNCHANGED <<cause, stop, osError>>
       \/ /\ KillFor("setup") /\ osError' = "yes"
          /\ stop' = [stop EXCEPT !["stdout"] = "yes"] /\ UNCHANGED reader
    /\ UNCHANGED <<osVars, groupError, outcome, failure, boundary, result, final, capture,
                   waiter>>

\* Mutation of Poll: reap before the group is cleaned.
PollReapsFirst ==
    /\ pc = "poll"
    /\ \/ elapsed = "yes" /\ KillFor("deadline") /\ UNCHANGED child
       \/ elapsed = "no" /\ child = "zombie" /\ child' = "reaped" /\ pc' = "clean"
          /\ UNCHANGED cause
    /\ UNCHANGED <<osError, group, killed, descendant, elapsed, outer, groupError, outcome, failure,
                   boundary, result, final, threadVars>>

\* One turn of the poll loop: the deadline first, then waitid with WNOWAIT,
\* which leaves the child a zombie.
Poll ==
    /\ pc = "poll"
    /\ \/ elapsed = "yes" /\ KillFor("deadline")
       \/ elapsed = "no" /\ child = "zombie" /\ pc' = "clean" /\ UNCHANGED cause
    /\ UNCHANGED <<osVars, osError, groupError, outcome, failure, boundary, result, final,
                   threadVars>>

\* waitid fails.
PollFails ==
    /\ pc = "poll" /\ elapsed = "no" /\ KillFor("poll") /\ osError' = "yes"
    /\ UNCHANGED <<osVars, groupError, outcome, failure, boundary, result, final, threadVars>>

\* The loop ended: without a status both readers are told to stop.
EndLoop(o, failed) ==
    /\ pc' = "joinOut" /\ outcome' = o
    /\ failure' = IF failed THEN "yes" ELSE failure
    /\ stop' = IF o = "Ok" THEN stop ELSE [s \in Streams |-> "yes"]

\* kill_remaining_process_group, while the zombie leader reserves the group.
CleanGroup ==
    /\ pc = "clean" /\ pc' = "reap"
    /\ \/ /\ IF Killpg = "Ok" THEN SignalGroup ELSE UNCHANGED <<killed, descendant>>
          /\ UNCHANGED <<groupError, osError>>
       \/ groupError' = "yes" /\ osError' = "yes" /\ UNCHANGED <<killed, descendant>>
    /\ UNCHANGED <<child, group, elapsed, outer, cause, outcome, failure, boundary, result,
                   final, threadVars>>

\* wait_for_child: the child is a zombie, so wait returns at once.
Reap ==
    /\ pc = "reap"
    /\ \/ /\ child' = "reaped" /\ UNCHANGED osError
          /\ EndLoop(IF groupError = "yes" THEN "Failed" ELSE "Ok", groupError = "yes")
       \/ UNCHANGED child /\ osError' = "yes" /\ EndLoop("Failed", TRUE)
    /\ UNCHANGED <<group, killed, descendant, elapsed, outer, cause, groupError, boundary,
                   result, final, reader, capture, waiter>>

-----------------------------------------------------------------------------
(* kill_and_reap_process_group.                                            *)

KillGroup ==
    /\ pc = "killGroup" /\ pc' = "killChild"
    /\ \/ /\ IF Killpg = "Ok" THEN SignalGroup ELSE UNCHANGED <<killed, descendant>>
          /\ groupError' = IF Killpg = "EPERM" THEN "yes" ELSE "no"
          /\ UNCHANGED osError
       \/ groupError' = "yes" /\ osError' = "yes" /\ UNCHANGED <<killed, descendant>>
    /\ UNCHANGED <<child, group, elapsed, outer, cause, outcome, failure, boundary, result,
                   final, threadVars>>

\* Child::kill reaches a child that changed its group.
KillChild ==
    /\ pc = "killChild" /\ pc' = "waitExit"
    /\ killed' = IF child = "running" THEN "yes" ELSE killed
    /\ UNCHANGED <<child, group, descendant, elapsed, outer, osError, runVars, threadVars>>

\* What the caller does with the cleanup's result: failed_with_cleanup, or
\* TimedOut on the deadline.
Cleaned(ok) ==
    IF ok THEN EndLoop(IF cause = "deadline" THEN "TimedOut" ELSE FailedForContext, FALSE)
          ELSE EndLoop("Failed", TRUE)

\* wait_for_child_exit: the status; the end of the grace, which hands the child
\* to a delayed reaper; or an error.
WaitExit ==
    /\ pc = "waitExit"
    /\ \/ child = "zombie" /\ child' = "reaped" /\ Cleaned(groupError = "no")
          /\ UNCHANGED <<waiter, osError>>
       \/ /\ child = "running" /\ UNCHANGED <<child, osError>>
          /\ waiter' = "waiting" /\ Cleaned(FALSE)
       \/ UNCHANGED <<child, waiter>> /\ osError' = "yes" /\ Cleaned(FALSE)
    /\ UNCHANGED <<group, killed, descendant, elapsed, outer, cause, groupError, boundary,
                   result, final, reader, capture>>

-----------------------------------------------------------------------------
(* The ends of the calls.                                                  *)

\* Mutation of JoinCapture: the reader is waited for without a bound.
JoinForever(s, here, next) ==
    /\ pc = here
    /\ reader[s] \in {"none", "done"} /\ pc' = next
    /\ UNCHANGED <<osVars, osError, runVars, threadVars>>

\* join_capture, stdout before stderr: wait for the reader; when the drain
\* grace is over, tell it to stop.
JoinCapture(s, here, next) ==
    /\ pc = here
    /\ \/ reader[s] \in {"none", "done"} /\ pc' = next /\ UNCHANGED stop
       \/ /\ reader[s] \in {"reading", "blocked"} /\ stop[s] = "no"
          /\ stop' = [stop EXCEPT ![s] = "yes"] /\ UNCHANGED pc
    /\ UNCHANGED <<osVars, osError, runVars, reader, capture, waiter>>

Join == JoinCapture("stdout", "joinOut", "joinErr") \/ JoinCapture("stderr", "joinErr", "finish")

\* Mutation of Finish: the output counts however the readers ended.
FinishIgnoresCapture ==
    /\ pc = "finish" /\ pc' = "plugin"
    /\ result' = IF outcome # "Ok" THEN outcome
                 ELSE IF elapsed = "yes" THEN "TimedOut" ELSE "Completed"
    /\ UNCHANGED <<osVars, osError, cause, groupError, outcome, failure, boundary, final,
                   threadVars>>

\* The result of run_plugin_subprocess.
Finish ==
    /\ pc = "finish" /\ pc' = "plugin"
    /\ result' = IF outcome # "Ok" THEN outcome
                 ELSE IF elapsed = "yes" THEN "TimedOut"
                 ELSE IF \E s \in Streams : capture[s] = "cut" THEN "Failed" ELSE "Completed"
    /\ UNCHANGED <<osVars, osError, cause, groupError, outcome, failure, boundary, final,
                   threadVars>>

\* enforce_execution_boundary.
Enforce(r) == IF boundary = "unused" /\ r \in {"Completed", "Failed"} THEN "Failed" ELSE r

\* Mutation of Classify: expiry hides a failed cleanup.
ClassifyDeadlineFirst(expired, returned) ==
    Enforce(IF expired = "yes" THEN "TimedOut"
            ELSE IF failure = "yes" THEN "Failed" ELSE returned)

\* The classification at the end of run_plugin_cooperative.
Classify(expired, returned) ==
    Enforce(IF failure = "yes" THEN "Failed"
            ELSE IF expired = "yes" THEN "TimedOut" ELSE returned)

\* The plugin passes the supervisor's result on, cancelling its own context
\* after a nested deadline (FeedbackPostProcessor::process); it may also fail
\* or panic by itself.
PluginReturns ==
    /\ pc = "plugin" /\ pc' = "returned"
    /\ outer' = IF result = "TimedOut" THEN "yes" ELSE outer
    /\ \E returned \in {"Failed", "Panicked"} \cup (IF result = "Completed" THEN {result} ELSE {}) :
          final' = Classify(outer', returned)
    /\ UNCHANGED <<child, group, killed, descendant, elapsed, osError, cause, groupError,
                   outcome, failure, boundary, result, threadVars>>

-----------------------------------------------------------------------------
(* The other threads and processes.                                        *)

\* Somebody holds the write end of the pipes.
PipeOpen == child = "running" \/ descendant \in {"group", "escaped", "dying"}

\* read_capped: end of file; WouldBlock and then the stop flag; a read error.
ReadCapped(s) ==
    /\ \/ /\ reader[s] = "reading"
          /\ \/ ~PipeOpen /\ reader' = [reader EXCEPT ![s] = "done"]
                /\ capture' = [capture EXCEPT ![s] = "whole"]
             \/ PipeOpen /\ reader' = [reader EXCEPT ![s] = "blocked"] /\ UNCHANGED capture
       \/ /\ reader[s] = "blocked"
          /\ IF stop[s] = "yes"
             THEN /\ reader' = [reader EXCEPT ![s] = "done"]
                  /\ capture' = [capture EXCEPT ![s] = "cut"]
             ELSE reader' = [reader EXCEPT ![s] = "reading"] /\ UNCHANGED capture
    /\ UNCHANGED <<osVars, osError, pc, runVars, stop, waiter>>

ReadFails(s) ==
    /\ reader[s] = "reading"
    /\ reader' = [reader EXCEPT ![s] = "done"] /\ capture' = [capture EXCEPT ![s] = "cut"]
    /\ osError' = "yes"
    /\ UNCHANGED <<osVars, pc, runVars, stop, waiter>>

\* The thread of spawn_late_reaper.
LateReaper ==
    /\ waiter = "waiting" /\ child = "zombie"
    /\ waiter' = "done" /\ child' = "reaped"
    /\ UNCHANGED <<group, killed, descendant, elapsed, outer, osError, pc, runVars, reader,
                   capture, stop>>

\* The child exits, forks, or changes its group; the descendant leaves the group
\* or ends.  A killed process runs no more code.
ProcessSteps ==
    /\ \/ child = "running" /\ child' = "zombie" /\ UNCHANGED <<group, descendant>>
       \/ /\ child = "running" /\ killed = "no" /\ descendant = "none"
          /\ descendant' = IF group = "own" THEN "group" ELSE "escaped"
          /\ UNCHANGED <<child, group>>
       \/ child = "running" /\ killed = "no" /\ group' = "other" /\ UNCHANGED <<child, descendant>>
       \/ descendant = "group" /\ descendant' = "escaped" /\ UNCHANGED <<child, group>>
       \/ /\ descendant \in {"group", "escaped", "dying"} /\ descendant' = "dead"
          /\ UNCHANGED <<child, group>>
    /\ UNCHANGED <<killed, elapsed, outer, osError, pc, runVars, threadVars>>

\* The nested deadline is never later than the plugin's own (bounded_by).
Expire ==
    /\ \/ elapsed = "no" /\ elapsed' = "yes" /\ UNCHANGED outer
       \/ elapsed = "yes" /\ outer = "no" /\ outer' = "yes" /\ UNCHANGED elapsed
    /\ UNCHANGED <<child, group, killed, descendant, osError, pc, runVars, threadVars>>

Finalizer ==
    \/ Enter \/ Body \/ Spawn \/ Setup \/ StartStdout \/ StartStderr \/ Poll \/ CleanGroup
    \/ Reap \/ KillGroup \/ KillChild \/ WaitExit \/ Join \/ Finish \/ PluginReturns

Next ==
    \/ Finalizer \/ PollFails
    \/ \E s \in Streams : ReadCapped(s) \/ ReadFails(s)
    \/ LateReaper \/ ProcessSteps \/ Expire

Spec == Init /\ [][Next]_vars

(***************************************************************************)
(* The finalizer, the readers and the delayed reaper run, and deadlines    *)
(* pass.  Nothing is assumed of the child and its descendant: a process    *)
(* that SIGKILL does not end is left to the grace.                         *)
(***************************************************************************)
Fairness ==
    /\ WF_vars(Finalizer) /\ WF_vars(LateReaper) /\ WF_vars(Expire)
    /\ \A s \in Streams : WF_vars(ReadCapped(s))

-----------------------------------------------------------------------------
(* Properties.                                                             *)

(***************************************************************************)
(* Signals go only to an unreaped child and its group: the identifier      *)
(* cannot have been reused (child_exited_unreaped, "avoiding a kill-after- *)
(* reap PID-reuse race").                                                  *)
(***************************************************************************)
SignalsOwnedGroup ==
    pc \in {"clean", "killGroup", "killChild"} => child \in {"running", "zombie"}

(***************************************************************************)
(* When the pipeline goes on, no reader thread is left; after a Completed  *)
(* or TimedOut result the child is reaped and no descendant survives in    *)
(* its group, whichever deadline passed when ("TimedOut is only safe to    *)
(* report after the direct child has been reaped"); and a Completed        *)
(* subprocess was read to the end of both streams: output cut off by the   *)
(* drain grace or a read error is never taken for the whole.               *)
(***************************************************************************)
ResultIsTrue ==
    /\ pc = "returned" =>
          /\ \A s \in Streams : reader[s] \in {"none", "done"}
          /\ final \in {"Completed", "TimedOut"} => child \in {"none", "reaped"} /\ descendant # "group"
    /\ result = "Completed" /\ boundary = "started" => \A s \in Streams : capture[s] = "whole"

(***************************************************************************)
(* A call that was made returns whatever the process does: hang, fork,     *)
(* escape with the pipes open, or survive SIGKILL past the grace.          *)
(***************************************************************************)
SupervisorReturns == (pc # "enter") ~> (pc = "returned")

=============================================================================
