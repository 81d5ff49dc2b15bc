----------------------------- MODULE Supervisor -----------------------------
(***************************************************************************)
(* The lifecycle of one monitored child (src/main.rs: run_monitor,         *)
(* ChildProcessGroup, MonitorSupervisor) and the event loop's decisions    *)
(* (src/event_loop.rs): from a successful spawn to the monitor's exit      *)
(* status, with Mach exceptions raised at any time.                        *)
(*                                                                         *)
(* A child thread that raised an exception waits for the reply.  As the    *)
(* comment in run_monitor has it, such a child may be immune even to       *)
(* SIGKILL: it may die, but only a child without unanswered exceptions is  *)
(* bound to.  Deadlines may expire at any moment.                          *)
(***************************************************************************)
EXTENDS Naturals

CONSTANT MaxFaults    \* exceptions the child raises

ASSUME MaxFaultsAssumption == MaxFaults \in Nat

\* How a child ends: TerminationReason.
Exits == {"exit0", "exit1"}
Kills == {"SEGV", "TERM", "KILL"}
Statuses == Exits \cup Kills

\* 128 + signal.
SignalCode == [s \in Kills |-> CASE s = "SEGV" -> "128+SEGV" [] s = "TERM" -> "128+TERM" [] s = "KILL" -> "128+KILL"]
Codes == {"0", "70", "80", "81"} \cup {SignalCode[s] : s \in Kills}

VARIABLES
    \* The child and the kernel.
    child,      \* "none" before the spawn, "running", "zombie" or "reaped"
    status,     \* how it ended, or "none"
    posted,     \* signals sent to its process group
    inPort,     \* exception requests queued in the exception port
    inChannel,  \* requests received by the listener
    inLoop,     \* requests held by event_loop
    port,       \* exception port: "open" or "destroyed"
    channel,    \* the listener's channel: "none", "open" or "closed"
    faults,     \* exceptions raised so far
    \* The monitor.
    pc,         \* position in run_monitor
    outcome,    \* MonitorOutcome
    found,      \* the termination attached to the outcome, or "none"
    cleanup,    \* crash_cleanup_required: "yes" or "no"
    lost,       \* listener_loss_containment_required: "yes" or "no"
    control,    \* task control: "ok", "contained" or "exhausted"
    ticket,     \* crash_finalization: "none", "pending" or "done"
    handed,     \* the termination the fatal finalizer was given
    reapFor,    \* who called the reaping procedure
    guard,      \* ChildProcessGroup: "none", "owned" or "reaped"
    code,       \* exit status
    \* History.
    osError,    \* "yes" once killpg or waitpid failed
    asked       \* "yes" once a shutdown was requested

kernelVars == <<child, status, inPort, inChannel, inLoop, port, channel, faults>>
resultVars == <<outcome, found, cleanup, lost, control, ticket, handed, code>>
vars == <<kernelVars, posted, pc, resultVars, reapFor, guard, osError, asked>>

TypeOK ==
    /\ child \in {"none", "running", "zombie", "reaped"}
    /\ status \in Statuses \cup {"none"}
    /\ posted \subseteq {"TERM", "KILL"}
    /\ inPort \in 0 .. MaxFaults /\ inChannel \in 0 .. MaxFaults /\ inLoop \in 0 .. 1
    /\ port \in {"open", "destroyed"}
    /\ channel \in {"none", "open", "closed"}
    /\ faults \in 0 .. MaxFaults
    /\ pc \in {"adopt", "acquire", "setup", "loop", "reply", "returned", "contain", "escalate",
               "grace", "killed", "failed", "handoff", "code", "drop", "last", "exit"}
    /\ outcome \in {"none", "terminated", "crash", "shutdown", "failure"}
    /\ found \in Statuses \cup {"none"}
    /\ cleanup \in {"yes", "no"} /\ lost \in {"yes", "no"}
    /\ control \in {"ok", "contained", "exhausted"}
    /\ ticket \in {"none", "pending", "done"}
    /\ handed \in Statuses \cup {"none"}
    /\ reapFor \in {"none", "unowned", "unmonitorable", "shutdown", "containment", "drop"}
    /\ guard \in {"none", "owned", "reaped"}
    /\ code \in Codes \cup {"none"}
    /\ osError \in {"yes", "no"} /\ asked \in {"yes", "no"}

\* Nothing has happened yet.
Fresh ==
    /\ status = "none" /\ posted = {}
    /\ inPort = 0 /\ inChannel = 0 /\ inLoop = 0
    /\ channel = "none" /\ faults = 0
    /\ outcome = "none" /\ found = "none"
    /\ cleanup = "no" /\ lost = "no" /\ control = "ok"
    /\ ticket = "none" /\ handed = "none" /\ reapFor = "none"
    /\ guard = "none" /\ code = "none" /\ osError = "no" /\ asked = "no"

\* The child has been spawned with the exception port.
Init == Fresh /\ child = "running" /\ port = "open" /\ pc = "adopt"

Unanswered == inPort + inChannel + inLoop

-----------------------------------------------------------------------------
(* The child and the kernel.                                               *)

\* A thread of the child faults; without a port the fault is a fatal signal.
Fault ==
    /\ child = "running" /\ faults < MaxFaults
    /\ faults' = faults + 1
    /\ IF port = "open"
       THEN inPort' = inPort + 1 /\ UNCHANGED <<child, status>>
       ELSE child' = "zombie" /\ status' = "SEGV" /\ UNCHANGED inPort
    /\ UNCHANGED <<posted, inChannel, inLoop, port, channel, pc, resultVars, reapFor, guard, osError, asked>>

\* The child ends: by itself, by a signal it was sent, by an answered
\* exception, or because its task was terminated.
ChildEnds(s) ==
    /\ child = "running"
    /\ \/ s \in Exits
       \/ s = "SEGV" /\ faults > Unanswered
       \/ s \in posted
       \/ s = "KILL" /\ control = "contained"
    /\ child' = "zombie" /\ status' = s
    /\ UNCHANGED <<posted, inPort, inChannel, inLoop, port, channel, faults, pc, resultVars, reapFor,
                   guard, osError, asked>>

\* The listener receives a request.  A closed channel ends the listener, and
\* the request is destroyed with it.
Receive ==
    /\ inPort > 0 /\ port = "open" /\ channel # "none" /\ lost = "no"
    /\ inPort' = inPort - 1
    /\ inChannel' = IF channel = "open" THEN inChannel + 1 ELSE inChannel
    /\ UNCHANGED <<child, status, posted, inLoop, port, channel, faults, pc, resultVars, reapFor, guard,
                   osError, asked>>

\* Destroying the receive right destroys the requests queued in it.
DestroyPort == port' = "destroyed" /\ inPort' = 0

-----------------------------------------------------------------------------
(* ChildProcessGroup.                                                      *)

\* signal: killpg; an empty group is no error.
SignalGroup(s) == posted' = posted \cup {s}

\* waitpid(WNOHANG) returns the status.
Reap == child = "zombie" /\ child' = "reaped"

\* Where the caller of a reaping procedure continues.
AfterReap ==
    CASE reapFor \in {"unowned", "unmonitorable"} -> "code"
      [] reapFor = "shutdown" -> "contain"
      [] reapFor = "containment" -> "handoff"
      [] reapFor = "drop" -> "last"

\* terminate_and_reap: the first signal, then the grace deadline.
TerminateAndReap(s, for) ==
    /\ reapFor' = for
    /\ \/ SignalGroup(s) /\ pc' = "grace" /\ UNCHANGED osError
       \/ pc' = "failed" /\ osError' = "yes" /\ UNCHANGED posted

\* poll_until_deadline finds the child terminated: reap_after_crash and
\* terminate_and_reap mark the group reaped, and the caller continues.
ReapSucceeds ==
    /\ pc \in {"grace", "killed"}
    /\ Reap
    /\ guard' = IF guard = "owned" THEN "reaped" ELSE guard
    /\ pc' = AfterReap
    /\ found' = IF reapFor \in {"shutdown", "containment"} THEN status ELSE found
    /\ UNCHANGED <<status, posted, inPort, inChannel, inLoop, port, channel, faults, outcome, cleanup,
                   lost, control, ticket, handed, reapFor, code, osError, asked>>

\* Mutation of GraceExpires: the error is returned without SIGKILL.
GraceExpiresGivesUp ==
    /\ pc = "grace"
    /\ pc' = "failed"
    /\ UNCHANGED <<kernelVars, posted, resultVars, reapFor, guard, osError, asked>>

\* The grace deadline: SIGKILL, then the second deadline.
GraceExpires ==
    /\ pc = "grace"
    /\ \/ SignalGroup("KILL") /\ pc' = "killed" /\ UNCHANGED osError
       \/ pc' = "failed" /\ osError' = "yes" /\ UNCHANGED posted
    /\ UNCHANGED <<kernelVars, resultVars, reapFor, guard, asked>>

\* Mutation of KillExpires: the last wait is a blocking waitpid.
KillExpiresNever ==
    /\ pc = "killed" /\ child = "reaped"
    /\ pc' = "failed"
    /\ UNCHANGED <<kernelVars, posted, resultVars, reapFor, guard, osError, asked>>

\* The second deadline: the child did not terminate after SIGKILL.
KillExpires ==
    /\ pc = "killed"
    /\ pc' = "failed"
    /\ UNCHANGED <<kernelVars, posted, resultVars, reapFor, guard, osError, asked>>

\* waitpid fails.
WaitFails ==
    /\ pc \in {"grace", "killed"}
    /\ pc' = "failed" /\ osError' = "yes"
    /\ UNCHANGED <<kernelVars, posted, resultVars, reapFor, guard, asked>>

\* The caller of a reaping procedure that returned an error.
ReapFails ==
    /\ pc = "failed"
    /\ pc' = AfterReap
    /\ outcome' = IF reapFor = "shutdown" THEN "failure" ELSE outcome
    /\ UNCHANGED <<kernelVars, posted, found, cleanup, lost, control, ticket, handed, code, reapFor, guard,
                   osError, asked>>

-----------------------------------------------------------------------------
(* run_monitor, from the spawn to the event loop.                          *)

\* ChildProcessGroup::new; without it the child is killed and waited for.
Adopt ==
    /\ pc = "adopt"
    /\ \/ guard' = "owned" /\ pc' = "acquire"
          /\ UNCHANGED <<outcome, posted, reapFor, osError>>
       \/ /\ outcome' = "failure" /\ reapFor' = "unowned" /\ pc' = "killed"
          /\ \/ SignalGroup("KILL") /\ UNCHANGED osError
             \/ osError' = "yes" /\ UNCHANGED posted
          /\ UNCHANGED guard
    /\ UNCHANGED <<kernelVars, found, cleanup, lost, control, ticket, handed, code, asked>>

\* acquire_task_port_or_termination: the task port (the listener is started),
\* a terminated child, or the deadline, after which the child is terminated.
Acquire ==
    /\ pc = "acquire"
    /\ \/ /\ pc' = "setup" /\ channel' = "open"
          /\ UNCHANGED <<child, outcome, found, guard, reapFor, posted, osError>>
       \/ /\ Reap /\ guard' = "reaped"
          /\ outcome' = "terminated" /\ found' = status /\ pc' = "code"
          /\ UNCHANGED <<channel, reapFor, posted, osError>>
       \/ /\ TerminateAndReap("TERM", "unmonitorable")
          /\ outcome' = "failure"
          /\ UNCHANGED <<child, found, guard, channel>>
    /\ UNCHANGED <<status, inPort, inChannel, inLoop, port, faults, cleanup, lost, control, ticket, handed,
                   code, asked>>

\* The watchdog override and the event source; on error the locals are
\* dropped, the channel before the child.
Setup ==
    /\ pc = "setup"
    /\ \/ pc' = "loop" /\ UNCHANGED <<outcome, channel, inChannel>>
       \/ /\ pc' = "code" /\ outcome' = "failure"
          /\ channel' = "closed" /\ inChannel' = 0
    /\ UNCHANGED <<child, status, posted, inPort, inLoop, port, faults, found, cleanup, lost, control,
                   ticket, handed, code, reapFor, guard, osError, asked>>

-----------------------------------------------------------------------------
(* event_loop.                                                             *)

\* What a capture can do to task control (task_control_monitor_failure).
Capture == control' \in {"ok", "contained", "exhausted"}

\* Crash, not subscribed: rejected, or the reply fails and monitoring ends.
\* The request is destroyed either way.
IgnoredException ==
    /\ pc = "loop" /\ inChannel > 0
    /\ inChannel' = inChannel - 1
    /\ \/ UNCHANGED <<pc, outcome, cleanup>>
       \/ pc' = "returned" /\ outcome' = "failure" /\ cleanup' = "yes"
    /\ UNCHANGED <<child, status, posted, inPort, inLoop, port, channel, faults, found, lost, control,
                   ticket, handed, code, reapFor, guard, osError, asked>>

\* Crash, subscribed: captured if enabled.
CrashEvent ==
    /\ pc = "loop" /\ inChannel > 0
    /\ inChannel' = inChannel - 1 /\ inLoop' = 1
    /\ Capture
    /\ ticket' \in {"none", "pending"}
    /\ pc' = "reply"
    /\ UNCHANGED <<child, status, posted, inPort, port, channel, faults, outcome, found, cleanup, lost,
                   handed, code, reapFor, guard, osError, asked>>

\* The deferred reply; the request is dropped whether or not it was sent.
Reply ==
    /\ pc = "reply"
    /\ inLoop' = 0
    /\ cleanup' = "yes"
    /\ outcome' \in IF control = "ok" THEN {"crash", "failure"} ELSE {"failure"}
    /\ pc' = "returned"
    /\ UNCHANGED <<child, status, posted, inPort, inChannel, port, channel, faults, found, lost, control,
                   ticket, handed, code, reapFor, guard, osError, asked>>

\* Snapshot or ANR: a capture; task-control containment ends monitoring.
LiveCapture ==
    /\ pc = "loop"
    /\ Capture
    /\ IF control' = "ok"
       THEN UNCHANGED <<pc, outcome>>
       ELSE pc' = "returned" /\ outcome' = "failure"
    /\ UNCHANGED <<kernelVars, posted, found, cleanup, lost, ticket, handed, code, reapFor, guard, osError,
                   asked>>

ShutdownSignal ==
    /\ pc = "loop"
    /\ pc' = "returned" /\ outcome' = "shutdown" /\ asked' = "yes"
    /\ UNCHANGED <<kernelVars, posted, found, cleanup, lost, control, ticket, handed, code, reapFor, guard,
                   osError>>

\* ChildTerminated: poll has reaped the child.
ChildTerminated ==
    /\ pc = "loop"
    /\ Reap
    /\ pc' = "returned" /\ outcome' = "terminated" /\ found' = status
    /\ UNCHANGED <<status, posted, inPort, inChannel, inLoop, port, channel, faults, cleanup, lost, control,
                   ticket, handed, code, reapFor, guard, osError, asked>>

\* ListenerFailure.
ListenerFailure ==
    /\ pc = "loop"
    /\ pc' = "returned" /\ outcome' = "failure" /\ lost' = "yes"
    /\ UNCHANGED <<kernelVars, posted, found, cleanup, control, ticket, handed, code, reapFor, guard,
                   osError, asked>>

\* MonitorFailure: the event source failed.
MonitorFailure ==
    /\ pc = "loop"
    /\ pc' = "returned" /\ outcome' = "failure"
    /\ UNCHANGED <<kernelVars, posted, found, cleanup, lost, control, ticket, handed, code, reapFor, guard,
                   osError, asked>>

-----------------------------------------------------------------------------
(* run_monitor, after the event loop.                                      *)

\* Mutation of Returned: a terminated child is not marked reaped.
ReturnedForgets ==
    /\ pc = "returned"
    /\ IF outcome = "shutdown"
       THEN TerminateAndReap("TERM", "shutdown")
       ELSE pc' = "contain" /\ UNCHANGED <<reapFor, posted, osError>>
    /\ UNCHANGED <<kernelVars, resultVars, guard, asked>>

\* A terminated child is marked reaped; a shutdown is forwarded.
Returned ==
    /\ pc = "returned"
    /\ IF outcome = "shutdown"
       THEN TerminateAndReap("TERM", "shutdown") /\ UNCHANGED guard
       ELSE /\ pc' = "contain"
            /\ guard' = IF outcome = "terminated" THEN "reaped" ELSE guard
            /\ UNCHANGED <<reapFor, posted, osError>>
    /\ UNCHANGED <<kernelVars, resultVars, asked>>

MustReap == cleanup = "yes" \/ control # "ok" \/ lost = "yes"

\* The exception port of a child that must go is destroyed first.
Contain ==
    /\ pc = "contain"
    /\ IF MustReap
       THEN DestroyPort /\ pc' = "escalate"
       ELSE pc' = "code" /\ UNCHANGED <<port, inPort>>
    /\ UNCHANGED <<child, status, posted, inChannel, inLoop, channel, faults, resultVars, reapFor, guard,
                   osError, asked>>

\* SIGKILL when the listener or task control is lost; reap_after_crash follows,
\* without a grace if the signal was sent.
Escalate ==
    /\ pc = "escalate"
    /\ reapFor' = "containment"
    /\ \/ /\ lost = "yes" \/ control = "exhausted"
          /\ SignalGroup("KILL") /\ pc' = "killed"
          /\ UNCHANGED osError
       \/ /\ lost = "yes" \/ control = "exhausted"
          /\ osError' = "yes" /\ pc' = "grace"
          /\ UNCHANGED posted
       \/ /\ lost = "no" /\ control # "exhausted"
          /\ pc' = "grace"
          /\ UNCHANGED <<posted, osError>>
    /\ UNCHANGED <<kernelVars, resultVars, guard, asked>>

\* Mutation of Handoff: only a crash outcome completes its report.
HandoffCrashOnly ==
    /\ pc = "handoff"
    /\ IF ticket = "pending" /\ outcome = "crash"
       THEN ticket' = "done" /\ handed' = found
       ELSE UNCHANGED <<ticket, handed>>
    /\ pc' = "code"
    /\ UNCHANGED <<kernelVars, posted, outcome, found, cleanup, lost, control, code, reapFor, guard, osError,
                   asked>>

\* The fatal finalizer is given the termination, or None.
Handoff ==
    /\ pc = "handoff"
    /\ IF ticket = "pending"
       THEN ticket' = "done" /\ handed' = found
       ELSE UNCHANGED <<ticket, handed>>
    /\ pc' = "code"
    /\ UNCHANGED <<kernelVars, posted, outcome, found, cleanup, lost, control, code, reapFor, guard, osError,
                   asked>>

\* Mutation of ExitCode: a crash is ranked by its wait status alone.
ExitCodeStatusOnly ==
    IF outcome = "failure" THEN "70"
    ELSE IF outcome = "shutdown" THEN SignalCode["TERM"]
    ELSE CASE found \in Kills -> SignalCode[found]
           [] found = "exit1" -> "80"
           [] found = "exit0" -> "0"
           [] found = "none" -> "81"

\* MonitorOutcome::exit_code.
ExitCode ==
    IF outcome = "failure" THEN "70"
    ELSE IF outcome = "shutdown" THEN SignalCode["TERM"]
    ELSE CASE found \in Kills -> SignalCode[found]
           [] found = "exit1" -> "80"
           [] outcome = "terminated" /\ found = "exit0" -> "0"
           [] outcome = "crash" /\ found \in {"exit0", "none"} -> "81"

\* run_monitor's value; its locals are dropped.
ComputeCode ==
    /\ pc = "code"
    /\ code' = ExitCode
    /\ pc' = "drop"
    /\ UNCHANGED <<kernelVars, posted, outcome, found, cleanup, lost, control, ticket, handed, reapFor,
                   guard, osError, asked>>

\* MonitorSupervisor is dropped: the exception port, then the child (a child
\* that was not reaped is terminated).  Before there is a supervisor only the
\* child group is dropped here.
Drop ==
    /\ pc = "drop"
    /\ IF channel = "open" THEN DestroyPort ELSE UNCHANGED <<port, inPort>>
    /\ IF guard = "owned"
       THEN TerminateAndReap("TERM", "drop")
       ELSE pc' = "last" /\ UNCHANGED <<reapFor, posted, osError>>
    /\ UNCHANGED <<child, status, inChannel, inLoop, channel, faults, resultVars, guard, asked>>

\* What is left is dropped, and the monitor exits.
DropLast ==
    /\ pc = "last"
    /\ DestroyPort
    /\ channel' = "closed" /\ inChannel' = 0
    /\ pc' = "exit"
    /\ UNCHANGED <<child, status, posted, inLoop, faults, resultVars, reapFor, guard, osError, asked>>

-----------------------------------------------------------------------------

\* Steps of the monitor that wait for no event.
Proceed ==
    \/ Adopt \/ Acquire \/ Setup \/ Reply
    \/ ReapSucceeds \/ GraceExpires \/ KillExpires \/ ReapFails
    \/ Returned \/ Contain \/ Escalate \/ Handoff \/ ComputeCode \/ Drop \/ DropLast

LoopEvent ==
    \/ IgnoredException \/ CrashEvent \/ LiveCapture \/ ShutdownSignal
    \/ ChildTerminated \/ ListenerFailure \/ MonitorFailure

Next ==
    \/ Proceed \/ WaitFails \/ LoopEvent
    \/ Fault \/ Receive \/ \E s \in Statuses : ChildEnds(s)

Spec == Init /\ [][Next]_vars

\* SIGKILL ends a child without unanswered exceptions.
KillTakesEffect == "KILL" \in posted /\ Unanswered = 0 /\ ChildEnds("KILL")

\* The monitor's thread runs, and the kernel kills.  The monitor's errors are
\* possible, never due.
FairSpec == Spec /\ WF_vars(Proceed) /\ WF_vars(KillTakesEffect)

-----------------------------------------------------------------------------
(* Properties.                                                             *)

(***************************************************************************)
(* What the monitor tells is what happened.  The exit status               *)
(* (docs/reports.md), unless a shutdown was requested: 0 only for a child  *)
(* that exited with 0 and had no captured crash, 80 and 128 + signal only  *)
(* for the child's own status, 81 only for a crash without a signal.  The  *)
(* evidence of a captured crash, always handed over before the exit, also  *)
(* when the outcome is a monitor failure: with the child's status if and   *)
(* only if the child was reaped for it.                                    *)
(***************************************************************************)
ExitIsHonest ==
    /\ pc = "exit" /\ asked = "no" =>
          /\ code = "0" => status = "exit0" /\ child = "reaped" /\ cleanup = "no"
          /\ code = "80" => status = "exit1"
          /\ code = "81" => cleanup = "yes" /\ found \in {"none", "exit0"}
          /\ \A s \in Kills : code = SignalCode[s] => status = s
    /\ pc = "exit" => ticket # "pending"
    /\ ticket = "done" /\ handed # "none" => handed = status /\ child = "reaped"
    /\ pc = "exit" /\ ticket = "done" /\ handed = "none" => found = "none"

(***************************************************************************)
(* The child never outlives its monitor: when run_monitor returns, by      *)
(* whatever path, the child is reaped, or SIGKILL is pending and no        *)
(* exception keeps the child from it; unless killpg or waitpid failed.     *)
(***************************************************************************)
NoOrphan ==
    pc = "exit" /\ osError = "no" =>
        child \in {"none", "reaped"} \/ ("KILL" \in posted /\ Unanswered = 0)

(***************************************************************************)
(* A living monitor sends no signal to the process group once the child is *)
(* reaped, when its id may belong to another group, and neither does its   *)
(* guardian, unless a system call of theirs has failed.                    *)
(***************************************************************************)
NoSignalAfterReap ==
    [][child = "reaped" /\ pc # "dead" /\ osError' = "no" => posted' = posted]_vars

(***************************************************************************)
(* Every reaping procedure is bounded: once the event loop has returned,   *)
(* the monitor exits, whatever the child does, unless it is killed.        *)
(***************************************************************************)
MonitorExits == (pc = "returned") ~> (pc \in {"exit", "dead"})

(***************************************************************************)
(* Monitor and child never wait for each other for good, though "the child *)
(* gets stuck in an uninterruptible Mach exception wait, immune to even    *)
(* SIGKILL" (run_monitor), and the monitor may begin to wait with requests *)
(* of other threads in its channel, or, at a shutdown, with the port open: *)
(* a child that runs when its monitor leaves the event loop, fails to set  *)
(* it up, or is killed, comes to its end, unless a system call failed.     *)
(***************************************************************************)
ChildIsReleased ==
    (child = "running" /\ guard = "owned" /\ pc \in {"returned", "code", "dead"}) ~>
        (child # "running" \/ osError = "yes")

=============================================================================
