------------------------------- MODULE Launch -------------------------------
(***************************************************************************)
(* The monitor process around Supervisor: run_monitor up to the spawn      *)
(* (src/main.rs), the shared-memory name it creates                        *)
(* (src/platform/macos/ffi/shm.rs), the spawn and the parent-death         *)
(* guardian (src/platform/macos/ffi/spawn.rs).  The monitor may be killed  *)
(* at any moment; the guardian, a forked process that reads a pipe whose   *)
(* other end only the monitor holds, then kills the child's process group  *)
(* and unlinks the name.                                                   *)
(***************************************************************************)
EXTENDS Supervisor

VARIABLES
    name,       \* the SHM name: "none", "pending" (of a PendingShm), "linked" or "unlinked"
    guardian,   \* "none", "waiting" in read(2), or "gone"
    pipe,       \* to the guardian: "none", "open", "disarmed" or "eof"
    outlived    \* a detached worker still holds the mapping at exit

launchVars == <<vars, name, guardian, pipe, outlived>>
guardVars == <<name, guardian, pipe, outlived>>

LaunchTypeOK ==
    /\ name \in {"none", "pending", "linked", "unlinked"}
    /\ guardian \in {"none", "waiting", "gone"}
    /\ pipe \in {"none", "open", "disarmed", "eof"}
    /\ outlived \in BOOLEAN

LaunchInit ==
    /\ Fresh
    /\ child = "none" /\ port = "destroyed" /\ pc = "start"
    /\ name = "none" /\ guardian = "none" /\ pipe = "none" /\ outlived = FALSE

-----------------------------------------------------------------------------
(* run_monitor before the spawn.                                           *)

\* A step of the prelude that leaves Supervisor's other state alone.
Prelude(from, to) ==
    /\ pc = from /\ pc' = to
    /\ UNCHANGED <<posted, outcome, found, cleanup, lost, control, ticket, handed, code, reapFor, guard,
                   osError, asked, status, inPort, inChannel, inLoop, channel, faults>>

\* EXIT_MONITOR_INTERNAL: the locals created so far are dropped.
StartupFails ==
    /\ pc \in {"start", "port", "environment", "spawn"}
    /\ outcome' = "failure" /\ pc' = "code"
    /\ UNCHANGED <<kernelVars, posted, found, cleanup, lost, control, ticket, handed, code, reapFor, guard,
                   osError, asked, guardVars>>

\* The entitlement, the configuration and the signal pipe.
CheckStartup == Prelude("start", "port") /\ UNCHANGED <<child, port, guardVars>>

CreateExceptionPort ==
    /\ Prelude("port", "shm")
    /\ port' = "open"
    /\ UNCHANGED <<child, guardVars>>

\* Reporting is disabled, or every name of open_exclusive_shm is taken: the
\* monitor continues without shared memory.
NoSharedMemory == Prelude("shm", "environment") /\ UNCHANGED <<child, port, guardVars>>

\* open_exclusive_shm: a PendingShm owns the new name.
OpenExclusiveShm ==
    /\ Prelude("shm", "map")
    /\ name' = "pending"
    /\ UNCHANGED <<child, port, guardian, pipe, outlived>>

\* create_shared_memory: sized, validated, mapped and initialized; the
\* ShmMapping owns the name.
PublishMapping ==
    /\ Prelude("map", "environment")
    /\ name' = "linked"
    /\ UNCHANGED <<child, port, guardian, pipe, outlived>>

\* Mutation of DropPendingShm: the failed creator keeps its name.
DropPendingShmKeepsName == Prelude("map", "environment") /\ UNCHANGED <<child, port, guardVars>>

\* One of these calls fails: PendingShm unlinks its name, and the monitor
\* continues without shared memory.
DropPendingShm ==
    /\ Prelude("map", "environment")
    /\ name' = "unlinked"
    /\ UNCHANGED <<child, port, guardian, pipe, outlived>>

\* The child's environment, the pipeline and the recovery of artifacts.
BuildPipeline == Prelude("environment", "spawn") /\ UNCHANGED <<child, port, guardVars>>

\* spawn_with_exception_port_impl: the child leads a group of its own.
SpawnChild ==
    /\ Prelude("spawn", "adopt")
    /\ child' = "running"
    /\ UNCHANGED <<port, guardVars>>

Startup ==
    \/ CheckStartup \/ CreateExceptionPort \/ NoSharedMemory \/ OpenExclusiveShm
    \/ PublishMapping \/ DropPendingShm \/ BuildPipeline \/ SpawnChild \/ StartupFails

-----------------------------------------------------------------------------
(* The guardian.                                                           *)

\* ParentDeathGuard::install is part of Adopt.
Install(step) ==
    /\ step
    /\ IF guard = "none" /\ guard' = "owned"
       THEN guardian' = "waiting" /\ pipe' = "open"
       ELSE UNCHANGED <<guardian, pipe>>

\* disarm is due: from mark_reaped, or when the group is dropped.
DisarmDue == guardian = "waiting" /\ pipe = "open" /\ (guard = "reaped" \/ pc = "last")

\* One byte and the close; the monitor then waits for the guardian.
Disarm ==
    /\ DisarmDue /\ pc # "dead"
    /\ pipe' = "disarmed"
    /\ UNCHANGED <<vars, name, guardian, outlived>>

GuardianExits ==
    /\ guardian = "waiting" /\ pipe = "disarmed"
    /\ guardian' = "gone"
    /\ UNCHANGED <<vars, name, pipe, outlived>>

\* Mutation of GuardianFires: the name is left to the monitor.
GuardianFiresKillOnly ==
    /\ guardian = "waiting" /\ pipe = "eof"
    /\ SignalGroup("KILL")
    /\ guardian' = "gone"
    /\ UNCHANGED <<kernelVars, pc, resultVars, reapFor, guard, osError, asked, name, pipe, outlived>>

\* Mutation of GuardianFires: the group is asked to terminate.
GuardianFiresTerm ==
    /\ guardian = "waiting" /\ pipe = "eof"
    /\ SignalGroup("TERM")
    /\ name' = IF name = "linked" THEN "unlinked" ELSE name
    /\ guardian' = "gone"
    /\ UNCHANGED <<kernelVars, pc, resultVars, reapFor, guard, osError, asked, pipe, outlived>>

\* End of file: the monitor is gone.
GuardianFires ==
    /\ guardian = "waiting" /\ pipe = "eof"
    /\ SignalGroup("KILL")
    /\ name' = IF name = "linked" THEN "unlinked" ELSE name
    /\ guardian' = "gone"
    /\ UNCHANGED <<kernelVars, pc, resultVars, reapFor, guard, osError, asked, pipe, outlived>>

\* read(2) fails with another error than EINTR.
GuardianReadFails ==
    /\ guardian = "waiting"
    /\ SignalGroup("KILL")
    /\ name' = IF name = "linked" THEN "unlinked" ELSE name
    /\ guardian' = "gone" /\ osError' = "yes"
    /\ UNCHANGED <<kernelVars, pc, resultVars, reapFor, guard, asked, pipe, outlived>>

-----------------------------------------------------------------------------
(* The monitor runs, exits or is killed.                                   *)

Blocked == DisarmDue \/ (guardian = "waiting" /\ pipe = "disarmed")

\* ShmMapping is dropped with the last Arc: at the end of run_monitor, unless
\* a detached worker has the pipeline when the process exits.
Release ==
    IF pc' = "exit"
    THEN \E held \in IF channel = "open" THEN BOOLEAN ELSE {FALSE} :
            /\ outlived' = held
            /\ name' = IF name = "linked" /\ ~held THEN "unlinked" ELSE name
    ELSE UNCHANGED <<name, outlived>>

Supervise(step) == ~Blocked /\ Install(step) /\ Release

\* SIGKILL, or a panic that aborts: the kernel closes what the monitor holds.
MonitorDies ==
    /\ pc \notin {"exit", "dead"}
    /\ pc' = "dead"
    /\ DestroyPort
    /\ inChannel' = 0 /\ inLoop' = 0 /\ channel' = "closed"
    /\ pipe' = IF pipe = "open" THEN "eof" ELSE pipe
    /\ UNCHANGED <<child, status, faults, posted, resultVars, reapFor, guard, osError, asked, name,
                   guardian, outlived>>

Event == Fault \/ Receive \/ \E s \in Statuses : ChildEnds(s)

LaunchNext ==
    \/ Startup \/ Disarm \/ MonitorDies
    \/ Supervise(Proceed) \/ Supervise(WaitFails) \/ Supervise(LoopEvent)
    \/ GuardianExits \/ GuardianFires \/ GuardianReadFails
    \/ Event /\ UNCHANGED guardVars

\* The monitor's thread and the guardian run, and the kernel kills.
LaunchSpec ==
    /\ LaunchInit /\ [][LaunchNext]_launchVars
    /\ WF_launchVars(Supervise(Proceed) \/ Disarm)
    /\ WF_launchVars(GuardianExits \/ GuardianFires)
    /\ WF_launchVars(KillTakesEffect /\ UNCHANGED guardVars)

-----------------------------------------------------------------------------
(* Properties.                                                             *)

(***************************************************************************)
(* However the monitor ends, nothing of it stays.  One that exits by       *)
(* itself, from startup errors on, has unlinked the shared-memory name it  *)
(* created, unless a detached worker held the mapping.  One that dies once *)
(* the guardian is installed, also in the middle of a cleanup, leaves      *)
(* neither the name nor the child's group without SIGKILL.                 *)
(***************************************************************************)
EndIsContained ==
    ((pc = "exit" /\ ~outlived) \/ (pc = "dead" /\ pipe = "eof")) ~>
        (name \in {"none", "unlinked"} /\ (pc = "dead" => "KILL" \in posted))

=============================================================================
