-------------------------- MODULE CaptureContract --------------------------
(***************************************************************************)
(* What a capture promises about the monitored task, whatever backend runs *)
(* it: an outside inspector of the task exists only while the task is held *)
(* (or, for a crash whose suspension failed, only while the capture lasts);*)
(* the task is let go only after the inspector is gone; a task that cannot *)
(* be let go safely is kept, for ever, and monitoring ends.                *)
(***************************************************************************)

VARIABLES
    phase,      \* "open", "held", "loose" or "kept"
    inspector,  \* a process that inspects the task may be running
    open        \* the event loop still runs

cvars == <<phase, inspector, open>>

ContractInit == phase = "open" /\ inspector = FALSE /\ open = TRUE

Take(how) ==
    /\ phase = "open" /\ open /\ ~inspector
    /\ phase' = how
    /\ UNCHANGED <<inspector, open>>

Launch ==
    /\ phase \in {"held", "loose"} /\ ~inspector
    /\ inspector' = TRUE
    /\ UNCHANGED <<phase, open>>

Retire ==
    /\ inspector
    /\ inspector' = FALSE
    /\ UNCHANGED <<phase, open>>

LetGo ==
    /\ phase \in {"held", "loose"} /\ ~inspector
    /\ phase' = "open"
    /\ UNCHANGED <<inspector, open>>

Keep ==
    /\ phase \in {"held", "loose"}
    /\ phase' = "kept"
    /\ UNCHANGED <<inspector, open>>

Close ==
    /\ phase \in {"open", "kept"}
    /\ open' = FALSE
    /\ UNCHANGED <<phase, inspector>>

ContractNext ==
    \/ \E how \in {"held", "loose"} : Take(how)
    \/ Launch \/ Retire \/ LetGo \/ Keep \/ Close

Contract == ContractInit /\ [][ContractNext]_cvars

=============================================================================
