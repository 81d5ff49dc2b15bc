----------------------------- MODULE MCCapture -----------------------------
(* Both capture backends with the code's retry limit and every trigger on. *)
EXTENDS WorkerCapture

MCEnabledKinds == {"Crash", "Snapshot", "Anr"}
MCCollectors == <<"task", "owned", "task">>

=============================================================================
