-------------------------- MODULE MCFinalization --------------------------
(***************************************************************************)
(* The finalizer threads, and one plugin process that such a thread runs.  *)
(* Finalization sees of a plugin only that it may hang, so the initial     *)
(* state chooses the part that runs.  Four events: the queue of two        *)
(* overflows while one event is in work.                                   *)
(***************************************************************************)
EXTENDS Finalization, PluginSubprocess

VARIABLE part   \* "threads" or "plugin"

finalizerVars == <<part, finalizationVars, vars>>

Threads(step) == part = "threads" /\ step /\ UNCHANGED <<part, vars>>
Plugin(step) == part = "plugin" /\ step /\ UNCHANGED <<part, finalizationVars>>

FinalizerInit == part \in {"threads", "plugin"} /\ FinalizationInit /\ Init

FinalizerNext == Threads(FinalizationNext) \/ Plugin(Next)

\* FinalizationFairness and Fairness, of the part that runs.
FinalizerSpec ==
    /\ FinalizerInit /\ [][FinalizerNext]_finalizerVars
    /\ WF_finalizerVars(Threads(main # "loop" /\ Main))
    /\ WF_finalizerVars(Plugin(Finalizer))
    /\ WF_finalizerVars(Plugin(LateReaper))
    /\ WF_finalizerVars(Plugin(Expire))
    /\ \A s \in Streams : WF_finalizerVars(Plugin(ReadCapped(s)))

=============================================================================
