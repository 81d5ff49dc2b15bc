---------------------------- MODULE MCSupervisor ----------------------------
(***************************************************************************)
(* The life of the monitor process around one child, and the Mach rights   *)
(* of the exceptions the child raises.  The second part models the queue   *)
(* of exceptions for itself, so the initial state chooses the part that    *)
(* runs.                                                                   *)
(***************************************************************************)
EXTENDS Launch, ExceptionRights

VARIABLE part   \* "process" or "rights"

monitorVars == <<part, launchVars, rightsVars>>

Living(step) == part = "process" /\ step /\ UNCHANGED <<part, rightsVars>>
Owning(step) == part = "rights" /\ step /\ UNCHANGED <<part, launchVars>>

MonitorInit ==
    /\ part \in {"process", "rights"}
    /\ LaunchInit /\ RightsInit

MonitorNext == Living(LaunchNext) \/ Owning(RightsNext)

MonitorSpec ==
    /\ MonitorInit /\ [][MonitorNext]_monitorVars
    /\ WF_monitorVars(Living(Supervise(Proceed) \/ Disarm))
    /\ WF_monitorVars(Living(GuardianExits \/ GuardianFires))
    /\ WF_monitorVars(Living(KillTakesEffect /\ UNCHANGED guardVars))
    /\ WF_monitorVars(Owning(Listener))
    /\ WF_monitorVars(Owning(EventLoop))
    /\ WF_monitorVars(Owning(Collector))

\* A well-formed request with a thread state of 68 words, and one deviation
\* for each way the listener handles one.
Request ==
    [size |-> PackedSize(2, 68), id |-> ROUTINE, complex |-> TRUE, reply |-> "send-once",
     descriptors |-> "ports", ndr |-> "native", codes |-> 2, words |-> 68]
MCForms ==
    {Request, [Request EXCEPT !.codes = 3], [Request EXCEPT !.descriptors = "other"],
     [Request EXCEPT !.id = LARGEST_ID]}

=============================================================================
