--------------------------- MODULE Launch_proofs ---------------------------
(***************************************************************************)
(* Proofs about the life of the monitor and its child, for any number of   *)
(* exceptions the child raises.                                            *)
(***************************************************************************)
EXTENDS Launch, TLAPS

Startups == {"start", "port", "shm", "map", "environment", "spawn"}
Monitoring == {"adopt", "acquire", "setup", "loop", "reply"}
Reaping == {"grace", "killed", "failed"}
Exiting == {"code", "drop", "last", "exit"}
Places ==
    Startups \cup Monitoring \cup Reaping \cup Exiting
        \cup {"returned", "contain", "escalate", "handoff", "dead"}

\* The values the arguments below tell apart.
Values ==
    /\ child \in {"none", "running", "zombie", "reaped"}
    /\ status \in Statuses \cup {"none"}
    /\ found \in Statuses \cup {"none"}
    /\ pc \in Places
    /\ outcome \in {"none", "terminated", "crash", "shutdown", "failure"}
    /\ ticket \in {"none", "pending", "done"}
    /\ guard \in {"none", "owned", "reaped"}
    /\ reapFor \in {"none", "unowned", "unmonitorable", "shutdown", "containment", "drop"}
    /\ cleanup \in {"yes", "no"} /\ lost \in {"yes", "no"}
    /\ inPort \in Nat /\ inChannel \in Nat /\ inLoop \in {0, 1}

\* Where the child can have been reaped, and who knows.
ChildInv ==
    /\ child = "none" => pc \in Startups \cup Exiting \cup {"dead"} /\ guard = "none"
    /\ pc \in Startups => child = "none"
    /\ child \in {"none", "running"} <=> status = "none"
    /\ pc \in Monitoring \cup Reaping \cup {"escalate"} => child # "reaped"
    /\ pc \in Startups \cup {"adopt"} => guard = "none"
    /\ guard = "none" => pc \in Startups \cup {"adopt", "dead"} \cup Exiting
                            \/ (pc \in {"killed", "failed"} /\ reapFor = "unowned")
    /\ guard = "reaped" => child = "reaped"
    /\ guard = "owned" /\ child = "reaped" =>
          pc = "dead" \/ (pc = "returned" /\ outcome = "terminated")
    /\ pc = "returned" => guard = "owned"
    /\ pc = "contain" /\ MustReap => child # "reaped"

\* Why the monitor is in a reaping procedure, and what was sent for it.
ReapInv ==
    /\ pc \in Reaping => reapFor # "none"
    /\ pc \in Startups \cup Monitoring \cup {"returned"} => reapFor = "none"
    /\ reapFor = "shutdown" => ~MustReap
    /\ reapFor = "containment" => MustReap
    /\ reapFor = "unowned" => pc \in {"killed", "failed", "dead"} \cup Exiting
    /\ reapFor = "drop" => pc \in Reaping \cup {"last", "exit", "dead"}
    /\ osError = "no" =>
          /\ pc \in {"killed", "failed"} => "KILL" \in posted
          /\ pc \in {"code", "drop"} /\ guard = "none" => child \in {"none", "reaped"} \/ "KILL" \in posted
          /\ pc \in {"last", "exit"} => child \in {"none", "reaped"} \/ "KILL" \in posted

\* Where exception requests can be.
PortInv ==
    /\ port \in {"open", "destroyed"} /\ (port = "destroyed" => inPort = 0)
    /\ inLoop = 0 \/ pc = "reply"
    /\ pc = "exit" => port = "destroyed" /\ inChannel = 0
    /\ child = "none" => inPort = 0

\* What the outcome and the attached termination stand for.
OutcomeInv ==
    /\ found # "none" => found = status /\ child = "reaped"
    /\ pc \in Startups \cup Monitoring => outcome = "none"
    /\ outcome = "terminated" => found # "none" /\ ~MustReap
    /\ outcome = "shutdown" => asked = "yes" /\ ~MustReap
    /\ outcome = "crash" => cleanup = "yes"
    /\ pc \in Startups \cup (Monitoring \ {"reply"}) => ~MustReap
    /\ pc = "escalate" => MustReap
    /\ pc = "reply" => cleanup = "no" /\ lost = "no"
    /\ pc \in {"returned", "contain", "escalate", "handoff"} \cup Exiting \cup Reaping =>
          outcome # "none"

\* Where the exit status and the evidence of a crash are settled.
EndInv ==
    /\ code # "none" =>
          /\ pc \in {"drop", "last", "exit", "dead"} \/ (pc \in Reaping /\ reapFor = "drop")
          /\ code = ExitCode
    /\ pc \in {"drop", "last", "exit"} \/ reapFor = "drop" => code # "none"
    /\ ticket = "pending" =>
          \/ pc \in {"reply", "dead"}
          \/ /\ cleanup = "yes"
             /\ pc \in {"returned", "contain", "escalate", "handoff"}
                  \/ (pc \in Reaping /\ reapFor = "containment")
    /\ ticket = "done" =>
          /\ pc \in Exiting \cup {"dead"} \/ (pc \in Reaping /\ reapFor = "drop")
          /\ handed = found

SupInv == Values /\ ChildInv /\ ReapInv /\ PortInv /\ OutcomeInv /\ EndInv
LaunchInv == SupInv /\ (pipe = "eof" => pc = "dead")

-----------------------------------------------------------------------------
(* The monitor's steps.                                                    *)

\* The exit status depends on the outcome and the attached termination only.
LEMMA ExitCodeSettled ==
    ASSUME UNCHANGED <<outcome, found>>
    PROVE  ExitCode' = ExitCode
BY DEF ExitCode

\* The steps that wait for no event keep the invariant.
LEMMA ProceedKeepsInv ==
    ASSUME SupInv, Proceed
    PROVE  SupInv'
<1> USE DEF SupInv, Values, kernelVars, resultVars, Startups, Monitoring, Reaping, Exiting, Places,
        Statuses, Exits, Kills, MustReap
<1>1. CASE Adopt
  <2> USE <1>1 DEF Adopt, SignalGroup
  <2>1. Values'  OBVIOUS
  <2>2. ChildInv'  BY DEF ChildInv, OutcomeInv, ReapInv
  <2>3. ReapInv'  BY DEF ReapInv, ChildInv, OutcomeInv
  <2>4. PortInv'  BY DEF PortInv, ChildInv
  <2>5. OutcomeInv'  BY DEF OutcomeInv, ReapInv, ChildInv
  <2>6. EndInv'  BY DEF EndInv, OutcomeInv, ReapInv, ExitCode
  <2> QED  BY <2>1, <2>2, <2>3, <2>4, <2>5, <2>6
<1>2. CASE Acquire
  <2> USE <1>2 DEF Acquire, Reap, TerminateAndReap, SignalGroup
  <2>1. Values'  OBVIOUS
  <2>2. ChildInv'  BY DEF ChildInv, OutcomeInv, ReapInv
  <2>3. ReapInv'  BY DEF ReapInv, ChildInv, OutcomeInv
  <2>4. PortInv'  BY DEF PortInv, ChildInv
  <2>5. OutcomeInv'  BY DEF OutcomeInv, ReapInv, ChildInv
  <2>6. EndInv'  BY DEF EndInv, OutcomeInv, ReapInv, ExitCode
  <2> QED  BY <2>1, <2>2, <2>3, <2>4, <2>5, <2>6
<1>3. CASE Setup
  <2> USE <1>3 DEF Setup
  <2>1. Values'  OBVIOUS
  <2>2. ChildInv'  BY DEF ChildInv, OutcomeInv, ReapInv
  <2>3. ReapInv'  BY DEF ReapInv, ChildInv, OutcomeInv
  <2>4. PortInv'  BY DEF PortInv, ChildInv
  <2>5. OutcomeInv'  BY DEF OutcomeInv, ReapInv, ChildInv
  <2>6. EndInv'  BY DEF EndInv, OutcomeInv, ReapInv, ExitCode
  <2> QED  BY <2>1, <2>2, <2>3, <2>4, <2>5, <2>6
<1>4. CASE Reply
  <2> USE <1>4 DEF Reply
  <2>1. Values'  OBVIOUS
  <2>2. ChildInv'  BY DEF ChildInv, OutcomeInv, ReapInv
  <2>3. ReapInv'  BY DEF ReapInv, ChildInv, OutcomeInv
  <2>4. PortInv'  BY DEF PortInv, ChildInv
  <2>5. OutcomeInv'  BY DEF OutcomeInv, ReapInv, ChildInv
  <2>6. EndInv'  BY DEF EndInv, OutcomeInv, ReapInv, ExitCode
  <2> QED  BY <2>1, <2>2, <2>3, <2>4, <2>5, <2>6
<1>5. CASE ReapSucceeds
  <2> USE <1>5 DEF ReapSucceeds, Reap, AfterReap
  <2>1. Values'  BY DEF ReapInv
  <2>2. ChildInv'  BY DEF ChildInv, OutcomeInv, ReapInv
  <2>3. ReapInv'  BY DEF ReapInv, ChildInv, OutcomeInv
  <2>4. PortInv'  BY DEF PortInv, ReapInv
  <2>5. OutcomeInv'  BY DEF OutcomeInv, ReapInv, ChildInv
  <2>6. EndInv'  BY DEF EndInv, OutcomeInv, ReapInv, ExitCode
  <2> QED  BY <2>1, <2>2, <2>3, <2>4, <2>5, <2>6, Zenon
<1>6. CASE GraceExpires
  <2> USE <1>6 DEF GraceExpires, SignalGroup
  <2>1. Values'  OBVIOUS
  <2>2. ChildInv'  BY DEF ChildInv, OutcomeInv, ReapInv
  <2>3. ReapInv'  BY DEF ReapInv, ChildInv, OutcomeInv
  <2>4. PortInv'  BY DEF PortInv, ChildInv
  <2>5. OutcomeInv'  BY DEF OutcomeInv, ReapInv, ChildInv
  <2>6. EndInv'  BY DEF EndInv, OutcomeInv, ReapInv, ExitCode
  <2> QED  BY <2>1, <2>2, <2>3, <2>4, <2>5, <2>6
<1>7. CASE KillExpires
  <2> USE <1>7 DEF KillExpires
  <2>1. Values'  OBVIOUS
  <2>2. ChildInv'  BY DEF ChildInv, OutcomeInv, ReapInv
  <2>3. ReapInv'  BY DEF ReapInv, ChildInv, OutcomeInv
  <2>4. PortInv'  BY DEF PortInv, ChildInv
  <2>5. OutcomeInv'  BY DEF OutcomeInv, ReapInv, ChildInv
  <2>6. EndInv'  BY DEF EndInv, OutcomeInv, ReapInv, ExitCode
  <2> QED  BY <2>1, <2>2, <2>3, <2>4, <2>5, <2>6
<1>8. CASE ReapFails
  <2> USE <1>8 DEF ReapFails, AfterReap
  <2>1. Values'  BY DEF ReapInv
  <2>2. ChildInv'  BY DEF ChildInv, OutcomeInv, ReapInv
  <2>3. ReapInv'  BY DEF ReapInv, ChildInv, OutcomeInv
  <2>4. PortInv'  BY DEF PortInv, ReapInv
  <2>5. OutcomeInv'  BY DEF OutcomeInv, ReapInv, ChildInv
  <2>6. EndInv'  BY DEF EndInv, OutcomeInv, ReapInv, ExitCode
  <2> QED  BY <2>1, <2>2, <2>3, <2>4, <2>5, <2>6, Zenon
<1>9. CASE Returned
  <2> USE <1>9 DEF Returned, TerminateAndReap, SignalGroup
  <2>1. Values'  OBVIOUS
  <2>2. ChildInv'  BY DEF ChildInv, OutcomeInv, ReapInv
  <2>3. ReapInv'  BY DEF ReapInv, ChildInv, OutcomeInv
  <2>4. PortInv'  BY DEF PortInv, ChildInv
  <2>5. OutcomeInv'  BY DEF OutcomeInv, ReapInv, ChildInv
  <2>6. EndInv'  BY DEF EndInv, OutcomeInv, ReapInv, ExitCode
  <2> QED  BY <2>1, <2>2, <2>3, <2>4, <2>5, <2>6
<1>10. CASE Contain
  <2> USE <1>10 DEF Contain, DestroyPort
  <2>1. Values'  OBVIOUS
  <2>2. ChildInv'  BY DEF ChildInv, OutcomeInv, ReapInv
  <2>3. ReapInv'  BY DEF ReapInv, ChildInv, OutcomeInv
  <2>4. PortInv'  BY DEF PortInv, ChildInv
  <2>5. OutcomeInv'  BY DEF OutcomeInv, ReapInv, ChildInv
  <2>6. EndInv'  BY DEF EndInv, OutcomeInv, ReapInv, ExitCode
  <2> QED  BY <2>1, <2>2, <2>3, <2>4, <2>5, <2>6
<1>11. CASE Escalate
  <2> USE <1>11 DEF Escalate, SignalGroup
  <2>1. Values'  OBVIOUS
  <2>2. ChildInv'  BY DEF ChildInv, OutcomeInv, ReapInv
  <2>3. ReapInv'  BY DEF ReapInv, ChildInv, OutcomeInv
  <2>4. PortInv'  BY DEF PortInv, ReapInv
  <2>5. OutcomeInv'  BY DEF OutcomeInv, ReapInv, ChildInv
  <2>6. EndInv'  BY DEF EndInv, OutcomeInv, ReapInv, ExitCode
  <2> QED  BY <2>1, <2>2, <2>3, <2>4, <2>5, <2>6
<1>12. CASE Handoff
  <2> USE <1>12 DEF Handoff
  <2>1. Values'  OBVIOUS
  <2>2. ChildInv'  BY DEF ChildInv, OutcomeInv, ReapInv
  <2>3. ReapInv'  BY DEF ReapInv, ChildInv, OutcomeInv
  <2>4. PortInv'  BY DEF PortInv, ChildInv
  <2>5. OutcomeInv'  BY DEF OutcomeInv, ReapInv, ChildInv
  <2>6. EndInv'  BY DEF EndInv, OutcomeInv, ReapInv, ExitCode
  <2> QED  BY <2>1, <2>2, <2>3, <2>4, <2>5, <2>6
<1>13. CASE ComputeCode
  <2> USE <1>13 DEF ComputeCode
  <2>1. Values'  OBVIOUS
  <2>2. ChildInv'  BY DEF ChildInv, OutcomeInv, ReapInv
  <2>3. ReapInv'  BY DEF ReapInv, ChildInv, OutcomeInv
  <2>4. PortInv'  BY DEF PortInv, ChildInv
  <2>5. OutcomeInv'  BY DEF OutcomeInv, ReapInv, ChildInv
  <2>6. EndInv'
    <3>1. ExitCode # "none"  BY DEF ExitCode, SignalCode, OutcomeInv
    <3>2. ExitCode' = ExitCode  BY ExitCodeSettled
    <3> QED  BY <3>1, <3>2 DEF EndInv, ReapInv, OutcomeInv
  <2> QED  BY <2>1, <2>2, <2>3, <2>4, <2>5, <2>6
<1>14. CASE Drop
  <2> USE <1>14 DEF Drop, DestroyPort, TerminateAndReap, SignalGroup
  <2>1. Values'  OBVIOUS
  <2>2. ChildInv'  BY DEF ChildInv, OutcomeInv, ReapInv
  <2>3. ReapInv'  BY DEF ReapInv, ChildInv, OutcomeInv
  <2>4. PortInv'  BY DEF PortInv, ChildInv
  <2>5. OutcomeInv'  BY DEF OutcomeInv, ReapInv, ChildInv
  <2>6. EndInv'  BY DEF EndInv, OutcomeInv, ReapInv, ExitCode
  <2> QED  BY <2>1, <2>2, <2>3, <2>4, <2>5, <2>6
<1>15. CASE DropLast
  <2> USE <1>15 DEF DropLast, DestroyPort
  <2>1. Values'  OBVIOUS
  <2>2. ChildInv'  BY DEF ChildInv, OutcomeInv, ReapInv
  <2>3. ReapInv'  BY DEF ReapInv, ChildInv, OutcomeInv
  <2>4. PortInv'  BY DEF PortInv, ChildInv
  <2>5. OutcomeInv'  BY DEF OutcomeInv, ReapInv, ChildInv
  <2>6. EndInv'  BY DEF EndInv, OutcomeInv, ReapInv, ExitCode
  <2> QED  BY <2>1, <2>2, <2>3, <2>4, <2>5, <2>6
<1> QED  BY <1>1, <1>2, <1>3, <1>4, <1>5, <1>6, <1>7, <1>8, <1>9, <1>10, <1>11, <1>12, <1>13, <1>14, <1>15, Zenon DEF Proceed

\* The event loop's steps keep the invariant.
LEMMA LoopEventKeepsInv ==
    ASSUME SupInv, LoopEvent
    PROVE  SupInv'
<1> USE DEF SupInv, Values, kernelVars, resultVars, Startups, Monitoring, Reaping, Exiting, Places,
        Statuses, Exits, Kills, MustReap
<1>1. CASE IgnoredException
  <2> USE <1>1 DEF IgnoredException
  <2>1. Values'  OBVIOUS
  <2>2. ChildInv'  BY DEF ChildInv, OutcomeInv, ReapInv
  <2>3. ReapInv'  BY DEF ReapInv, ChildInv, OutcomeInv
  <2>4. PortInv'  BY DEF PortInv, ChildInv
  <2>5. OutcomeInv'  BY DEF OutcomeInv, ReapInv, ChildInv
  <2>6. EndInv'  BY DEF EndInv, OutcomeInv, ReapInv, ExitCode
  <2> QED  BY <2>1, <2>2, <2>3, <2>4, <2>5, <2>6
<1>2. CASE CrashEvent
  <2> USE <1>2 DEF CrashEvent, Capture
  <2>1. Values'  OBVIOUS
  <2>2. ChildInv'  BY DEF ChildInv, OutcomeInv, ReapInv
  <2>3. ReapInv'  BY DEF ReapInv, ChildInv, OutcomeInv
  <2>4. PortInv'  BY DEF PortInv, ChildInv
  <2>5. OutcomeInv'  BY DEF OutcomeInv, ReapInv, ChildInv
  <2>6. EndInv'  BY DEF EndInv, OutcomeInv, ReapInv, ExitCode
  <2> QED  BY <2>1, <2>2, <2>3, <2>4, <2>5, <2>6
<1>3. CASE LiveCapture
  <2> USE <1>3 DEF LiveCapture, Capture
  <2>1. Values'  OBVIOUS
  <2>2. ChildInv'  BY DEF ChildInv, OutcomeInv, ReapInv
  <2>3. ReapInv'  BY DEF ReapInv, ChildInv, OutcomeInv
  <2>4. PortInv'  BY DEF PortInv, ChildInv
  <2>5. OutcomeInv'  BY DEF OutcomeInv, ReapInv, ChildInv
  <2>6. EndInv'  BY DEF EndInv, OutcomeInv, ReapInv, ExitCode
  <2> QED  BY <2>1, <2>2, <2>3, <2>4, <2>5, <2>6
<1>4. CASE ShutdownSignal
  <2> USE <1>4 DEF ShutdownSignal
  <2>1. Values'  OBVIOUS
  <2>2. ChildInv'  BY DEF ChildInv, OutcomeInv, ReapInv
  <2>3. ReapInv'  BY DEF ReapInv, ChildInv, OutcomeInv
  <2>4. PortInv'  BY DEF PortInv, ChildInv
  <2>5. OutcomeInv'  BY DEF OutcomeInv, ReapInv, ChildInv
  <2>6. EndInv'  BY DEF EndInv, OutcomeInv, ReapInv, ExitCode
  <2> QED  BY <2>1, <2>2, <2>3, <2>4, <2>5, <2>6
<1>5. CASE ChildTerminated
  <2> USE <1>5 DEF ChildTerminated, Reap
  <2>1. Values'  OBVIOUS
  <2>2. ChildInv'  BY DEF ChildInv, OutcomeInv, ReapInv
  <2>3. ReapInv'  BY DEF ReapInv, ChildInv, OutcomeInv
  <2>4. PortInv'  BY DEF PortInv, ChildInv
  <2>5. OutcomeInv'  BY DEF OutcomeInv, ReapInv, ChildInv
  <2>6. EndInv'  BY DEF EndInv, OutcomeInv, ReapInv, ExitCode
  <2> QED  BY <2>1, <2>2, <2>3, <2>4, <2>5, <2>6
<1>6. CASE ListenerFailure
  <2> USE <1>6 DEF ListenerFailure
  <2>1. Values'  OBVIOUS
  <2>2. ChildInv'  BY DEF ChildInv, OutcomeInv, ReapInv
  <2>3. ReapInv'  BY DEF ReapInv, ChildInv, OutcomeInv
  <2>4. PortInv'  BY DEF PortInv, ChildInv
  <2>5. OutcomeInv'  BY DEF OutcomeInv, ReapInv, ChildInv
  <2>6. EndInv'  BY DEF EndInv, OutcomeInv, ReapInv, ExitCode
  <2> QED  BY <2>1, <2>2, <2>3, <2>4, <2>5, <2>6
<1>7. CASE MonitorFailure
  <2> USE <1>7 DEF MonitorFailure
  <2>1. Values'  OBVIOUS
  <2>2. ChildInv'  BY DEF ChildInv, OutcomeInv, ReapInv
  <2>3. ReapInv'  BY DEF ReapInv, ChildInv, OutcomeInv
  <2>4. PortInv'  BY DEF PortInv, ChildInv
  <2>5. OutcomeInv'  BY Zenon DEF OutcomeInv, ReapInv, ChildInv
  <2>6. EndInv'  BY DEF EndInv, OutcomeInv, ReapInv, ExitCode
  <2> QED  BY <2>1, <2>2, <2>3, <2>4, <2>5, <2>6
<1> QED  BY <1>1, <1>2, <1>3, <1>4, <1>5, <1>6, <1>7, Zenon DEF LoopEvent

\* A failed wait keeps the invariant.
LEMMA WaitFailsKeepsInv ==
    ASSUME SupInv, WaitFails
    PROVE  SupInv'
<1> USE DEF SupInv, Values, kernelVars, resultVars, Startups, Monitoring, Reaping, Exiting, Places,
        Statuses, Exits, Kills, MustReap
<1> USE DEF WaitFails
<1>1. Values'  OBVIOUS
<1>2. ChildInv'  BY DEF ChildInv, OutcomeInv, ReapInv
<1>3. ReapInv'  BY Zenon DEF ReapInv, ChildInv, OutcomeInv
<1>4. PortInv'  BY DEF PortInv, ChildInv
<1>5. OutcomeInv'  BY DEF OutcomeInv, ReapInv, ChildInv
<1>6. EndInv'  BY DEF EndInv, OutcomeInv, ReapInv, ExitCode
<1> QED  BY <1>1, <1>2, <1>3, <1>4, <1>5, <1>6

-----------------------------------------------------------------------------
(* The child, and the monitor process around the supervisor.              *)

\* What the child and the kernel do keeps the invariant.
LEMMA EventKeepsInv ==
    ASSUME SupInv, Event
    PROVE  SupInv'
<1> DEFINE Ends == child = "running" /\ child' = "zombie" /\ status' \in Statuses
           Same == child' = child /\ status' = status
<1>0. Fault \/ Receive \/ \E s \in Statuses : ChildEnds(s)
  BY DEF Event
<1>1. /\ UNCHANGED <<posted, inLoop, port, pc, reapFor, guard, osError, asked>>
      /\ UNCHANGED <<outcome, found, cleanup, lost, control, ticket, handed, code>>
  BY <1>0 DEF Fault, Receive, ChildEnds, resultVars
<1>2. Same \/ Ends
  BY <1>0 DEF Fault, Receive, ChildEnds, Statuses, Kills
<1>3. inPort' \in Nat /\ inChannel' \in Nat
  BY <1>0 DEF SupInv, Values, Fault, Receive, ChildEnds
<1>4. (port = "destroyed" \/ child = "none" => inPort' = 0)
  BY <1>0 DEF SupInv, PortInv, Fault, Receive, ChildEnds
<1>5. MustReap' = MustReap  BY <1>1 DEF MustReap
<1>6. "none" \notin Statuses  BY DEF Statuses, Exits, Kills
<1>7. Values'  BY <1>1, <1>2, <1>3 DEF SupInv, Values
<1>8. ChildInv'
  <2>1. CASE Same  BY <1>1, <1>5, <2>1 DEF SupInv, ChildInv
  <2>2. CASE Ends  BY <1>1, <1>5, <1>6, <2>2 DEF SupInv, ChildInv, Startups
  <2> QED  BY <1>2, <2>1, <2>2
<1>9. ReapInv'
  <2>1. CASE Same  BY <1>1, <1>5, <2>1 DEF SupInv, ReapInv
  <2>2. CASE Ends  BY <1>1, <1>5, <2>2 DEF SupInv, ReapInv
  <2> QED  BY <1>2, <2>1, <2>2
<1>10. PortInv'
  <2>1. port = "destroyed" => inChannel' = inChannel  BY <1>0 DEF Fault, Receive, ChildEnds
  <2> QED  BY <1>1, <1>2, <1>4, <2>1 DEF SupInv, PortInv
<1>11. OutcomeInv'  BY <1>1, <1>2, <1>5 DEF SupInv, OutcomeInv
<1>12. EndInv'  BY <1>1, ExitCodeSettled DEF SupInv, EndInv
<1> QED  BY <1>7, <1>8, <1>9, <1>10, <1>11, <1>12 DEF SupInv

\* The steps before the spawn keep the invariant.
LEMMA StartupKeepsInv ==
    ASSUME SupInv, Startup
    PROVE  SupInv'
<1> USE DEF SupInv, Values, kernelVars, resultVars, Startups, Monitoring, Reaping, Exiting, Places,
        Statuses, Exits, Kills, MustReap
<1>1. CASE CheckStartup
  <2> USE <1>1 DEF CheckStartup, Prelude
  <2>1. Values'  OBVIOUS
  <2>2. ChildInv'  BY Zenon DEF ChildInv, OutcomeInv, ReapInv
  <2>3. ReapInv'  BY Zenon DEF ReapInv, ChildInv, OutcomeInv
  <2>4. PortInv'  BY DEF PortInv, ChildInv
  <2>5. OutcomeInv'  BY Zenon DEF OutcomeInv, ReapInv, ChildInv
  <2>6. EndInv'  BY DEF EndInv, OutcomeInv, ReapInv, ExitCode
  <2> QED  BY <2>1, <2>2, <2>3, <2>4, <2>5, <2>6
<1>2. CASE CreateExceptionPort
  <2> USE <1>2 DEF CreateExceptionPort, Prelude
  <2>1. Values'  OBVIOUS
  <2>2. ChildInv'  BY Zenon DEF ChildInv, OutcomeInv, ReapInv
  <2>3. ReapInv'  BY Zenon DEF ReapInv, ChildInv, OutcomeInv
  <2>4. PortInv'  BY DEF PortInv, ChildInv
  <2>5. OutcomeInv'  BY Zenon DEF OutcomeInv, ReapInv, ChildInv
  <2>6. EndInv'  BY DEF EndInv, OutcomeInv, ReapInv, ExitCode
  <2> QED  BY <2>1, <2>2, <2>3, <2>4, <2>5, <2>6, Zenon
<1>3. CASE NoSharedMemory
  <2> USE <1>3 DEF NoSharedMemory, Prelude
  <2>1. Values'  OBVIOUS
  <2>2. ChildInv'  BY Zenon DEF ChildInv, OutcomeInv, ReapInv
  <2>3. ReapInv'  BY Zenon DEF ReapInv, ChildInv, OutcomeInv
  <2>4. PortInv'  BY Zenon DEF PortInv, ChildInv
  <2>5. OutcomeInv'  BY Zenon DEF OutcomeInv, ReapInv, ChildInv
  <2>6. EndInv'  BY DEF EndInv, OutcomeInv, ReapInv, ExitCode
  <2> QED  BY <2>1, <2>2, <2>3, <2>4, <2>5, <2>6, Zenon
<1>4. CASE OpenExclusiveShm
  <2> USE <1>4 DEF OpenExclusiveShm, Prelude
  <2>1. Values'  OBVIOUS
  <2>2. ChildInv'  BY Zenon DEF ChildInv, OutcomeInv, ReapInv
  <2>3. ReapInv'  BY Zenon DEF ReapInv, ChildInv, OutcomeInv
  <2>4. PortInv'  BY Zenon DEF PortInv, ChildInv
  <2>5. OutcomeInv'  BY Zenon DEF OutcomeInv, ReapInv, ChildInv
  <2>6. EndInv'  BY DEF EndInv, OutcomeInv, ReapInv, ExitCode
  <2> QED  BY <2>1, <2>2, <2>3, <2>4, <2>5, <2>6, Zenon
<1>5. CASE PublishMapping
  <2> USE <1>5 DEF PublishMapping, Prelude
  <2>1. Values'  OBVIOUS
  <2>2. ChildInv'  BY Zenon DEF ChildInv, OutcomeInv, ReapInv
  <2>3. ReapInv'  BY Zenon DEF ReapInv, ChildInv, OutcomeInv
  <2>4. PortInv'  BY Zenon DEF PortInv, ChildInv
  <2>5. OutcomeInv'  BY Zenon DEF OutcomeInv, ReapInv, ChildInv
  <2>6. EndInv'  BY DEF EndInv, OutcomeInv, ReapInv, ExitCode
  <2> QED  BY <2>1, <2>2, <2>3, <2>4, <2>5, <2>6, Zenon
<1>6. CASE DropPendingShm
  <2> USE <1>6 DEF DropPendingShm, Prelude
  <2>1. Values'  OBVIOUS
  <2>2. ChildInv'  BY Zenon DEF ChildInv, OutcomeInv, ReapInv
  <2>3. ReapInv'  BY Zenon DEF ReapInv, ChildInv, OutcomeInv
  <2>4. PortInv'  BY Zenon DEF PortInv, ChildInv
  <2>5. OutcomeInv'  BY Zenon DEF OutcomeInv, ReapInv, ChildInv
  <2>6. EndInv'  BY DEF EndInv, OutcomeInv, ReapInv, ExitCode
  <2> QED  BY <2>1, <2>2, <2>3, <2>4, <2>5, <2>6, Zenon
<1>7. CASE BuildPipeline
  <2> USE <1>7 DEF BuildPipeline, Prelude
  <2>1. Values'  OBVIOUS
  <2>2. ChildInv'  BY Zenon DEF ChildInv, OutcomeInv, ReapInv
  <2>3. ReapInv'  BY Zenon DEF ReapInv, ChildInv, OutcomeInv
  <2>4. PortInv'  BY Zenon DEF PortInv, ChildInv
  <2>5. OutcomeInv'  BY Zenon DEF OutcomeInv, ReapInv, ChildInv
  <2>6. EndInv'  BY DEF EndInv, OutcomeInv, ReapInv, ExitCode
  <2> QED  BY <2>1, <2>2, <2>3, <2>4, <2>5, <2>6, Zenon
<1>8. CASE SpawnChild
  <2> USE <1>8 DEF SpawnChild, Prelude
  <2>1. Values'  OBVIOUS
  <2>2. ChildInv'  BY Zenon DEF ChildInv, OutcomeInv, ReapInv
  <2>3. ReapInv'  BY Zenon DEF ReapInv, ChildInv, OutcomeInv
  <2>4. PortInv'  BY Zenon DEF PortInv, ChildInv
  <2>5. OutcomeInv'  BY Zenon DEF OutcomeInv, ReapInv, ChildInv
  <2>6. EndInv'  BY DEF EndInv, OutcomeInv, ReapInv, ExitCode
  <2> QED  BY <2>1, <2>2, <2>3, <2>4, <2>5, <2>6, Zenon
<1>9. CASE StartupFails
  <2> USE <1>9 DEF StartupFails, guardVars
  <2>1. Values'  BY SMTT(20)
  <2>2. ChildInv'  BY Zenon DEF ChildInv, OutcomeInv, ReapInv
  <2>3. ReapInv'  BY Zenon DEF ReapInv, ChildInv, OutcomeInv
  <2>4. PortInv'  BY Zenon DEF PortInv, ChildInv
  <2>5. OutcomeInv'  BY Zenon DEF OutcomeInv, ReapInv, ChildInv
  <2>6. EndInv'  BY DEF EndInv, OutcomeInv, ReapInv, ExitCode
  <2> QED  BY <2>1, <2>2, <2>3, <2>4, <2>5, <2>6, Zenon
<1> QED  BY <1>1, <1>2, <1>3, <1>4, <1>5, <1>6, <1>7, <1>8, <1>9, Zenon DEF Startup

\* The death of the monitor keeps the invariant.
LEMMA DeathKeepsInv ==
    ASSUME SupInv, MonitorDies
    PROVE  SupInv'
<1> USE DEF SupInv, Values, kernelVars, resultVars, Startups, Monitoring, Reaping, Exiting, Places,
        Statuses, Exits, Kills, MustReap
<1> USE DEF MonitorDies, DestroyPort
<1>1. Values'  OBVIOUS
<1>2. ChildInv'  BY Zenon DEF ChildInv, OutcomeInv, ReapInv
<1>3. ReapInv'  BY Zenon DEF ReapInv, ChildInv, OutcomeInv
<1>4. PortInv'  BY Zenon DEF PortInv, ChildInv
<1>5. OutcomeInv'  BY Zenon DEF OutcomeInv, ReapInv, ChildInv
<1>6. EndInv'  BY DEF EndInv, OutcomeInv, ReapInv, ExitCode
<1> QED  BY <1>1, <1>2, <1>3, <1>4, <1>5, <1>6, Zenon

\* Signals sent and system calls that fail beside the monitor keep the invariant.
LEMMA BesideKeepsInv ==
    ASSUME SupInv, UNCHANGED <<kernelVars, pc, resultVars, reapFor, guard, asked>>,
           posted \subseteq posted', osError' = osError \/ osError' = "yes"
    PROVE  SupInv'
<1>1. /\ UNCHANGED <<child, status, inPort, inChannel, inLoop, port, pc>>
      /\ UNCHANGED <<outcome, found, cleanup, lost, control, ticket, handed, code>>
      /\ UNCHANGED <<reapFor, guard, asked>>
  BY DEF kernelVars, resultVars
<1>2. MustReap' = MustReap  BY <1>1 DEF MustReap
<1>3. Values'  BY <1>1 DEF SupInv, Values
<1>4. ChildInv'  BY <1>1, <1>2, Zenon DEF SupInv, ChildInv
<1>5. ReapInv'  BY <1>1, <1>2, Zenon DEF SupInv, ReapInv
<1>6. PortInv'  BY <1>1 DEF SupInv, PortInv
<1>7. OutcomeInv'  BY <1>1, <1>2, Zenon DEF SupInv, OutcomeInv
<1>8. EndInv'  BY <1>1, ExitCodeSettled, Zenon DEF SupInv, EndInv
<1> QED  BY <1>3, <1>4, <1>5, <1>6, <1>7, <1>8 DEF SupInv

\* The guardian signals only for a dead monitor, or when its read fails.
LEMMA GuardianKeepsInv ==
    ASSUME SupInv, GuardianFires \/ GuardianReadFails
    PROVE  SupInv'
<1>1. UNCHANGED <<kernelVars, pc, resultVars, reapFor, guard, asked>>
  BY DEF GuardianFires, GuardianReadFails
<1>2. posted \subseteq posted' /\ (osError' = osError \/ osError' = "yes")
  BY DEF GuardianFires, GuardianReadFails, SignalGroup
<1> QED  BY <1>1, <1>2, BesideKeepsInv

-----------------------------------------------------------------------------
(* The theorems.                                                           *)

\* Initially the monitor has done nothing and there is no child.
LEMMA LaunchInitially ==
    ASSUME LaunchInit
    PROVE  LaunchInv
BY Zenon DEF LaunchInit, Fresh, LaunchInv, SupInv, Values, ChildInv, ReapInv, PortInv, OutcomeInv, EndInv,
       Startups, Monitoring, Reaping, Exiting, Places, Statuses, MustReap

\* Every step keeps the invariant; only the monitor's death closes its pipe.
LEMMA LaunchStepKeepsInv ==
    ASSUME LaunchInv, [LaunchNext]_launchVars
    PROVE  LaunchInv'
<1> USE DEF LaunchInv
<1>1. CASE Startup
  <2>1. SupInv'  BY <1>1, StartupKeepsInv
  <2>2. pipe' = pipe /\ pc \in Startups
    BY <1>1, Zenon DEF Startup, CheckStartup, CreateExceptionPort, NoSharedMemory, OpenExclusiveShm,
         PublishMapping, DropPendingShm, BuildPipeline, SpawnChild, StartupFails, Prelude, guardVars,
         Startups
  <2> QED  BY <2>1, <2>2 DEF Startups
<1>2. CASE MonitorDies
  BY <1>2, DeathKeepsInv DEF MonitorDies
<1>3. CASE Supervise(Proceed) \/ Supervise(WaitFails) \/ Supervise(LoopEvent)
  <2>1. SupInv'  BY <1>3, ProceedKeepsInv, WaitFailsKeepsInv, LoopEventKeepsInv DEF Supervise, Install
  <2>2. pipe' = pipe \/ pipe' = "open"  BY <1>3 DEF Supervise, Install
  <2>3. pc # "dead"
    BY <1>3, Zenon DEF Supervise, Install, Proceed, WaitFails, LoopEvent, Adopt, Acquire, Setup, Reply,
         ReapSucceeds, GraceExpires, KillExpires, ReapFails, Returned, Contain, Escalate, Handoff,
         ComputeCode, Drop, DropLast, IgnoredException, CrashEvent, LiveCapture, ShutdownSignal,
         ChildTerminated, ListenerFailure, MonitorFailure
  <2> QED  BY <2>1, <2>2, <2>3
<1>4. CASE GuardianFires \/ GuardianReadFails
  BY <1>4, GuardianKeepsInv DEF GuardianFires, GuardianReadFails
<1>5. CASE Event /\ UNCHANGED guardVars
  <2>1. pc' = pc  BY <1>5, Zenon DEF Event, Fault, Receive, ChildEnds
  <2> QED  BY <1>5, <2>1, EventKeepsInv DEF guardVars
<1>6. CASE Disarm \/ GuardianExits \/ UNCHANGED launchVars
  <2>1. UNCHANGED vars  BY <1>6 DEF Disarm, GuardianExits, launchVars
  <2>2. pipe' = pipe \/ pipe' = "disarmed"  BY <1>6 DEF Disarm, GuardianExits, launchVars
  <2>3. SupInv'  BY <2>1, BesideKeepsInv DEF vars
  <2> QED  BY <2>1, <2>2, <2>3 DEF vars
<1> QED
  BY <1>1, <1>2, <1>3, <1>4, <1>5, <1>6 DEF LaunchNext

(***************************************************************************)
(* The inductive invariant holds in every reachable state of the monitor.  *)
(***************************************************************************)
THEOREM LaunchInvariance == LaunchSpec => []LaunchInv
BY LaunchInitially, LaunchStepKeepsInv, PTL DEF LaunchSpec

(***************************************************************************)
(* Whatever number of exceptions the child raises, a monitor that exits    *)
(* leaves its child reaped or with SIGKILL pending and no exception that   *)
(* keeps it from dying (run_monitor and the drop of MonitorSupervisor).    *)
(***************************************************************************)
THEOREM ChildNeverOrphaned == LaunchSpec => []NoOrphan
<1>1. LaunchInv => NoOrphan
  BY DEF LaunchInv, SupInv, Values, ReapInv, PortInv, NoOrphan, Unanswered
<1> QED  BY <1>1, LaunchInvariance, PTL

(***************************************************************************)
(* The exit status and the evidence handed to the fatal finalizer are the  *)
(* child's own, along every path to the exit (MonitorOutcome::exit_code).  *)
(***************************************************************************)
THEOREM HonestExit == LaunchSpec => []ExitIsHonest
<1>1. ASSUME LaunchInv
      PROVE  ExitIsHonest
  <2> USE <1>1 DEF LaunchInv, SupInv, Values, Statuses, Exits, Kills
  <2>1. ASSUME pc = "exit", asked = "no"
        PROVE  /\ code = "0" => status = "exit0" /\ child = "reaped" /\ cleanup = "no"
               /\ code = "80" => status = "exit1"
               /\ code = "81" => cleanup = "yes" /\ found \in {"none", "exit0"}
               /\ \A s \in Kills : code = SignalCode[s] => status = s
    <3>1. code = ExitCode /\ outcome \in {"terminated", "crash", "failure"}
      BY <2>1, Zenon DEF EndInv, OutcomeInv, Exiting
    <3>2. found # "none" => found = status /\ child = "reaped"  BY DEF OutcomeInv
    <3>3. CASE outcome = "failure"  BY <3>1, <3>3 DEF ExitCode, SignalCode
    <3>4. CASE outcome = "crash"  BY <3>1, <3>2, <3>4 DEF ExitCode, SignalCode, OutcomeInv
    <3>5. CASE outcome = "terminated"  BY <3>1, <3>2, <3>5 DEF ExitCode, SignalCode, OutcomeInv, MustReap
    <3> QED  BY <3>1, <3>3, <3>4, <3>5
  <2>2. pc = "exit" => ticket # "pending"  BY DEF EndInv, Reaping
  <2>3. ticket = "done" => handed = found  BY DEF EndInv
  <2> QED  BY <2>1, <2>2, <2>3, Zenon DEF ExitIsHonest, OutcomeInv
<1> QED  BY <1>1, LaunchInvariance, PTL

(***************************************************************************)
(* Neither the monitor nor its guardian signals the process group of a     *)
(* reaped child, whose id may be in use again (ChildProcessGroup::signal). *)
(***************************************************************************)
THEOREM ReapedGroupNotSignalled == LaunchSpec => NoSignalAfterReap
<1>1. ASSUME LaunchInv, [LaunchNext]_launchVars, child = "reaped", pc # "dead", osError' = "no"
      PROVE  posted' = posted
  <2> USE <1>1 DEF LaunchInv, SupInv, ChildInv, Monitoring, Reaping, Startups
  <2>1. CASE Supervise(Proceed)
    <3>1. pc \notin {"adopt", "acquire", "grace", "escalate"}  OBVIOUS
    <3>2. pc = "returned" => outcome # "shutdown"  OBVIOUS
    <3>3. pc = "drop" => guard # "owned"  OBVIOUS
    <3> QED
      BY <2>1, <3>1, <3>2, <3>3, Zenon DEF Supervise, Install, Proceed, Adopt, Acquire, Setup, Reply, ReapSucceeds,
           GraceExpires, KillExpires, ReapFails, Returned, Contain, Escalate, Handoff, ComputeCode, Drop,
           DropLast
  <2>2. CASE Supervise(WaitFails) \/ Supervise(LoopEvent)
    BY <2>2, Zenon DEF Supervise, Install, WaitFails, LoopEvent, IgnoredException, CrashEvent, LiveCapture,
         ShutdownSignal, ChildTerminated, ListenerFailure, MonitorFailure
  <2>3. CASE Startup
    BY <2>3, Zenon DEF Startup, CheckStartup, CreateExceptionPort, NoSharedMemory, OpenExclusiveShm,
         PublishMapping, DropPendingShm, BuildPipeline, SpawnChild, StartupFails, Prelude
  <2>4. CASE GuardianFires \/ GuardianReadFails
    BY <2>4, Zenon DEF GuardianFires, GuardianReadFails
  <2>5. CASE Event /\ UNCHANGED guardVars
    BY <2>5, Zenon DEF Event, Fault, Receive, ChildEnds
  <2>6. CASE Disarm \/ GuardianExits \/ MonitorDies \/ UNCHANGED launchVars
    BY <2>6, Zenon DEF Disarm, GuardianExits, MonitorDies, launchVars, vars
  <2> QED  BY <2>1, <2>2, <2>3, <2>4, <2>5, <2>6 DEF LaunchNext
<1>2. LaunchInv /\ [LaunchNext]_launchVars =>
        [child = "reaped" /\ pc # "dead" /\ osError' = "no" => posted' = posted]_vars
  BY <1>1
<1> QED  BY <1>2, LaunchInvariance, PTL DEF LaunchSpec, NoSignalAfterReap

=============================================================================
