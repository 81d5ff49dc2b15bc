--------------------------- MODULE Capture_proofs ---------------------------
(***************************************************************************)
(* Proofs about the capture of a task: the isolated capture on its own     *)
(* (IsolatedCapture) and as a job of the worker thread (WorkerCapture).    *)
(***************************************************************************)
EXTENDS WorkerCapture, TLAPS

-----------------------------------------------------------------------------
(***************************************************************************)
(* Proofs about IsolatedCapture, for every retry limit and every set of    *)
(* enabled report types.                                                   *)
(***************************************************************************)

-----------------------------------------------------------------------------
(* The inductive invariant.                                                *)

\* What the guard's state says about the suspend count.
GuardCount ==
    /\ guard = "none" => suspended = 0
    /\ guard \in {"active", "releasing", "contained"} => suspended = 1
    /\ guard = "released" =>
          \/ suspended = 0
          \/ suspended = 1 /\ PreventsMonitoring(health)
                           /\ (task = "dead" \/ RequiresEscalation(health))
    /\ guard = "contained" => task = "dead" \/ RequiresEscalation(health)

\* Which guard states each place in `capture` allows.
GuardPlace ==
    /\ pc \in {"setup", "acquire"} => guard = "none"
    /\ pc \in {"snapshot", "launch", "spawn", "handoff", "poll", "kill", "reap", "contain"}
          => guard \in {"none", "active"}
    /\ pc = "release" => guard \in {"none", "active", "releasing"}
    /\ pc \in {"returned", "idle"} => guard \in {"none", "released", "contained"}

\* Where a helper may exist: none before the spawn, a reaped one before the
\* release, any one after its cleanup could not be proven.
HelperPlace ==
    /\ pc \in {"setup", "acquire", "snapshot", "launch", "spawn"}
          => helper = "none" /\ outcome = "none"
    /\ pc = "release" => helper \in {"none", "reaped"}
    /\ pc \in {"returned", "idle"} =>
          \/ helper \in {"none", "reaped"}
          \/ PreventsMonitoring(health) /\ guard # "released"
    /\ outcome = "Completed" => helper \in {"none", "reaped"}

\* A failure that prevents monitoring is recorded just before `capture`
\* returns, and the event loop then stops.
HealthPlace ==
    /\ PreventsMonitoring(health) => pc = "returned" \/ (pc = "idle" /\ eventLoop = "stopped")
    /\ guard = "contained" => PreventsMonitoring(health)
    /\ pc # "idle" => eventLoop = "running"

IInv == TypeOK /\ GuardCount /\ GuardPlace /\ HelperPlace /\ HealthPlace

-----------------------------------------------------------------------------
(* The initial state satisfies the inductive invariant.                    *)
LEMMA InitInv == Init => IInv
<1> SUFFICES ASSUME Init PROVE IInv
  OBVIOUS
<1> USE DEF Init, TaskInit
<1>1. TypeOK
  <2>1. TaskTypeOK
    BY ResumeAttemptAssumption DEF TaskTypeOK, GuardState, Recovery
  <2> QED
    BY <2>1, Zenon DEF TypeOK, PC, Kinds, HelperState, Outcomes
<1>2. GuardCount /\ GuardPlace
  BY DEF GuardCount, GuardPlace
<1>3. HelperPlace /\ HealthPlace
  BY DEF HelperPlace, HealthPlace, PreventsMonitoring
<1> QED
  BY <1>1, <1>2, <1>3 DEF IInv

(* Every step of a capture and of its environment preserves the inductive   *)
(* invariant.                                                               *)
LEMMA StepInv == IInv /\ [Next]_vars => IInv'
<1> SUFFICES ASSUME IInv, [Next]_vars PROVE IInv'
  OBVIOUS
<1> USE ResumeAttemptAssumption
    DEF IInv, TypeOK, TaskTypeOK, GuardState, Recovery, PC, Kinds, HelperState, Outcomes,
        GuardCount, GuardPlace, HelperPlace, HealthPlace, HelperAlive,
        PreventsMonitoring, RequiresEscalation, taskVars
<1>1. ASSUME NEW k \in Kinds, Begin(k) PROVE IInv'
  <2>1. TypeOK'
    <3>1. TaskTypeOK'
      BY <1>1 DEF Begin, NewGuard
    <3>2. pc' \in PC /\ kind' \in Kinds
      BY <1>1 DEF Begin, NewGuard
    <3>3. elapsed' \in BOOLEAN /\ graceOver' \in BOOLEAN /\ eventLoop' \in {"running", "stopped"}
      BY <1>1, Zenon DEF Begin, NewGuard
    <3>4. helper' \in HelperState
      BY <1>1 DEF Begin, NewGuard
    <3>5. cause' \in {"handoff", "deadline"} /\ outcome' \in Outcomes
      BY <1>1 DEF Begin, NewGuard
    <3> QED
      BY <3>1, <3>2, <3>3, <3>4, <3>5
  <2>2. GuardCount'
    BY <1>1 DEF Begin, NewGuard
  <2>3. GuardPlace'
    BY <1>1 DEF Begin, NewGuard
  <2>4. HelperPlace'
    BY <1>1 DEF Begin, NewGuard
  <2>5. HealthPlace'
    BY <1>1 DEF Begin, NewGuard
  <2> QED
    BY <2>1, <2>2, <2>3, <2>4, <2>5
<1>2. CASE Setup
  BY <1>2 DEF Setup, Goto
<1>3. CASE Acquire
  <2>1. TypeOK'
    <3>1. TaskTypeOK'
      <4>1. task' \in {"alive", "dead"} /\ guard' \in GuardState
        BY <1>3 DEF Acquire, Goto, AcquireOk, AcquireErr
      <4>2. suspended' \in Nat
        BY <1>3 DEF Acquire, Goto, AcquireOk, AcquireErr
      <4>3. attempts' \in 0 .. ResumeAttemptLimit
        BY <1>3 DEF Acquire, Goto, AcquireOk, AcquireErr
      <4>4. health' \subseteq Recovery
        BY <1>3, Zenon DEF Acquire, Goto, AcquireOk, AcquireErr
      <4> QED
        BY <4>1, <4>2, <4>3, <4>4
    <3>2. pc' \in PC /\ kind' \in Kinds
      BY <1>3 DEF Acquire, Goto, AcquireOk, AcquireErr
    <3>3. elapsed' \in BOOLEAN /\ graceOver' \in BOOLEAN /\ eventLoop' \in {"running", "stopped"}
      BY <1>3 DEF Acquire, Goto, AcquireOk, AcquireErr
    <3>4. helper' \in HelperState
      BY <1>3 DEF Acquire, Goto, AcquireOk, AcquireErr
    <3>5. cause' \in {"handoff", "deadline"} /\ outcome' \in Outcomes
      BY <1>3 DEF Acquire, Goto, AcquireOk, AcquireErr
    <3> QED
      BY <3>1, <3>2, <3>3, <3>4, <3>5
  <2>2. GuardCount'
    BY <1>3 DEF Acquire, Goto, AcquireOk, AcquireErr
  <2>3. GuardPlace'
    BY <1>3 DEF Acquire, Goto, AcquireOk, AcquireErr
  <2>4. HelperPlace'
    BY <1>3 DEF Acquire, Goto, AcquireOk, AcquireErr
  <2>5. HealthPlace'
    BY <1>3 DEF Acquire, Goto, AcquireOk, AcquireErr
  <2> QED
    BY <2>1, <2>2, <2>3, <2>4, <2>5
<1>4. CASE Snapshot
  BY <1>4 DEF Snapshot, Goto, Finish
<1>5. CASE Launch
  BY <1>5 DEF Launch, Goto, Finish
<1>6. CASE Spawn
  <2>1. TypeOK'
    BY <1>6 DEF Spawn, Goto, Finish
  <2>2. GuardCount'
    BY <1>6 DEF Spawn, Goto, Finish
  <2>3. GuardPlace'
    BY <1>6 DEF Spawn, Goto, Finish
  <2>4. HelperPlace'
    BY <1>6 DEF Spawn, Goto, Finish
  <2>5. HealthPlace'
    BY <1>6 DEF Spawn, Goto, Finish
  <2> QED
    BY <2>1, <2>2, <2>3, <2>4, <2>5
<1>7. CASE HandOff
  BY <1>7 DEF HandOff, Goto
<1>8. CASE Poll
  BY <1>8 DEF Poll, Goto, Finish
<1>9. CASE Kill
  <2>1. TypeOK'
    <3>1. TaskTypeOK'
      BY <1>9 DEF Kill, Goto
    <3>2. pc' \in PC /\ kind' \in Kinds
      BY <1>9 DEF Kill, Goto
    <3>3. elapsed' \in BOOLEAN /\ graceOver' \in BOOLEAN /\ eventLoop' \in {"running", "stopped"}
      BY <1>9, Zenon DEF Kill, Goto
    <3>4. helper' \in HelperState
      BY <1>9 DEF Kill, Goto
    <3>5. cause' \in {"handoff", "deadline"} /\ outcome' \in Outcomes
      BY <1>9 DEF Kill, Goto
    <3> QED
      BY <3>1, <3>2, <3>3, <3>4, <3>5
  <2>2. GuardCount'
    BY <1>9 DEF Kill, Goto
  <2>3. GuardPlace'
    BY <1>9 DEF Kill, Goto
  <2>4. HelperPlace'
    BY <1>9 DEF Kill, Goto
  <2>5. HealthPlace'
    BY <1>9 DEF Kill, Goto
  <2> QED
    BY <2>1, <2>2, <2>3, <2>4, <2>5
<1>10. CASE Reap
  BY <1>10 DEF Reap, Goto, Finish
<1>11. CASE Release
  <2>1. TypeOK'
    <3>1. TaskTypeOK'
      <4>1. task' \in {"alive", "dead"} /\ guard' \in GuardState
        BY <1>11 DEF Release, BeginRelease, ResumeOk, ResumeErr, TerminateAfterRetries, TerminateTask
      <4>2. suspended' \in Nat
        BY <1>11 DEF Release, BeginRelease, ResumeOk, ResumeErr, TerminateAfterRetries, TerminateTask
      <4>3. attempts' \in 0 .. ResumeAttemptLimit
        BY <1>11 DEF Release, BeginRelease, ResumeOk, ResumeErr, TerminateAfterRetries, TerminateTask
      <4>4. health' \subseteq Recovery
        BY <1>11, Zenon DEF Release, BeginRelease, ResumeOk, ResumeErr, TerminateAfterRetries, TerminateTask
      <4> QED
        BY <4>1, <4>2, <4>3, <4>4
    <3>2. pc' \in PC /\ kind' \in Kinds
      BY <1>11 DEF Release, BeginRelease, ResumeOk, ResumeErr, TerminateAfterRetries, TerminateTask
    <3>3. elapsed' \in BOOLEAN /\ graceOver' \in BOOLEAN /\ eventLoop' \in {"running", "stopped"}
      BY <1>11 DEF Release, BeginRelease, ResumeOk, ResumeErr, TerminateAfterRetries, TerminateTask
    <3>4. helper' \in HelperState
      BY <1>11 DEF Release, BeginRelease, ResumeOk, ResumeErr, TerminateAfterRetries, TerminateTask
    <3>5. cause' \in {"handoff", "deadline"} /\ outcome' \in Outcomes
      BY <1>11 DEF Release, BeginRelease, ResumeOk, ResumeErr, TerminateAfterRetries, TerminateTask
    <3> QED
      BY <3>1, <3>2, <3>3, <3>4, <3>5
  <2>2. GuardCount'
    BY <1>11 DEF Release, BeginRelease, ResumeOk, ResumeErr, TerminateAfterRetries, TerminateTask
  <2>3. GuardPlace'
    BY <1>11 DEF Release, BeginRelease, ResumeOk, ResumeErr, TerminateAfterRetries, TerminateTask
  <2>4. HelperPlace'
    BY <1>11 DEF Release, BeginRelease, ResumeOk, ResumeErr, TerminateAfterRetries, TerminateTask
  <2>5. HealthPlace'
    BY <1>11 DEF Release, BeginRelease, ResumeOk, ResumeErr, TerminateAfterRetries, TerminateTask
  <2> QED
    BY <2>1, <2>2, <2>3, <2>4, <2>5
<1>12. CASE Contain
  BY <1>12 DEF Contain, Goto, ContainWithoutResume, TerminateTask
<1>13. CASE AfterCapture
  <2>1. TypeOK'
    <3>1. TaskTypeOK'
      BY <1>13 DEF AfterCapture
    <3>2. pc' \in PC /\ kind' \in Kinds
      BY <1>13 DEF AfterCapture
    <3>3. elapsed' \in BOOLEAN /\ graceOver' \in BOOLEAN /\ eventLoop' \in {"running", "stopped"}
      BY <1>13 DEF AfterCapture
    <3>4. helper' \in HelperState
      BY <1>13 DEF AfterCapture
    <3>5. cause' \in {"handoff", "deadline"} /\ outcome' \in Outcomes
      BY <1>13 DEF AfterCapture
    <3> QED
      BY <3>1, <3>2, <3>3, <3>4, <3>5
  <2>2. GuardCount'
    BY <1>13 DEF AfterCapture
  <2>3. GuardPlace'
    BY <1>13 DEF AfterCapture
  <2>4. HelperPlace'
    BY <1>13 DEF AfterCapture
  <2>5. HealthPlace'
    BY <1>13 DEF AfterCapture
  <2> QED
    BY <2>1, <2>2, <2>3, <2>4, <2>5
<1>14. CASE WaitError
  BY <1>14 DEF WaitError, Goto
<1>15. CASE HelperExits
  <2>1. TypeOK'
    <3>1. TaskTypeOK'
      BY <1>15, Zenon DEF HelperExits, Environment
    <3>2. pc' \in PC /\ kind' \in Kinds
      BY <1>15 DEF HelperExits, Environment
    <3>3. elapsed' \in BOOLEAN /\ graceOver' \in BOOLEAN /\ eventLoop' \in {"running", "stopped"}
      BY <1>15 DEF HelperExits, Environment
    <3>4. helper' \in HelperState
      BY <1>15 DEF HelperExits, Environment
    <3>5. cause' \in {"handoff", "deadline"} /\ outcome' \in Outcomes
      BY <1>15 DEF HelperExits, Environment
    <3> QED
      BY <3>1, <3>2, <3>3, <3>4, <3>5
  <2>2. GuardCount'
    BY <1>15 DEF HelperExits, Environment
  <2>3. GuardPlace'
    BY <1>15 DEF HelperExits, Environment
  <2>4. HelperPlace'
    BY <1>15 DEF HelperExits, Environment
  <2>5. HealthPlace'
    BY <1>15 DEF HelperExits, Environment
  <2> QED
    BY <2>1, <2>2, <2>3, <2>4, <2>5
<1>16. CASE HelperStolen
  BY <1>16 DEF HelperStolen, Environment
<1>17. CASE Expire
  BY <1>17 DEF Expire
<1>18. CASE ExpireGrace
  BY <1>18 DEF ExpireGrace
<1>19. CASE TaskDeath
  BY <1>19 DEF TaskDeath, TaskDies, captureVars
<1>20. CASE UNCHANGED vars
  BY <1>20 DEF vars, captureVars
<1> QED
  BY <1>1, <1>2, <1>3, <1>4, <1>5, <1>6, <1>7, <1>8, <1>9, <1>10, <1>11, <1>12, <1>13, <1>14, <1>15, <1>16, <1>17, <1>18, <1>19, <1>20, Zenon DEF Next, CaptureStep

-----------------------------------------------------------------------------
(* The inductive invariant holds in every reachable state.                  *)
LEMMA Invariance == Spec => []IInv
  BY InitInv, StepInv, PTL DEF Spec

(* Type correctness of the capture's state.                                 *)
THEOREM TypeCorrect == Spec => []TypeOK
<1>1. IInv => TypeOK
  BY DEF IInv
<1> QED
  BY <1>1, Invariance, PTL

(* The task a capture suspended never runs while the capture's helper may   *)
(* be alive, for every retry limit.                                         *)
THEOREM ResumeAfterHelperGone == Spec => []NoLiveInspection
<1>1. IInv => NoLiveInspection
  BY DEF IInv, NoLiveInspection, GuardCount, GuardPlace, HelperPlace, HealthPlace, HelperAlive,
         TypeOK, TaskTypeOK, GuardState, PC
<1> QED
  BY <1>1, Invariance, PTL

(* Between captures the live task is not suspended and no helper runs.      *)
THEOREM NothingLeftBehind == Spec => []CleanBetweenCaptures
<1>1. IInv => CleanBetweenCaptures
  BY DEF IInv, CleanBetweenCaptures, GuardCount, GuardPlace, HelperPlace, HealthPlace,
         HelperAlive, TypeOK, TaskTypeOK, GuardState
<1> QED
  BY <1>1, Invariance, PTL

(* A task left suspended and alive is escalated to the supervisor.          *)
THEOREM StuckTaskIsEscalated == Spec => []StuckTaskEscalated
<1>1. IInv => StuckTaskEscalated
  BY DEF IInv, StuckTaskEscalated, GuardCount, GuardPlace, TypeOK, TaskTypeOK, GuardState
<1> QED
  BY <1>1, Invariance, PTL

(* Collected data comes from a helper whose exit this capture observed.     *)
THEOREM DataFromReapedHelper == Spec => []CompletedMeansReaped
<1>1. IInv => CompletedMeansReaped
  BY DEF IInv, CompletedMeansReaped, HelperPlace
<1> QED
  BY <1>1, Invariance, PTL

(* The suspend count is taken down only by the guard that owns it.          *)
THEOREM SuspensionBalanced == Spec => BalancedSuspension
<1> DEFINE Balanced == /\ suspended' <= 1
                       /\ suspended' < suspended => guard = "releasing" /\ guard' = "released"
<1>1. IInv /\ [Next]_vars => [Balanced]_vars
  <2> SUFFICES ASSUME IInv, [Next]_vars PROVE Balanced
    OBVIOUS
  <2> USE DEF IInv, TypeOK, TaskTypeOK, GuardState, GuardCount, taskVars
  <2>1. ASSUME NEW k \in Kinds, Begin(k) PROVE Balanced
    BY <2>1 DEF Begin, NewGuard
  <2>2. CASE Setup
    BY <2>2 DEF Setup, Goto
  <2>3. CASE Acquire
    BY <2>3 DEF Acquire, Goto, AcquireOk, AcquireErr
  <2>4. CASE Snapshot
    BY <2>4 DEF Snapshot, Goto, Finish
  <2>5. CASE Launch
    BY <2>5 DEF Launch, Goto, Finish
  <2>6. CASE Spawn
    BY <2>6 DEF Spawn, Goto, Finish
  <2>7. CASE HandOff
    BY <2>7 DEF HandOff, Goto
  <2>8. CASE Poll
    BY <2>8 DEF Poll, Goto, Finish
  <2>9. CASE Kill
    BY <2>9 DEF Kill, Goto
  <2>10. CASE Reap
    BY <2>10 DEF Reap, Goto, Finish
  <2>11. CASE Release
    BY <2>11 DEF Release, BeginRelease, ResumeOk, ResumeErr, TerminateAfterRetries, TerminateTask
  <2>12. CASE Contain
    BY <2>12 DEF Contain, Goto, ContainWithoutResume, TerminateTask
  <2>13. CASE AfterCapture
    BY <2>13 DEF AfterCapture
  <2>14. CASE WaitError
    BY <2>14 DEF WaitError, Goto
  <2>15. CASE HelperExits
    BY <2>15 DEF HelperExits, Environment
  <2>16. CASE HelperStolen
    BY <2>16 DEF HelperStolen, Environment
  <2>17. CASE Expire
    BY <2>17 DEF Expire
  <2>18. CASE ExpireGrace
    BY <2>18 DEF ExpireGrace
  <2>19. CASE TaskDeath
    BY <2>19 DEF TaskDeath, TaskDies, captureVars
  <2>20. CASE UNCHANGED vars
    BY <2>20 DEF vars, captureVars
  <2> QED
    BY <2>1, <2>2, <2>3, <2>4, <2>5, <2>6, <2>7, <2>8, <2>9, <2>10, <2>11, <2>12, <2>13, <2>14, <2>15, <2>16, <2>17, <2>18, <2>19, <2>20 DEF Next, CaptureStep
<1> QED
  BY <1>1, Invariance, PTL DEF Spec, BalancedSuspension

(* The isolated capture implements the capture contract: each step is a     *)
(* step of the contract or leaves its state unchanged.                      *)
THEOREM IsolatedCaptureImplementsContract == Spec => ImplementsContract
<1>1. Init => C!ContractInit
  BY DEF Init, TaskInit, C!ContractInit, ContractPhase, HelperAlive, PreventsMonitoring
<1>2. IInv /\ IInv' /\ [Next]_vars => [C!ContractNext]_(C!cvars)
  <2> SUFFICES ASSUME IInv, IInv', [Next]_vars PROVE [C!ContractNext]_(C!cvars)
    OBVIOUS
  <2> USE DEF IInv, TypeOK, TaskTypeOK, GuardState, PC, HelperState, Kinds, GuardPlace,
          HelperPlace, HealthPlace, HelperAlive, PreventsMonitoring, taskVars, ContractPhase,
          C!cvars, C!ContractNext, C!Take, C!Launch, C!Retire, C!LetGo, C!Keep, C!Close
  <2>1. ASSUME NEW k \in Kinds, Begin(k) PROVE [C!ContractNext]_(C!cvars)
    BY <2>1 DEF Begin, NewGuard
  <2>2. CASE Setup
    BY <2>2, Zenon DEF Setup, Goto
  <2>3. CASE Acquire
    BY <2>3 DEF Acquire, Goto, AcquireOk, AcquireErr
  <2>4. CASE Snapshot
    BY <2>4, Zenon DEF Snapshot, Goto, Finish
  <2>5. CASE Launch
    BY <2>5 DEF Launch, Goto, Finish
  <2>6. CASE Spawn
    <3>1. ~HelperAlive /\ guard \in {"none", "active"} /\ ~PreventsMonitoring(health)
      BY Zenon, <2>6 DEF Spawn
    <3> HIDE DEF IInv
    <3> QED
      BY <2>6, <3>1 DEF Spawn, Goto, Finish
  <2>7. CASE HandOff
    <3> HIDE DEF IInv
    <3> QED
      BY <2>7 DEF HandOff, Goto
  <2>8. CASE Poll
    <3> HIDE DEF IInv
    <3> QED
      BY <2>8 DEF Poll, Goto, Finish
  <2>9. CASE Kill
    BY <2>9, Zenon DEF Kill, Goto
  <2>10. CASE Reap
    <3> HIDE DEF IInv
    <3> QED
      BY <2>10 DEF Reap, Goto, Finish
  <2>11. CASE Release
    <3>1. ~HelperAlive /\ guard \in {"none", "active", "releasing"} /\ ~PreventsMonitoring(health)
      BY Zenon, <2>11 DEF Release
    <3> HIDE DEF IInv
    <3> QED
      BY <2>11, <3>1 DEF Release, BeginRelease, ResumeOk, ResumeErr, TerminateAfterRetries, TerminateTask
  <2>12. CASE Contain
    BY <2>12, Zenon DEF Contain, Goto, ContainWithoutResume, TerminateTask
  <2>13. CASE AfterCapture
    BY <2>13, Zenon DEF AfterCapture
  <2>14. CASE WaitError
    BY <2>14, Zenon DEF WaitError, Goto
  <2>15. CASE HelperExits
    <3> HIDE DEF IInv
    <3> QED
      BY <2>15 DEF HelperExits, Environment
  <2>16. CASE HelperStolen
    <3> HIDE DEF IInv
    <3> QED
      BY <2>16 DEF HelperStolen, Environment
  <2>17. CASE Expire
    BY <2>17, Zenon DEF Expire
  <2>18. CASE ExpireGrace
    BY <2>18, Zenon DEF ExpireGrace
  <2>19. CASE TaskDeath
    BY <2>19, Zenon DEF TaskDeath, TaskDies, captureVars
  <2>20. CASE UNCHANGED vars
    BY <2>20, Zenon DEF vars, captureVars
  <2> QED
    BY <2>1, <2>2, <2>3, <2>4, <2>5, <2>6, <2>7, <2>8, <2>9, <2>10, <2>11, <2>12, <2>13, <2>14, <2>15, <2>16, <2>17, <2>18, <2>19, <2>20, Zenon DEF Next, CaptureStep
<1> QED
  BY <1>1, <1>2, Invariance, PTL DEF Spec, ImplementsContract, C!Contract

-----------------------------------------------------------------------------
(***************************************************************************)
(* Proofs about CaptureWorker with either backend, for every list of       *)
(* collectors: what a capture leaves to the worker thread, and that the    *)
(* results about IsolatedCapture hold in it.                               *)
(***************************************************************************)

\* A guard that is held holds the task.
GuardHolds ==
    /\ suspended \in Nat
    /\ guard \in {"active", "releasing", "contained"} => suspended > 0

\* The worker thread has nothing to do.
Unemployed == queue = <<>> /\ job = NoJob

\* There is at most one job, its capture is the one that waits, which has not
\* cancelled it and gave it its copy; a capture that does not wait has cancelled
\* it; only an idle worker is in use.
JobInv ==
    /\ job \in Job /\ queue \in Seq(Job) /\ payload \in Payloads \cup {"none"} /\ copy \in BOOLEAN
    /\ Len(queue) <= 1 /\ (queue # <<>> => job = NoJob)
    /\ pc = "await" => sender = "open" /\ backend = "in-process"
    /\ sender = "open" /\ pc # "await" => Unemployed
    /\ pc = "await" /\ payload # "none" => Unemployed
    /\ pc \in {"setup", "acquire", "snapshot", "launch"} => payload = "none"
    /\ backend = "in-process" /\ pc \in {"acquire", "snapshot", "launch"} => sender = "open"
    /\ pc # "await" => \A j \in Jobs : j.cancelled
    /\ pc = "await" => \A j \in Jobs :
          j = NoJob \/ (j.current /\ ~j.cancelled /\ j.guarded = (guard = "active") /\ j.shm = copy)

\* The payload that the capture which waits should get.
Wanted == IF copy /\ PersistRawShm THEN "raw" ELSE "bare"

\* What the worker builds for that capture, and what it has sent, is that.
PayloadInv ==
    /\ built \in Payloads
    /\ pc = "await" /\ worker = "send" /\ job.current => built = Wanted
    /\ pc = "await" /\ payload # "none" => payload = Wanted

\* The copy is made after the suspension; an outcome, once built, has what is
\* kept of it.
CopyInv ==
    /\ pc \in {"setup", "acquire", "snapshot"} => copy = FALSE
    /\ pc \in {"setup", "acquire", "snapshot"} => carried = {}
    /\ pc \in {"release", "contain", "returned"} => carried = DeferOwned(RawShm)

\* What each backend leaves alone.
BackendInv ==
    /\ backend \in {"isolated", "in-process"}
    /\ backend = "isolated" => pc # "await" /\ sender = "dropped"
    /\ backend = "in-process" =>
          /\ helper = "none"
          /\ pc \notin {"spawn", "handoff", "poll", "kill", "reap", "contain"}

WorkerInv == GuardHolds /\ JobInv /\ PayloadInv /\ CopyInv /\ BackendInv

-----------------------------------------------------------------------------
(* The steps of the event-loop thread.                                     *)

\* Every step of a capture keeps the suspension of the guard that is held.
LEMMA StepKeepsGuard ==
    ASSUME GuardHolds, WorkerNext
    PROVE  GuardHolds'
<1> USE DEF GuardHolds, taskVars
<1>1. CASE \E k \in Kinds : BeginCapture(k)
  BY <1>1 DEF BeginCapture, Begin, NewGuard
<1>2. CASE Shared(Acquire \/ Release \/ AfterCapture)
  <2>1. CASE Acquire  BY <2>1 DEF Acquire, AcquireOk, AcquireErr
  <2>2. CASE Release
    BY <2>2 DEF Release, BeginRelease, ResumeOk, ResumeErr, TerminateAfterRetries
  <2>3. CASE AfterCapture  BY <2>3 DEF AfterCapture
  <2> QED  BY <1>2, <2>1, <2>2, <2>3 DEF Shared
<1>3. CASE CopyShm  BY <1>3 DEF CopyShm, Snapshot
<1>4. CASE Shared(backend = "isolated" /\ (Setup \/ Contain)) \/ RunIsolated(IsolatedRun) \/ RunIsolated(WaitError)
  <2>1. CASE Contain  BY <2>1 DEF Contain, ContainWithoutResume
  <2>2. CASE Setup \/ IsolatedRun \/ WaitError
    BY <2>2 DEF IsolatedRun, Setup, Launch, Spawn, HandOff, Poll, Kill, Reap, WaitError
  <2> QED  BY <1>4, <2>1, <2>2 DEF Shared, RunIsolated
<1>5. CASE Shared(WorkerSetup) \/ Enqueue \/ Await
  BY <1>5 DEF Shared, WorkerSetup, Enqueue, Await
<1>6. CASE Shared(backend = "isolated" /\ IsolatedEvent)
  BY <1>6 DEF Shared, IsolatedEvent, HelperExits, HelperStolen, ExpireGrace, Environment
<1>7. CASE Shared(Expire \/ TaskDeath)
  BY <1>7 DEF Shared, Expire, TaskDeath, TaskDies
<1>8. CASE CloseWorker \/ WorkerStep
  BY <1>8 DEF CloseWorker, WorkerStep, Receive, NextCollector, CollectorReturns, BuildPayload, SendPayload,
       WorkerPanics, WorkerTo, vars
<1> QED
  BY <1>1, <1>2, <1>3, <1>4, <1>5, <1>6, <1>7, <1>8 DEF WorkerNext, EventLoopStep

\* A step between two places where the capture does not wait for the worker,
\* or one that leaves the place and the guard alone, keeps the jobs.
LEMMA PlaceKeepsJobs ==
    ASSUME JobInv, UNCHANGED <<backend, sender, queue, job, payload>>,
           \/ pc' = pc /\ guard' = guard /\ copy' = copy
           \/ /\ pc # "await" /\ pc' \notin {"await", "setup"} /\ copy' \in BOOLEAN
              /\ pc' \in {"acquire", "snapshot", "launch"} =>
                    payload = "none" /\ (backend = "in-process" => sender = "open")
    PROVE  JobInv'
BY DEF JobInv, Unemployed, Jobs, NoJob

\* The steps that both backends share keep the jobs.
LEMMA SharedKeepsJobs ==
    ASSUME JobInv, BackendInv,
           \/ Shared(Acquire \/ Release \/ AfterCapture) \/ Shared(WorkerSetup)
           \/ Shared(backend = "isolated" /\ (Setup \/ Contain))
           \/ RunIsolated(IsolatedRun) \/ RunIsolated(WaitError)
           \/ Shared(backend = "isolated" /\ IsolatedEvent)
           \/ Shared(Expire \/ TaskDeath)
    PROVE  JobInv'
<1> USE DEF Goto, Finish
<1>0. UNCHANGED <<backend, sender, queue, job, payload, copy>>  BY Zenon DEF Shared, RunIsolated, workerVars
<1>1. CASE Acquire
  BY <1>0, <1>1, PlaceKeepsJobs, Zenon DEF Acquire, JobInv
<1>2. CASE Release \/ AfterCapture
  BY <1>0, <1>2, PlaceKeepsJobs, Zenon DEF Release, AfterCapture, BeginRelease, ResumeErr, JobInv
<1>3. CASE WorkerSetup
  BY <1>0, <1>3, PlaceKeepsJobs, Zenon DEF WorkerSetup, JobInv
<1>4. CASE backend = "isolated" /\ (Setup \/ Contain \/ IsolatedRun \/ WaitError)
  BY <1>0, <1>4, PlaceKeepsJobs, Zenon DEF IsolatedRun, Setup, Launch, Spawn, HandOff, Poll, Kill, Reap, Contain,
       WaitError, JobInv
<1>5. CASE backend = "isolated" /\ IsolatedEvent
  BY <1>0, <1>5, PlaceKeepsJobs, Zenon DEF IsolatedEvent, HelperExits, HelperStolen, ExpireGrace,
       Environment, taskVars
<1>6. CASE Expire \/ TaskDeath
  BY <1>0, <1>6, PlaceKeepsJobs, Zenon DEF Expire, TaskDeath, TaskDies, taskVars, captureVars
<1> QED  BY <1>1, <1>2, <1>3, <1>4, <1>5, <1>6, Zenon DEF Shared, RunIsolated

\* A queue of one job.
LEMMA OneQueued ==
    ASSUME NEW new, NEW q, q = <<new>>
    PROVE  DOMAIN q = {1} /\ q[1] = new /\ Len(q) = 1 /\ (new \in Job => q \in Seq(Job))
OBVIOUS

\* A mapping over the queue keeps its length.
LEMMA MappedQueue ==
    ASSUME NEW q \in Seq(Job), NEW F(_), \A i \in DOMAIN q : F(q[i]) \in Job,
           NEW r, r = [i \in DOMAIN q |-> F(q[i])]
    PROVE  r \in Seq(Job) /\ Len(r) = Len(q) /\ DOMAIN r = DOMAIN q
<1>1. Len(q) \in Nat /\ DOMAIN q = 1 .. Len(q)  OBVIOUS
<1>2. r \in [1 .. Len(q) -> Job]  BY <1>1
<1>3. r \in Seq(Job)  BY <1>1, <1>2
<1> QED  BY <1>1, <1>2, <1>3

\* What is queued is a job.
LEMMA QueuedJob ==
    ASSUME NEW q \in Seq(Job)
    PROVE  \A i \in DOMAIN q : q[i] \in Job
OBVIOUS

\* A queue of at most one job that is not empty has one.
LEMMA SingleJob ==
    ASSUME NEW q \in Seq(Job), Len(q) <= 1, q # <<>>
    PROVE  Len(q) = 1
<1>1. Len(q) \in Nat  OBVIOUS
<1>2. Len(q) # 0  OBVIOUS
<1>3. \A n \in Nat : n <= 1 /\ n # 0 => n = 1  OBVIOUS
<1> QED  BY <1>1, <1>2, <1>3, Zenon

\* A new capture finds only cancelled jobs of earlier ones.
LEMMA BeginKeepsJobs ==
    ASSUME JobInv, NEW k \in Kinds, BeginCapture(k)
    PROVE  JobInv'
<1> USE DEF BeginCapture, Begin, JobInv
<1>1. \A j \in Job : Older(j) \in Job /\ Older(j).cancelled = j.cancelled  BY Zenon DEF Older, Job
<1>2. Older(NoJob) = NoJob
  <2>1. NoJob \in Job /\ Older(NoJob) \in Job  BY <1>1, Zenon DEF NoJob, Job
  <2>2. /\ Older(NoJob).current = NoJob.current
        /\ Older(NoJob).cancelled = NoJob.cancelled
        /\ Older(NoJob).guarded = NoJob.guarded
        /\ Older(NoJob).shm = NoJob.shm
    BY DEF Older, NoJob
  <2> QED  BY <2>1, <2>2 DEF Job
<1>3. queue' \in Seq(Job) /\ Len(queue') = Len(queue) /\ DOMAIN queue' = DOMAIN queue
  <2>1. \A i \in DOMAIN queue : Older(queue[i]) \in Job  BY <1>1, QueuedJob
  <2> QED  BY <2>1, MappedQueue
<1>4. job' \in Job  BY <1>1
<1>5. Unemployed => Unemployed'  BY <1>2, <1>3 DEF Unemployed
<1>6. \A j \in Jobs' : j.cancelled
  <2>1. job'.cancelled  BY <1>1 DEF Jobs
  <2>2. \A i \in DOMAIN queue' : queue'[i].cancelled
    <3> TAKE i \in DOMAIN queue'
    <3>1. queue[i] \in Job /\ queue[i].cancelled /\ queue'[i] = Older(queue[i])  BY <1>3, QueuedJob DEF Jobs
    <3> QED  BY <1>1, <3>1
  <2> QED  BY <2>1, <2>2 DEF Jobs
<1>7. queue' # <<>> => job' = NoJob  BY <1>2, <1>3
<1> QED  BY <1>3, <1>4, <1>5, <1>6, <1>7, Zenon

\* The copy leaves the jobs alone.
LEMMA CopyKeepsJobs ==
    ASSUME JobInv, CopyShm
    PROVE  JobInv'
BY PlaceKeepsJobs, Zenon DEF CopyShm, Snapshot, Goto, Finish, JobInv

\* The one job is queued for an idle worker.
LEMMA EnqueueKeepsJobs ==
    ASSUME JobInv, Enqueue
    PROVE  JobInv'
<1> USE DEF Enqueue, Goto, Finish
<1>0. sender = "open" /\ Unemployed /\ payload = "none" /\ pc = "launch"  BY Zenon DEF JobInv
<1>1. CASE pc' = "release"
  BY <1>0, <1>1, Zenon DEF JobInv, Unemployed, Jobs, NoJob
<1>2. CASE pc' = "await"
  <2> DEFINE new == [current |-> TRUE, cancelled |-> FALSE, guarded |-> guard = "active", shm |-> copy]
  <2>1. queue' = <<new>> /\ guard' = guard /\ copy' = copy  BY <1>2, Zenon DEF taskVars
  <2>3. new \in Job  BY Zenon DEF Job, JobInv
  <2>2. \A j \in Jobs' : j = NoJob \/ j = new
    <3>1. DOMAIN queue' = {1} /\ queue'[1] = new  BY <2>1, OneQueued, Zenon
    <3>2. job' = NoJob  BY <1>0, Zenon DEF Unemployed
    <3> QED  BY <3>1, <3>2, Zenon DEF Jobs
  <2> QED  BY <1>0, <1>2, <2>1, <2>2, <2>3, OneQueued DEF JobInv, Unemployed
<1> QED  BY <1>1, <1>2

\* A capture stops waiting with its payload, or after cancelling its job.
LEMMA AwaitKeepsJobs ==
    ASSUME JobInv, Await
    PROVE  JobInv'
<1> USE DEF Await, Goto, Finish
<1>1. CASE Received
  BY <1>1 DEF Received, JobInv, Unemployed, Jobs, NoJob
<1>2. CASE ~Received
  <2> USE <1>2 DEF JobInv, CancelJobs
  <2>1. \A j \in Job : Cancel(j) \in Job /\ (j.current \/ j.cancelled => Cancel(j).cancelled)
    BY Zenon DEF Cancel, Job
  <2>2. Cancel(NoJob) = NoJob  BY DEF Cancel, NoJob
  <2>3. queue' = [i \in DOMAIN queue |-> Cancel(queue[i])] /\ job' = Cancel(job) /\ pc' = "release"
    /\ sender' = "retired"  OBVIOUS
  <2>4. queue' \in Seq(Job) /\ Len(queue') = Len(queue) /\ DOMAIN queue' = DOMAIN queue
    <3>1. \A i \in DOMAIN queue : Cancel(queue[i]) \in Job  BY <2>1, QueuedJob, Zenon
    <3> QED  BY <2>3, <3>1, MappedQueue
  <2>5. \A j \in Jobs' : j.cancelled
    <3>1. \A j \in Jobs : j.current \/ j.cancelled  BY DEF NoJob
    <3>2. job'.cancelled  BY <2>1, <2>3, <3>1, Zenon DEF Jobs
    <3>3. \A i \in DOMAIN queue' : queue'[i].cancelled
      <4> TAKE i \in DOMAIN queue'
      <4>1. queue[i] \in Job /\ queue[i] \in Jobs /\ queue'[i] = Cancel(queue[i])
        BY <2>3, <2>4, QueuedJob, Zenon DEF Jobs
      <4> QED  BY <2>1, <3>1, <4>1, Zenon
    <3> QED  BY <3>2, <3>3 DEF Jobs
  <2>6. job' \in Job /\ (queue' # <<>> => job' = NoJob)  BY <2>1, <2>2, <2>3, <2>4
  <2> QED  BY <2>3, <2>4, <2>5, <2>6, Zenon
<1> QED  BY <1>1, <1>2

\* The worker thread takes the job, works on it and forgets it.
LEMMA WorkerKeepsJobs ==
    ASSUME JobInv, PayloadInv, CloseWorker \/ WorkerStep
    PROVE  JobInv'
<1> USE DEF WorkerTo, vars, taskVars, captureVars
<1>1. CASE CloseWorker  BY <1>1, Zenon DEF CloseWorker, JobInv, Unemployed, Jobs
<1>2. CASE Receive
  <2>1. CASE queue = <<>>  BY <1>2, <2>1, Zenon DEF Receive, JobInv, Unemployed, Jobs
  <2>2. CASE queue # <<>>
    <3>1. Len(queue) = 1 /\ job = NoJob /\ queue \in Seq(Job)  BY <2>2, SingleJob DEF JobInv
    <3>2. job' = queue[1] /\ queue' = <<>>  BY <1>2, <2>2, <3>1 DEF Receive
    <3>3. job' \in Job /\ job' \in Jobs  BY <3>1, <3>2, QueuedJob DEF Jobs
    <3>4. Jobs' = {job'}  BY <3>2 DEF Jobs
    <3> QED  BY <1>2, <2>2, <3>1, <3>2, <3>3, <3>4 DEF Receive, JobInv, Unemployed
  <2> QED  BY <2>1, <2>2
<1>3. CASE NextCollector \/ CollectorReturns \/ BuildPayload
  <2>1. CASE NextCollector
    <3>1. UNCHANGED <<pc, guard, copy, backend, sender, queue, job, payload>>
      BY <2>1, Zenon DEF NextCollector, WorkerTo, vars, captureVars
    <3> QED  BY <3>1, PlaceKeepsJobs, Zenon
  <2>2. CASE CollectorReturns
    BY <2>2, Zenon DEF CollectorReturns, JobInv, Unemployed, Jobs
  <2>3. CASE BuildPayload
    BY <2>3, Zenon DEF BuildPayload, JobInv, Unemployed, Jobs
  <2> QED  BY <1>3, <2>1, <2>2, <2>3, Zenon
<1>4. CASE SendPayload \/ WorkerPanics
  <2>1. job' = NoJob /\ queue' = queue /\ UNCHANGED <<pc, guard, copy, sender, backend>>
    BY <1>4 DEF SendPayload, WorkerPanics
  <2>2. NoJob \in Job  BY DEF NoJob, Job
  <2>3. payload' # payload => pc = "await" /\ job.current  BY <1>4 DEF SendPayload, WorkerPanics, JobInv
  <2>4. payload' # payload => queue = <<>>  BY <2>3 DEF JobInv, NoJob
  <2>5. \A j \in Jobs' : j = NoJob \/ j \in Jobs  BY <2>1 DEF Jobs
  <2>6. NoJob.cancelled  BY DEF NoJob
  <2>7. payload' \in Payloads \cup {"none"}  BY <1>4, Zenon DEF SendPayload, WorkerPanics, JobInv, PayloadInv
  <2>8. Unemployed => Unemployed'  BY <2>1 DEF Unemployed
  <2> QED
    BY <2>1, <2>2, <2>3, <2>4, <2>5, <2>6, <2>7, <2>8 DEF JobInv, Unemployed
<1> QED  BY <1>1, <1>2, <1>3, <1>4 DEF WorkerStep

\* Every step of both threads keeps the jobs.
LEMMA StepKeepsJobs ==
    ASSUME JobInv, PayloadInv, BackendInv, WorkerNext
    PROVE  JobInv'
BY SharedKeepsJobs, BeginKeepsJobs, CopyKeepsJobs, EnqueueKeepsJobs, AwaitKeepsJobs, WorkerKeepsJobs
   DEF WorkerNext, EventLoopStep

\* The worker builds and sends the payload its capture wants, or the capture
\* no longer waits.
LEMMA StepKeepsPayload ==
    ASSUME JobInv, PayloadInv, BackendInv, WorkerNext
    PROVE  PayloadInv'
<1>1. CASE WorkerStep
  <2> USE DEF WorkerTo
  <2>0. UNCHANGED <<pc, copy, guard>>
    BY <1>1, Zenon DEF WorkerStep, Receive, NextCollector, CollectorReturns, BuildPayload, SendPayload, WorkerPanics,
         vars, taskVars, captureVars
  <2>1. Wanted' = Wanted  BY <2>0, Zenon DEF Wanted
  <2>2. CASE BuildPayload
    <3>1. job \in Jobs /\ ~NoJob.current  BY DEF Jobs, NoJob
    <3>2. pc = "await" /\ job.current => ~job.cancelled /\ job.shm = copy  BY <3>1, Zenon DEF JobInv
    <3>3. pc = "await" /\ job.current => built' = Wanted  BY <2>2, <3>2, Zenon DEF BuildPayload, Wanted
    <3> QED  BY <2>0, <2>1, <2>2, <3>3 DEF BuildPayload, PayloadInv, Payloads
  <2>3. CASE SendPayload
    BY <2>0, <2>1, <2>3 DEF SendPayload, PayloadInv, Payloads
  <2>4. CASE Receive \/ NextCollector \/ CollectorReturns \/ WorkerPanics
    <3>1. UNCHANGED <<built, payload>> /\ worker' # "send"
      BY <2>4 DEF Receive, NextCollector, CollectorReturns, WorkerPanics
    <3> QED  BY <2>0, <2>1, <3>1, Zenon DEF PayloadInv
  <2> QED  BY <1>1, <2>2, <2>3, <2>4, Zenon DEF WorkerStep
<1>2. CASE ~WorkerStep
  <2>1. built' = built
    BY <1>2, Zenon DEF WorkerNext, EventLoopStep, BeginCapture, Shared, RunIsolated, CopyShm, Enqueue, Await, CloseWorker,
         workerVars
  <2>2. pc' # "await" \/ UNCHANGED <<pc, worker, job, payload, copy>> \/ Enqueue
    <3> USE DEF Goto, Finish
    <3>1. CASE \E k \in Kinds : BeginCapture(k)  BY <3>1 DEF BeginCapture, Begin
    <3>2. CASE Shared(Acquire \/ Release \/ AfterCapture)
      BY <3>2, Zenon DEF Shared, Acquire, Release, AfterCapture, workerVars
    <3>3. CASE CopyShm  BY <3>3, Zenon DEF CopyShm, Snapshot
    <3>4. CASE Shared(backend = "isolated" /\ (Setup \/ Contain)) \/ Shared(WorkerSetup)
      BY <3>4, Zenon DEF Shared, Setup, Contain, WorkerSetup
    <3>5. CASE RunIsolated(IsolatedRun) \/ RunIsolated(WaitError)
      BY <3>5, Zenon DEF RunIsolated, IsolatedRun, Launch, Spawn, HandOff, Poll, Kill, Reap, WaitError
    <3>6. CASE Await  BY <3>6, Zenon DEF Await, Received
    <3>7. CASE Shared(backend = "isolated" /\ IsolatedEvent) \/ Shared(Expire \/ TaskDeath) \/ CloseWorker
      BY <3>7, Zenon DEF Shared, IsolatedEvent, HelperExits, HelperStolen, ExpireGrace, Environment, Expire, TaskDeath,
           CloseWorker, workerVars, vars, captureVars
    <3> QED
      BY <1>2, <3>1, <3>2, <3>3, <3>4, <3>5, <3>6, <3>7, Zenon DEF WorkerNext, EventLoopStep
  <2>3. CASE Enqueue
    <3>1. payload' = "none" /\ job' = NoJob  BY <2>3, Zenon DEF Enqueue, JobInv, Unemployed
    <3>2. ~NoJob.current  BY DEF NoJob
    <3> QED  BY <2>1, <3>1, <3>2, Zenon DEF PayloadInv
  <2>4. CASE pc' # "await"  BY <2>1, <2>4, Zenon DEF PayloadInv
  <2>5. CASE UNCHANGED <<pc, worker, job, payload, copy>>  BY <2>1, <2>5, Zenon DEF PayloadInv, Wanted
  <2> QED  BY <2>2, <2>3, <2>4, <2>5, Zenon
<1> QED  BY <1>1, <1>2

\* Nothing is carried of a copy that was not made.
LEMMA NothingCopied ==
    ASSUME copy = FALSE
    PROVE  DeferOwned(RawShm) = {}
BY DEF DeferOwned, RawShm

\* Every step keeps what the outcome carries: it is set where the outcome is
\* built, and there is no copy before.
LEMMA StepKeepsCopy ==
    ASSUME PayloadInv, CopyInv, BackendInv, WorkerNext
    PROVE  CopyInv'
<1> DEFINE Kept == DeferOwned(RawShm)
<1> USE DEF Goto, Finish
<1>0. ASSUME UNCHANGED <<backend, copy>>
      PROVE  Kept' = Kept
  BY <1>0, Zenon DEF DeferOwned, RawShm
<1>1. CASE \E k \in Kinds : BeginCapture(k)
  BY <1>1, Zenon DEF BeginCapture, Begin, CopyInv
<1>2. CASE Shared(Acquire \/ Release \/ AfterCapture \/ WorkerSetup)
           \/ Shared(backend = "isolated" /\ (Setup \/ Contain))
  <2>1. UNCHANGED <<backend, copy, carried>>  BY <1>2, Zenon DEF Shared, workerVars
  <2>2. \/ pc \in {"setup", "acquire"} /\ pc' \in {"acquire", "snapshot", "returned"}
        \/ pc \in {"release", "contain"} /\ pc' \in {"release", "returned"}
        \/ pc' = "idle"
    <3>1. CASE Acquire  BY <3>1, Zenon DEF Acquire
    <3>2. CASE Release \/ AfterCapture  BY <3>2, Zenon DEF Release, AfterCapture
    <3>3. CASE WorkerSetup \/ Setup \/ Contain  BY <3>3, Zenon DEF WorkerSetup, Setup, Contain
    <3> QED  BY <1>2, <3>1, <3>2, <3>3, Zenon DEF Shared
  <2>3. CASE pc \in {"setup", "acquire"}
    <3>1. copy = FALSE /\ carried = {}  BY <2>3, Zenon DEF CopyInv
    <3>2. Kept = {}  BY <3>1, NothingCopied, Zenon
    <3> QED  BY <1>0, <2>1, <3>1, <3>2, Zenon DEF CopyInv
  <2>4. CASE pc \in {"release", "contain"} /\ pc' \in {"release", "returned"}
    BY <1>0, <2>1, <2>4, Zenon DEF CopyInv
  <2>5. CASE pc' = "idle"  BY <2>5, Zenon DEF CopyInv
  <2> QED  BY <2>2, <2>3, <2>4, <2>5, Zenon
<1>3. CASE CopyShm
  <2>1. carried = {} /\ carried' = {} /\ backend' = backend  BY <1>3, Zenon DEF CopyShm, Snapshot, CopyInv
  <2>2. pc' = "launch" \/ (pc' = "release" /\ copy' = FALSE)
    BY <1>3, Zenon DEF CopyShm, Snapshot
  <2>3. copy' = FALSE => Kept' = {}  BY <2>1 DEF DeferOwned, RawShm
  <2> QED  BY <2>1, <2>2, <2>3, Zenon DEF CopyInv
<1>4. CASE RunIsolated(IsolatedRun) \/ RunIsolated(WaitError)
  <2>1. UNCHANGED <<backend, copy>>  BY <1>4, Zenon DEF RunIsolated
  <2>2. pc' \notin {"setup", "acquire", "snapshot", "returned"}
    BY <1>4, Zenon DEF RunIsolated, IsolatedRun, Launch, Spawn, HandOff, Poll, Kill, Reap, WaitError
  <2>3. pc' \in {"release", "contain"} => carried' = Kept  BY <1>4, Zenon DEF RunIsolated
  <2> QED  BY <1>0, <2>1, <2>2, <2>3, Zenon DEF CopyInv
<1>5. CASE Enqueue
  <2>1. UNCHANGED <<backend, copy>> /\ backend # "isolated"  BY <1>5, Zenon DEF Enqueue
  <2>2. pc' = "await" \/ (pc' = "release" /\ carried' = RawShm)  BY <1>5, Zenon DEF Enqueue
  <2>3. Kept = RawShm  BY <2>1 DEF DeferOwned
  <2> QED  BY <1>0, <2>1, <2>2, <2>3, Zenon DEF CopyInv
<1>6. CASE Await
  <2>1. UNCHANGED <<backend, copy>> /\ backend # "isolated"  BY <1>6, Zenon DEF Await, BackendInv
  <2>2. pc' = "release" /\ carried' = RawShm
    <3>1. CASE Received
      <4>1. payload = Wanted /\ carried' = (IF payload = "raw" THEN {"raw"} ELSE {})
        BY <1>6, <3>1, Zenon DEF Await, Received, PayloadInv
      <4> QED  BY <3>1, <4>1 DEF Received, Wanted, RawShm
    <3>2. CASE ~Received  BY <1>6, <3>2, Zenon DEF Await
    <3> QED  BY <3>1, <3>2, Zenon
  <2>3. Kept = RawShm  BY <2>1 DEF DeferOwned
  <2> QED  BY <1>0, <2>1, <2>2, <2>3, Zenon DEF CopyInv
<1>7. CASE Shared(backend = "isolated" /\ IsolatedEvent) \/ Shared(Expire \/ TaskDeath) \/ CloseWorker \/ WorkerStep
  <2>1. UNCHANGED <<backend, pc, copy, carried>>
    <3>1. CASE Shared(backend = "isolated" /\ IsolatedEvent)
      BY <3>1, Zenon DEF Shared, workerVars, IsolatedEvent, HelperExits, HelperStolen, ExpireGrace, Environment
    <3>2. CASE Shared(Expire \/ TaskDeath)  BY <3>2, Zenon DEF Shared, workerVars, Expire, TaskDeath, captureVars
    <3>3. CASE CloseWorker  BY <3>3, Zenon DEF CloseWorker, vars, captureVars
    <3>4. CASE WorkerStep
      BY <3>4, Zenon DEF WorkerStep, Receive, NextCollector, CollectorReturns, BuildPayload, SendPayload, WorkerPanics,
           WorkerTo, vars, captureVars
    <3> QED  BY <1>7, <3>1, <3>2, <3>3, <3>4, Zenon
  <2> QED  BY <1>0, <2>1, Zenon DEF CopyInv
<1> QED
  BY <1>1, <1>2, <1>3, <1>4, <1>5, <1>6, <1>7, Zenon DEF WorkerNext, EventLoopStep, Shared

\* No step changes the backend or does what is the other one's.
LEMMA StepKeepsBackend ==
    ASSUME BackendInv, WorkerNext
    PROVE  BackendInv' /\ backend' = backend
<1> USE DEF BackendInv, Goto, Finish
<1>1. CASE \E k \in Kinds : BeginCapture(k)
  BY <1>1 DEF BeginCapture, Begin
<1>2. CASE Shared(Acquire \/ Release \/ AfterCapture)
  BY <1>2, Zenon DEF Shared, Acquire, Release, AfterCapture, workerVars
<1>3. CASE CopyShm  BY <1>3 DEF CopyShm, Snapshot
<1>4. CASE Shared(backend = "isolated" /\ (Setup \/ Contain)) \/ RunIsolated(IsolatedRun) \/ RunIsolated(WaitError)
  BY <1>4, Zenon DEF Shared, RunIsolated, IsolatedRun, Setup, Launch, Spawn, HandOff, Poll, Kill, Reap, Contain,
       WaitError, workerVars
<1>5. CASE Shared(WorkerSetup)  BY <1>5 DEF Shared, WorkerSetup, workerVars
<1>6. CASE Enqueue \/ Await  BY <1>6, Zenon DEF Enqueue, Await, Received
<1>7. CASE Shared(backend = "isolated" /\ IsolatedEvent)
  BY <1>7, Zenon DEF Shared, IsolatedEvent, HelperExits, HelperStolen, ExpireGrace, Environment, workerVars
<1>8. CASE Shared(Expire \/ TaskDeath)
  BY <1>8 DEF Shared, Expire, TaskDeath, captureVars, workerVars
<1>9. CASE CloseWorker \/ WorkerStep
  BY <1>9, Zenon DEF CloseWorker, WorkerStep, Receive, NextCollector, CollectorReturns, BuildPayload, SendPayload,
       WorkerPanics, WorkerTo, vars, captureVars
<1> QED
  BY <1>1, <1>2, <1>3, <1>4, <1>5, <1>6, <1>7, <1>8, <1>9, Zenon DEF WorkerNext, EventLoopStep

-----------------------------------------------------------------------------
(* The theorems.                                                           *)

(***************************************************************************)
(* The inductive invariant holds in every reachable state of the worker.   *)
(***************************************************************************)
THEOREM WorkerInvariance == WorkerSpec => []WorkerInv
<1>1. WorkerInit => WorkerInv
  <2> SUFFICES ASSUME WorkerInit PROVE WorkerInv
    OBVIOUS
  <2> USE DEF WorkerInit, Init, TaskInit
  <2>1. GuardHolds  BY DEF GuardHolds
  <2>2. JobInv
    <3>1. NoJob \in Job /\ NoJob.cancelled  BY DEF NoJob, Job
    <3>2. \A j \in Jobs : j = NoJob  BY DEF Jobs
    <3>3. queue \in Seq(Job) /\ Len(queue) <= 1  OBVIOUS
    <3> QED  BY <3>1, <3>2, <3>3, Zenon DEF JobInv, Unemployed
  <2>3. PayloadInv /\ CopyInv /\ BackendInv  BY DEF PayloadInv, Payloads, CopyInv, BackendInv
  <2> QED  BY <2>1, <2>2, <2>3 DEF WorkerInv
<1>2. WorkerInv /\ [WorkerNext]_captureWorkerVars => WorkerInv'
  <2>1. ASSUME WorkerInv, WorkerNext
        PROVE  WorkerInv'
    BY <2>1, StepKeepsGuard, StepKeepsJobs, StepKeepsPayload, StepKeepsCopy, StepKeepsBackend, Zenon DEF WorkerInv
  <2>2. ASSUME WorkerInv, UNCHANGED captureWorkerVars
        PROVE  WorkerInv'
    <3>1. UNCHANGED <<suspended, guard, pc, helper, job, queue, worker, built, payload, sender, backend, copy, carried>>
      BY <2>2, Zenon DEF captureWorkerVars, workerVars, vars, taskVars, captureVars
    <3>2. GuardHolds'  BY <2>2, <3>1, Zenon DEF WorkerInv, GuardHolds
    <3>3. JobInv'  BY <2>2, <3>1, Zenon DEF WorkerInv, JobInv, Unemployed, Jobs
    <3>4. PayloadInv' /\ CopyInv'
      BY <2>2, <3>1, Zenon DEF WorkerInv, PayloadInv, Wanted, CopyInv, DeferOwned, RawShm
    <3>5. BackendInv'  BY <2>2, <3>1, Zenon DEF WorkerInv, BackendInv
    <3> QED  BY <3>2, <3>3, <3>4, <3>5, Zenon DEF WorkerInv
  <2> QED  BY <2>1, <2>2
<1> QED  BY <1>1, <1>2, PTL DEF WorkerSpec

(***************************************************************************)
(* For every list of collectors: when the live task runs, every job of a   *)
(* capture that had suspended it is cancelled (worker.rs, "Publish         *)
(* cancellation before resume").                                           *)
(***************************************************************************)
THEOREM NoCollectorAfterResume == WorkerSpec => []CancelledBeforeResume
<1>1. WorkerInv => CancelledBeforeResume
  <2> SUFFICES ASSUME WorkerInv, NEW j \in Jobs, j.guarded, suspended = 0, ~j.cancelled
               PROVE  FALSE
    BY DEF CancelledBeforeResume
  <2>1. pc = "await" /\ j # NoJob  BY DEF WorkerInv, JobInv, NoJob
  <2>2. guard = "active"  BY <2>1, Zenon DEF WorkerInv, JobInv
  <2> QED  BY <2>2 DEF WorkerInv, GuardHolds
<1> QED  BY <1>1, WorkerInvariance, PTL

(***************************************************************************)
(* A capture never queues its job behind, or runs beside, the collectors   *)
(* of an earlier one: a worker that missed a deadline is retired.          *)
(***************************************************************************)
THEOREM OneCaptureAtATime == WorkerSpec => []OneJobAtATime
<1>1. WorkerInv => OneJobAtATime
  <2> SUFFICES ASSUME WorkerInv, NEW j \in Jobs, NEW i \in Jobs, j.current, ~i.current, i # NoJob
               PROVE  FALSE
    BY DEF OneJobAtATime
  <2>1. queue \in Seq(Job) /\ Len(queue) <= 1 /\ (queue # <<>> => job = NoJob)  BY DEF WorkerInv, JobInv
  <2>2. ~NoJob.current  BY DEF NoJob
  <2>3. CASE queue = <<>>  BY <2>3 DEF Jobs
  <2>4. CASE queue # <<>>
    <3>1. Len(queue) = 1  BY <2>1, <2>4, SingleJob
    <3>2. DOMAIN queue = {1}  BY <2>1, <3>1
    <3>3. j = queue[1] /\ i = queue[1]  BY <2>1, <2>2, <2>4, <3>2 DEF Jobs
    <3> QED  BY <3>3
  <2> QED  BY <2>3, <2>4
<1> QED  BY <1>1, WorkerInvariance, PTL

(***************************************************************************)
(* For every list of collectors and either policy: every outcome has the   *)
(* raw bytes of the shared-memory copy exactly when there is a copy and    *)
(* the policy keeps them, and the copy itself exactly with isolation.  The *)
(* in-process case rests on PayloadInv: a worker that sees its job         *)
(* cancelled builds a payload without the bytes, and by then the capture   *)
(* has stopped waiting for it.                                             *)
(***************************************************************************)
THEOREM CopyReachesTheReport == WorkerSpec => []EvidenceKept
<1>1. WorkerInv => EvidenceKept
  BY DEF WorkerInv, CopyInv, EvidenceKept, DeferOwned, RawShm
<1> QED  BY <1>1, WorkerInvariance, PTL

(***************************************************************************)
(* With the isolated backend the worker is IsolatedCapture, so what is     *)
(* proved of that module holds of it.                                      *)
(***************************************************************************)
THEOREM IsolatedBackendImplements == WorkerSpec /\ backend = "isolated" => Spec
<1>1. WorkerInit => Init  BY DEF WorkerInit
<1>2. WorkerInv /\ backend = "isolated" /\ [WorkerNext]_captureWorkerVars =>
        [Next]_vars /\ (backend = "isolated")'
  <2> SUFFICES ASSUME WorkerInv, backend = "isolated", [WorkerNext]_captureWorkerVars
               PROVE  [Next]_vars /\ backend' = "isolated"
    OBVIOUS
  <2>1. CASE UNCHANGED captureWorkerVars  BY <2>1 DEF captureWorkerVars, workerVars
  <2>2. CASE WorkerNext
    <3>1. backend' = backend /\ pc # "await"  BY <2>2, StepKeepsBackend DEF WorkerInv, BackendInv
    <3>2. [Next]_vars
      BY <2>2, <3>1, Zenon DEF WorkerNext, BeginCapture, EventLoopStep, Shared, RunIsolated, CopyShm, WorkerSetup,
           Enqueue, Await, IsolatedRun, IsolatedEvent, CloseWorker, WorkerStep, Receive, NextCollector, CollectorReturns,
           BuildPayload, SendPayload, WorkerPanics, WorkerTo, Next, CaptureStep
    <3> QED  BY <3>1, <3>2
  <2> QED  BY <2>1, <2>2
<1> QED  BY <1>1, <1>2, WorkerInvariance, PTL DEF WorkerSpec, Spec

(***************************************************************************)
(* Whichever backend runs, a task that a capture suspended does not run    *)
(* while a capture helper may be alive.                                    *)
(***************************************************************************)
THEOREM NoLiveInspectionByWorker == WorkerSpec => []NoLiveInspection
<1>1. WorkerSpec /\ backend = "isolated" => []NoLiveInspection
  BY IsolatedBackendImplements, ResumeAfterHelperGone, PTL
<1>2. WorkerSpec /\ backend = "in-process" => []NoLiveInspection
  <2>1. WorkerInv /\ backend = "in-process" => NoLiveInspection
    BY DEF WorkerInv, BackendInv, NoLiveInspection, HelperAlive
  <2>2. WorkerInv /\ backend = "in-process" /\ [WorkerNext]_captureWorkerVars => (backend = "in-process")'
    BY StepKeepsBackend DEF WorkerInv, captureWorkerVars, workerVars
  <2> QED  BY <2>1, <2>2, WorkerInvariance, PTL DEF WorkerSpec
<1>3. WorkerSpec => backend = "isolated" \/ backend = "in-process"
  BY DEF WorkerSpec, WorkerInit
<1> QED  BY <1>1, <1>2, <1>3, PTL

=============================================================================
