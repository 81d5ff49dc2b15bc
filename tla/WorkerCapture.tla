--------------------------- MODULE WorkerCapture ---------------------------
(***************************************************************************)
(* CaptureWorker with both of its backends (src/pipeline/worker.rs): the   *)
(* killable helper of IsolatedCapture, and the in-process worker thread of *)
(* platforms without capture isolation, which runs the collectors of       *)
(* src/pipeline/mod.rs.                                                    *)
(*                                                                         *)
(* The in-process capture queues one job, waits for its payload until the  *)
(* deadline, and otherwise cancels the job, resumes the task and retires   *)
(* the worker, whose collector may be running still.                       *)
(***************************************************************************)
EXTENDS IsolatedCapture, Sequences

CONSTANTS
    Collectors,       \* the access of each registered collector, "task" or "owned"
    PersistRawShm     \* collection_policy.persist_raw_shm

ASSUME CollectorsAssumption ==
    Collectors \in Seq({"task", "owned"}) /\ PersistRawShm \in BOOLEAN

VARIABLES
    backend,   \* "isolated" or "in-process"
    sender,    \* CaptureWorker.sender: "open", "dropped" or "retired" (with a reason)
    queue,     \* the jobs in the channel
    job,       \* the job the worker thread runs, or NoJob
    worker,    \* the worker thread: "recv", "loop", "inside", "raw", "send" or "ended"
    left,      \* the collectors it has still to run
    built,     \* the payload it is about to send
    payload,   \* the payload in this capture's result channel, or "none"
    copy,      \* the shared-memory copy of this capture was made
    carried    \* what the outcome carries of the copy

workerVars == <<backend, sender, queue, job, worker, left, built, payload, copy, carried>>
captureWorkerVars == <<vars, workerVars>>

\* A job: of the capture that runs now, with its cancellation flag set, of a
\* task that was suspended, with a shared-memory copy.
Job == [current : BOOLEAN, cancelled : BOOLEAN, guarded : BOOLEAN, shm : BOOLEAN]

NoJob == [current |-> FALSE, cancelled |-> TRUE, guarded |-> FALSE, shm |-> FALSE]

\* A payload with or without the raw bytes of the copy.
Payloads == {"bare", "raw"}

WorkerTypeOK ==
    /\ backend \in {"isolated", "in-process"}
    /\ sender \in {"open", "dropped", "retired"}
    /\ queue \in Seq(Job)
    /\ job \in Job
    /\ worker \in {"recv", "loop", "inside", "raw", "send", "ended"}
    /\ left \in Seq({"task", "owned"})
    /\ built \in Payloads /\ payload \in Payloads \cup {"none"}
    /\ copy \in BOOLEAN
    /\ carried \subseteq {"raw", "owned"}

\* CaptureWorker::start: without isolation, the task port is retained and the
\* thread is spawned, or the worker is unavailable.
WorkerInit ==
    /\ Init
    /\ backend \in {"isolated", "in-process"}
    /\ sender \in IF backend = "isolated" THEN {"dropped"} ELSE {"open", "retired"}
    /\ worker = IF sender = "open" THEN "recv" ELSE "ended"
    /\ queue = <<>> /\ job = NoJob /\ left = <<>>
    /\ built = "bare" /\ payload = "none" /\ copy = FALSE /\ carried = {}

-----------------------------------------------------------------------------
(* What the outcome carries.                                               *)

\* raw_shm_from_snapshot: the raw bytes of the copy, when the policy keeps them.
RawShm == IF copy /\ PersistRawShm THEN {"raw"} ELSE {}

\* attach_owned_snapshot and defer_owned_if_isolated: the isolated backend also
\* keeps the copy for the collectors it defers to finalization.
DeferOwned(c) == c \cup IF backend = "isolated" /\ copy THEN {"owned"} ELSE {}

\* A step of the event-loop thread that builds no outcome with a copy: it goes
\* on, returns before the copy is made, or releases the guard.
Shared(step) ==
    /\ step
    /\ UNCHANGED workerVars

\* Mutation of RunIsolated: a helper whose cleanup is unproven returns early.
RunIsolatedContained(step) ==
    /\ backend = "isolated"
    /\ step
    /\ carried' = CASE pc' = "release" -> DeferOwned(RawShm)
                     [] pc' = "contain" -> RawShm
                     [] OTHER -> carried
    /\ UNCHANGED <<backend, sender, queue, job, worker, left, built, payload, copy>>

\* The isolated capture after the copy.  Past its deadline, and in each arm of
\* the match (Completed, TimedOut, Failed before the release, CleanupUnproven
\* before the containment), the outcome is built from the raw bytes, and the
\* copy is attached to it.
RunIsolated(step) ==
    /\ backend = "isolated"
    /\ step
    /\ carried' = IF pc' \in {"release", "contain"} THEN DeferOwned(RawShm) ELSE carried
    /\ UNCHANGED <<backend, sender, queue, job, worker, left, built, payload, copy>>

-----------------------------------------------------------------------------
(* The event-loop thread.                                                  *)

Older(j) == [j EXCEPT !.current = FALSE]

\* A new capture has a cancellation flag and a result channel of its own.
BeginCapture(k) ==
    /\ Begin(k)
    /\ job' = Older(job)
    /\ queue' = [i \in DOMAIN queue |-> Older(queue[i])]
    /\ payload' = "none" /\ copy' = FALSE /\ carried' = {}
    /\ UNCHANGED <<backend, sender, worker, left, built>>

\* The checks before suspension; a worker that is unavailable fails the capture.
WorkerSetup ==
    /\ backend = "in-process"
    /\ pc = "setup"
    /\ \/ Goto("returned") /\ outcome' = "Skipped"
       \/ kind \in EnabledKinds /\ elapsed /\ Goto("returned") /\ outcome' = "TimedOut"
       \/ kind \in EnabledKinds /\ ~elapsed /\ sender # "open" /\ Goto("returned") /\ outcome' = "Failed"
       \/ kind \in EnabledKinds /\ ~elapsed /\ sender = "open" /\ Goto("acquire") /\ UNCHANGED outcome
    /\ UNCHANGED <<taskVars, helper>>

\* snapshot_shm_while_suspended, only under a guard; it may fail, or there is no
\* shared memory.  A sanitized copy is a copy.
CopyShm ==
    /\ Snapshot
    /\ copy' \in IF pc' = "launch" /\ guard = "active" THEN BOOLEAN ELSE {FALSE}
    /\ UNCHANGED <<backend, sender, queue, job, worker, left, built, payload, carried>>

\* The deadline check after the copy and try_send of the job; without a worker
\* thread the channel is disconnected.  A capture that ends here has the raw
\* bytes (timed_out_capture_with_snapshot, failed_capture_with_snapshot).
Enqueue ==
    /\ backend = "in-process"
    /\ pc = "launch"
    /\ \/ elapsed /\ Finish("TimedOut") /\ carried' = RawShm /\ UNCHANGED <<sender, queue>>
       \/ /\ ~elapsed /\ worker = "ended"
          /\ Finish("Failed") /\ carried' = RawShm
          /\ sender' = "retired" /\ UNCHANGED queue
       \/ /\ ~elapsed /\ worker # "ended" /\ Len(queue) = 0
          /\ queue' = <<[current |-> TRUE, cancelled |-> FALSE,
                         guarded |-> guard = "active", shm |-> copy]>>
          /\ Goto("await") /\ UNCHANGED <<outcome, sender, carried>>
    /\ UNCHANGED <<taskVars, helper, backend, job, worker, left, built, payload, copy>>

Cancel(j) == IF j.current THEN [j EXCEPT !.cancelled = TRUE] ELSE j

CancelJobs ==
    /\ job' = Cancel(job)
    /\ queue' = [i \in DOMAIN queue |-> Cancel(queue[i])]

\* The worker's own payload is the outcome.
Received ==
    /\ payload # "none"
    /\ Finish("Completed")
    /\ carried' = IF payload = "raw" THEN {"raw"} ELSE {}
    /\ UNCHANGED <<sender, queue, job>>

\* Mutation of Await: the deadline resumes the task and tells nobody.
AwaitNoCancel ==
    /\ pc = "await"
    /\ \/ Received
       \/ /\ payload = "none" /\ elapsed
          /\ Finish("TimedOut") /\ carried' = RawShm
          /\ sender' = "retired" /\ UNCHANGED <<queue, job>>
    /\ UNCHANGED <<taskVars, helper, backend, worker, left, built, payload, copy>>

\* Mutation of Await: the worker stays in use after a timeout.
AwaitNoRetire ==
    /\ pc = "await"
    /\ \/ Received
       \/ /\ payload = "none" /\ elapsed
          /\ Finish("TimedOut") /\ carried' = RawShm
          /\ CancelJobs /\ UNCHANGED sender
    /\ UNCHANGED <<taskVars, helper, backend, worker, left, built, payload, copy>>

\* Mutation of Await: the deadline cancels the job and waits for its answer.
AwaitLatePayload ==
    /\ pc = "await"
    /\ \/ Received
       \/ payload = "none" /\ elapsed /\ CancelJobs /\ UNCHANGED <<captureVars, sender, carried>>
    /\ UNCHANGED <<taskVars, helper, backend, worker, left, built, payload, copy>>

\* recv_timeout returns: the payload, the deadline, or a dead worker.  On an
\* error the flag is set before the task is resumed, and the outcome has the raw
\* bytes of the fallback copy; retire drops the sender, which only this thread
\* uses.
Await ==
    /\ pc = "await"
    /\ \/ Received
       \/ /\ payload = "none"
          /\ \/ elapsed /\ Finish("TimedOut")
             \/ worker = "ended" /\ Finish("Failed")
          /\ carried' = RawShm
          /\ CancelJobs
          /\ sender' = "retired"
    /\ UNCHANGED <<taskVars, helper, backend, worker, left, built, payload, copy>>

\* shutdown or detach when the event loop has ended.
CloseWorker ==
    /\ eventLoop = "stopped" /\ pc = "idle" /\ sender = "open"
    /\ sender' = "dropped"
    /\ UNCHANGED <<vars, backend, queue, job, worker, left, built, payload, copy, carried>>

-----------------------------------------------------------------------------
(* The worker thread.                                                      *)

WorkerTo(next) ==
    worker' = next /\ UNCHANGED <<vars, backend, sender, copy, carried>>

\* receiver.recv: the next job, or the end of the thread.
Receive ==
    /\ worker = "recv"
    /\ \/ /\ queue # <<>>
          /\ job' = Head(queue) /\ queue' = Tail(queue)
          /\ left' = Collectors
          /\ WorkerTo("loop")
       \/ /\ queue = <<>> /\ sender # "open"
          /\ WorkerTo("ended") /\ UNCHANGED <<job, queue, left>>
    /\ UNCHANGED <<built, payload>>

\* One collector of collect_snapshot_by_access: cancellation ends the loop; a
\* collector that is not available, or whose context is past its deadline when
\* it would start, is skipped.
NextCollector ==
    /\ worker = "loop"
    /\ \/ (left = <<>> \/ job.cancelled) /\ WorkerTo("raw") /\ UNCHANGED left
       \/ left # <<>> /\ ~job.cancelled /\ left' = Tail(left) /\ WorkerTo("loop")
       \/ left # <<>> /\ ~job.cancelled /\ WorkerTo("inside") /\ UNCHANGED left
    /\ UNCHANGED <<queue, job, built, payload>>

\* collect returns, fails or panics; its status is recorded.
CollectorReturns ==
    /\ worker = "inside"
    /\ left' = Tail(left)
    /\ WorkerTo("loop")
    /\ UNCHANGED <<queue, job, built, payload>>

\* The flag is loaded once more: a cancelled job keeps no raw bytes.
BuildPayload ==
    /\ worker = "raw"
    /\ built' = IF ~job.cancelled /\ PersistRawShm /\ job.shm THEN "raw" ELSE "bare"
    /\ WorkerTo("send")
    /\ UNCHANGED <<queue, job, left, payload>>

\* PortGuard releases the thread rights and the payload is sent; nobody listens
\* to an earlier capture's.
SendPayload ==
    /\ worker = "send"
    /\ payload' = IF job.current /\ pc = "await" THEN built ELSE payload
    /\ job' = NoJob /\ left' = <<>> /\ built' = "bare"
    /\ WorkerTo("recv")
    /\ UNCHANGED queue

\* A panic outside of a collector ends the thread.
WorkerPanics ==
    /\ worker \in {"loop", "raw"}
    /\ job' = NoJob /\ left' = <<>>
    /\ WorkerTo("ended")
    /\ UNCHANGED <<queue, built, payload>>

WorkerStep ==
    \/ Receive \/ NextCollector \/ CollectorReturns
    \/ BuildPayload \/ SendPayload \/ WorkerPanics

-----------------------------------------------------------------------------

\* What only the isolated backend does.
IsolatedRun == Launch \/ Spawn \/ HandOff \/ Poll \/ Kill \/ Reap
IsolatedEvent == HelperExits \/ HelperStolen \/ ExpireGrace

EventLoopStep ==
    \/ Shared(Acquire \/ Release \/ AfterCapture)
    \/ CopyShm
    \/ Shared(backend = "isolated" /\ (Setup \/ Contain))
    \/ RunIsolated(IsolatedRun)
    \/ Shared(WorkerSetup) \/ Enqueue \/ Await

WorkerNext ==
    \/ \E k \in Kinds : BeginCapture(k)
    \/ EventLoopStep
    \/ RunIsolated(WaitError)
    \/ Shared(backend = "isolated" /\ IsolatedEvent)
    \/ Shared(Expire \/ TaskDeath)
    \/ CloseWorker
    \/ WorkerStep

(***************************************************************************)
(* As in IsolatedCapture; nothing is assumed of the worker thread either,  *)
(* whose collector may hang.                                               *)
(***************************************************************************)
WorkerFairness ==
    /\ WF_captureWorkerVars(EventLoopStep)
    /\ WF_captureWorkerVars(Shared(Expire))
    /\ WF_captureWorkerVars(Shared(backend = "isolated" /\ ExpireGrace))

WorkerSpec == WorkerInit /\ [][WorkerNext]_captureWorkerVars /\ WorkerFairness

-----------------------------------------------------------------------------
(* Properties.                                                             *)

Jobs == {job} \cup {queue[i] : i \in DOMAIN queue}

(***************************************************************************)
(* "Publish cancellation before resume so a collector that returns at the  *)
(* deadline cannot start another task-facing collector" (worker.rs): when  *)
(* the live task runs, every job of a capture that had suspended it,       *)
(* queued or in the middle of its collectors, is cancelled.                *)
(***************************************************************************)
CancelledBeforeResume ==
    \A j \in Jobs : j.guarded /\ suspended = 0 /\ task = "alive" => j.cancelled

(***************************************************************************)
(* A worker "is retired rather than accepting another task while an old    *)
(* collector may still be running" (worker.rs): a capture never queues its *)
(* job behind, or runs beside, the collectors of an earlier one.           *)
(***************************************************************************)
OneJobAtATime ==
    \A j, i \in Jobs : j.current /\ ~i.current => i = NoJob

(***************************************************************************)
(* "Stage 1 can still persist the immutable bytes that were already copied *)
(* while the task was suspended" (worker.rs): whatever a capture returns   *)
(* (a payload of the worker, a deadline at any of its checks, a worker     *)
(* that died, a helper that failed or could not be reaped), the outcome    *)
(* has the raw bytes exactly when a copy was made and the policy keeps it, *)
(* and the copy for the deferred collectors exactly with isolation.  A     *)
(* payload that was built after its cancellation, without the bytes, is    *)
(* never the outcome.                                                      *)
(***************************************************************************)
EvidenceKept ==
    pc = "returned" =>
        /\ "raw" \in carried <=> copy /\ PersistRawShm
        /\ "owned" \in carried <=> copy /\ backend = "isolated"

=============================================================================
