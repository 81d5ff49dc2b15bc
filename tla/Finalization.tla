---------------------------- MODULE Finalization ----------------------------
(***************************************************************************)
(* From captured events to reports: the background queue for snapshots and *)
(* ANRs, the one-shot ticket for crashes and contained captures, and the   *)
(* finalizer of a terminated child (src/pipeline/worker.rs), as the event  *)
(* loop and run_monitor use them (src/event_loop.rs, src/main.rs).         *)
(*                                                                         *)
(* The main thread submits, waits with a bound, and exits; the process's   *)
(* exit ends every finalizer thread wherever it is.  A finalizer may take  *)
(* any time, produce a report or none, or panic.                           *)
(***************************************************************************)
EXTENDS Naturals, Sequences

CONSTANTS
    QueueCapacity,   \* BACKGROUND_QUEUE_CAPACITY, 2 in the code
    MaxEvents        \* bound: events captured in a behaviour

ASSUME FinalizationAssumption == QueueCapacity \in Nat \ {0} /\ MaxEvents \in Nat \ {0}

Events == 1 .. MaxEvents
NoEvent == 0

VARIABLES
    main,        \* position of the main thread
    ended,       \* why the event loop returned, or "no"
    termination, \* what reaping gave: "none" (not reaped yet), "known" or "unknown"
    events,      \* events captured so far
    fate,        \* per event: see Fates
    reports,     \* per event: reports published for it
    queue,       \* the background channel
    sender,      \* its sending end: "open" or "closed"
    background,  \* the background thread: "unspawned", "idle", "busy", "done" or "dead"
    current,     \* the event it finalizes
    ticket,      \* CrashFinalization: "none", "Pending", "Deferred" or "consumed"
    fatal,       \* its thread: "none", "waiting", "busy", "done" or "dead"
    held,        \* the event of the ticket or of the terminated child
    reason,      \* termination handed to the ticket's thread: "none" until then
    expired      \* history: "yes" once a bounded wait of the main thread expired

mainVars == <<main, ended, termination>>
eventVars == <<events, fate, reports>>
backgroundVars == <<queue, sender, background, current>>
ticketVars == <<ticket, fatal, held, reason>>
finalizationVars == <<mainVars, eventVars, backgroundVars, ticketVars, expired>>

Mains == {"loop", "drain", "reap", "complete", "wait", "exit"}
Endings == {"crash", "contained", "terminated", "other"}
Fates == {"none", "queued", "dropped", "held", "published", "suppressed", "lost"}

FinalizationTypeOK ==
    /\ main \in Mains
    /\ ended \in Endings \cup {"no"}
    /\ termination \in {"none", "known", "unknown"}
    /\ events \in 0 .. MaxEvents
    /\ fate \in [Events -> Fates]
    /\ reports \in [Events -> 0 .. 2]
    /\ queue \in Seq(Events) /\ Len(queue) <= QueueCapacity
    /\ sender \in {"open", "closed"}
    /\ background \in {"unspawned", "idle", "busy", "done", "dead"}
    /\ current \in Events \cup {NoEvent} /\ held \in Events \cup {NoEvent}
    /\ ticket \in {"none", "Pending", "Deferred", "consumed"}
    /\ fatal \in {"none", "waiting", "busy", "done", "dead"}
    /\ reason \in {"none", "known", "unknown"}
    /\ expired \in {"yes", "no"}

\* BackgroundFinalizeWorker::start may fail to spawn its thread.
FinalizationInit ==
    /\ main = "loop" /\ ended = "no" /\ termination = "none"
    /\ events = 0 /\ fate = [e \in Events |-> "none"] /\ reports = [e \in Events |-> 0]
    /\ queue = <<>> /\ current = NoEvent
    /\ \/ sender = "open" /\ background = "idle"
       \/ sender = "closed" /\ background = "unspawned"
    /\ ticket = "none" /\ fatal = "none" /\ held = NoEvent /\ reason = "none"
    /\ expired = "no"

-----------------------------------------------------------------------------
(* The event loop.                                                         *)

\* A capture produced the next event.
Captured(e) == main = "loop" /\ e = events + 1 /\ e \in Events /\ events' = e

\* The channel takes one more event.
Accepts == sender = "open" /\ background # "dead" /\ Len(queue) < QueueCapacity

\* A snapshot or ANR: try_submit never blocks.
TrySubmit(e) ==
    /\ Captured(e)
    /\ fate' = [fate EXCEPT ![e] = IF Accepts THEN "queued" ELSE "dropped"]
    /\ queue' = IF Accepts THEN Append(queue, e) ELSE queue
    /\ UNCHANGED <<mainVars, reports, sender, background, current, ticketVars, expired>>

\* CrashFinalization::start: a thread that owns the event, or the event itself.
StartTicket(e) ==
    /\ held' = e /\ fate' = [fate EXCEPT ![e] = "held"]
    /\ \/ ticket' = "Pending" /\ fatal' = "waiting"
       \/ ticket' = "Deferred" /\ fatal' = "none"
    /\ UNCHANGED reason

\* A crash: reply, detach both workers, start the ticket, return.  Without a
\* ticket: the capture was skipped or crashes are not reported, or the reply to
\* an exception that is not subscribed to failed.
Crash(e) ==
    /\ main' = "reap" /\ ended' = "crash" /\ sender' = "closed"
    /\ \/ Captured(e) /\ StartTicket(e)
       \/ main = "loop" /\ UNCHANGED <<events, fate, ticketVars>>
    /\ UNCHANGED <<termination, reports, queue, background, current, expired>>

\* A snapshot or ANR that ended in task-control containment:
\* finalize_contained_capture with no termination, then detach.  The capture may
\* have been skipped.
ContainedCapture(e) ==
    /\ ended' = "contained"
    /\ \/ Captured(e) /\ StartTicket(e) /\ main' = "complete" /\ UNCHANGED sender
       \/ /\ main = "loop" /\ main' = "reap" /\ sender' = "closed"
          /\ UNCHANGED <<events, fate, ticketVars>>
    /\ UNCHANGED <<termination, reports, queue, background, current, expired>>

\* The child terminated: finalize_terminated_child on a thread of its own, if
\* its kind of termination is reported and the thread can be spawned.
ChildTerminated(e) ==
    /\ ended' = "terminated" /\ termination' = "known"
    /\ \/ /\ Captured(e) /\ fate' = [fate EXCEPT ![e] = "held"] /\ held' = e
          /\ fatal' = "busy" /\ reason' = "known" /\ main' = "wait"
          /\ UNCHANGED <<sender, ticket>>
       \/ /\ main = "loop" /\ main' = "drain" /\ sender' = "closed"
          /\ UNCHANGED <<events, fate, ticketVars>>
    /\ UNCHANGED <<reports, queue, background, current, expired>>

\* A shutdown signal, listener loss or monitor failure.
OtherEnd ==
    /\ main = "loop" /\ main' = "drain" /\ ended' = "other" /\ sender' = "closed"
    /\ UNCHANGED <<termination, eventVars, queue, background, current, ticketVars, expired>>

\* BackgroundFinalizeWorker::shutdown: the thread's end, or the drain deadline.
Drain ==
    /\ main = "drain" /\ main' = "reap"
    /\ background \in {"unspawned", "done", "dead"}
    /\ UNCHANGED <<ended, termination, eventVars, backgroundVars, ticketVars, expired>>

DrainExpires ==
    /\ main = "drain" /\ background \in {"idle", "busy"}
    /\ main' = "reap" /\ expired' = "yes"
    /\ UNCHANGED <<ended, termination, eventVars, backgroundVars, ticketVars>>

-----------------------------------------------------------------------------
(* run_monitor after the event loop.                                       *)

\* The bounded reaping, whose result the fatal ticket waits for.  A child that
\* already terminated is not reaped again.
ReapChild ==
    /\ main = "reap"
    /\ termination' \in IF termination = "known" THEN {"known"} ELSE {"known", "unknown"}
    /\ main' = IF ticket \in {"Pending", "Deferred"} THEN "complete" ELSE "exit"
    /\ UNCHANGED <<ended, eventVars, backgroundVars, ticketVars, expired>>

\* What the ticket's thread is told: the termination, or None.
Handoff == IF termination = "none" THEN "unknown" ELSE termination

\* One finalization of e ends with a report or without one: rejected by a
\* filter, a duplicate, or an error.
Finalize(e) ==
    \/ fate' = [fate EXCEPT ![e] = "published"] /\ reports' = [reports EXCEPT ![e] = @ + 1]
    \/ fate' = [fate EXCEPT ![e] = "suppressed"] /\ UNCHANGED reports

\* Where the main thread goes when a ticket is done with: a contained capture is
\* finalized before the loop returns, and then detaches the background worker.
AfterTicket ==
    /\ main' = IF ended = "contained" THEN "reap" ELSE IF ended = "terminated" THEN "drain" ELSE "exit"
    /\ sender' = "closed"

\* Mutation of Complete: the deferred event also goes to a retried thread.
CompleteTwice ==
    /\ main = "complete" /\ ticket' = "consumed" /\ reason' = Handoff
    /\ \/ ticket = "Pending" /\ main' = "wait" /\ UNCHANGED <<fate, reports, fatal, sender>>
       \/ /\ ticket = "Deferred" /\ fatal' = "waiting" /\ Finalize(held) /\ main' = "wait"
          /\ UNCHANGED sender
    /\ UNCHANGED <<ended, termination, events, queue, background, current, held, expired>>

\* Mutation of Complete: a ticket without a thread is given up.
CompleteGivesUp ==
    /\ main = "complete" /\ ticket' = "consumed"
    /\ \/ ticket = "Pending" /\ reason' = Handoff /\ main' = "wait" /\ UNCHANGED sender
       \/ ticket = "Deferred" /\ UNCHANGED reason /\ AfterTicket
    /\ UNCHANGED <<ended, termination, eventVars, queue, background, current, fatal, held,
                   expired>>

\* CrashFinalization::complete: hand the reason over and wait; a deferred event
\* gets a second spawn, and failing that emergency_finalize_captured.
Complete ==
    /\ main = "complete" /\ ticket' = "consumed" /\ reason' = Handoff
    /\ \/ ticket = "Pending" /\ main' = "wait" /\ UNCHANGED <<fate, reports, fatal, sender>>
       \/ /\ ticket = "Deferred" /\ fatal' = "waiting" /\ main' = "wait"
          /\ UNCHANGED <<fate, reports, sender>>
       \/ ticket = "Deferred" /\ Finalize(held) /\ AfterTicket /\ UNCHANGED fatal
    /\ UNCHANGED <<ended, termination, events, queue, background, current, held, expired>>

\* Mutation of WaitForResult: the result is waited for without a bound.
WaitForever ==
    /\ main = "wait" /\ fatal \in {"done", "dead"} /\ AfterTicket /\ UNCHANGED expired
    /\ UNCHANGED <<ended, termination, eventVars, queue, background, current, ticketVars>>

\* recv_timeout on the result: the result, a disconnection, or the deadline,
\* after which the thread is detached.
WaitForResult ==
    /\ main = "wait" /\ AfterTicket
    /\ expired' = IF fatal \in {"done", "dead"} THEN expired ELSE "yes"
    /\ UNCHANGED <<ended, termination, eventVars, queue, background, current, ticketVars>>

-----------------------------------------------------------------------------
(* The finalizer threads.                                                  *)

Running == main # "exit"

\* Mutation of BackgroundRecv: the loop also ends when the sender is gone, whatever waits.
BackgroundStopsAtClose ==
    /\ Running /\ background = "idle"
    /\ \/ sender = "open" /\ queue # <<>> /\ current' = Head(queue) /\ queue' = Tail(queue)
          /\ background' = "busy"
       \/ sender = "closed" /\ background' = "done" /\ UNCHANGED <<queue, current>>
    /\ UNCHANGED <<mainVars, eventVars, sender, ticketVars, expired>>

\* recv: the next event, or the end once the sender is gone and nothing waits.
BackgroundRecv ==
    /\ Running /\ background = "idle"
    /\ \/ queue # <<>> /\ current' = Head(queue) /\ queue' = Tail(queue) /\ background' = "busy"
       \/ queue = <<>> /\ sender = "closed" /\ background' = "done" /\ UNCHANGED <<queue, current>>
    /\ UNCHANGED <<mainVars, eventVars, sender, ticketVars, expired>>

BackgroundFinalizes ==
    /\ Running /\ background = "busy" /\ background' = "idle" /\ current' = NoEvent
    /\ Finalize(current)
    /\ UNCHANGED <<mainVars, events, queue, sender, ticketVars, expired>>

InChannel(e) == \E i \in 1 .. Len(queue) : queue[i] = e

\* The thread panics: its event and the channel's are lost.
BackgroundPanics ==
    /\ Running /\ background = "busy" /\ background' = "dead"
    /\ fate' = [e \in Events |-> IF e = current \/ InChannel(e) THEN "lost" ELSE fate[e]]
    /\ queue' = <<>> /\ current' = NoEvent
    /\ UNCHANGED <<mainVars, events, reports, sender, ticketVars, expired>>

\* Mutation of FatalRecv: the report is written without waiting for the termination.
FatalRecvEager ==
    /\ Running /\ fatal = "waiting" /\ fatal' = "busy"
    /\ UNCHANGED <<mainVars, eventVars, backgroundVars, ticket, held, reason, expired>>

\* The ticket's thread waits for the termination before anything is written.
FatalRecv ==
    /\ Running /\ fatal = "waiting" /\ reason # "none" /\ fatal' = "busy"
    /\ UNCHANGED <<mainVars, eventVars, backgroundVars, ticket, held, reason, expired>>

FatalFinalizes ==
    /\ Running /\ fatal = "busy" /\ fatal' = "done" /\ Finalize(held)
    /\ UNCHANGED <<mainVars, events, backgroundVars, ticket, held, reason, expired>>

FatalPanics ==
    /\ Running /\ fatal = "busy" /\ fatal' = "dead" /\ fate' = [fate EXCEPT ![held] = "lost"]
    /\ UNCHANGED <<mainVars, events, reports, backgroundVars, ticket, held, reason, expired>>

Main ==
    \/ \E e \in Events :
          TrySubmit(e) \/ Crash(e) \/ ContainedCapture(e) \/ ChildTerminated(e)
    \/ OtherEnd \/ Drain \/ DrainExpires \/ ReapChild \/ Complete \/ WaitForResult

FinalizationNext ==
    \/ Main
    \/ BackgroundRecv \/ BackgroundFinalizes \/ BackgroundPanics
    \/ FatalRecv \/ FatalFinalizes \/ FatalPanics

FinalizationSpec == FinalizationInit /\ [][FinalizationNext]_finalizationVars

(***************************************************************************)
(* Once the loop has ended the main thread goes on and its waits expire;   *)
(* the loop itself may run for ever.  Finalizers may hang.                 *)
(***************************************************************************)
FinalizationFairness == WF_finalizationVars(main # "loop" /\ Main)

-----------------------------------------------------------------------------
(* Properties.                                                             *)

(***************************************************************************)
(* An accepted event is finalized once.  A retried spawn, a detached       *)
(* finalizer that ends late and the emergency path never publish it twice. *)
(* When the monitor exits, captured evidence with a ticket was finalized,  *)
(* or its thread panicked, or was given up after a bounded wait; and after *)
(* an exit of the child, a shutdown or a failure, unless a wait expired,   *)
(* no accepted event is left in the queue (a crash or a containment skips  *)
(* the drain).                                                             *)
(***************************************************************************)
FinalizedOnce ==
    /\ \A e \in Events : reports[e] <= 1
    /\ main = "exit" /\ held # NoEvent =>
          fate[held] \in {"published", "suppressed", "lost"} \/ expired = "yes"
    /\ main = "exit" /\ ended \in {"terminated", "other"} /\ expired = "no" =>
          \A e \in Events : fate[e] # "queued"

(***************************************************************************)
(* "Fatal reports wait on a one-shot termination handoff so JSON and ZIP   *)
(* are born with the final wait status": a crash's report is not begun     *)
(* before the child was reaped, and is given what reaping returned.        *)
(***************************************************************************)
CrashReportHasStatus ==
    ended = "crash" /\ (fatal \in {"busy", "done"} \/ (held # NoEvent /\ reports[held] > 0)) =>
        termination # "none" /\ reason = termination

(***************************************************************************)
(* The monitor exits once its loop has ended, even if every finalizer      *)
(* hangs: all waits are bounded.                                           *)
(***************************************************************************)
ExitIsBounded == (main # "loop") ~> (main = "exit")

=============================================================================
