---------------------------- MODULE EventSource ----------------------------
(***************************************************************************)
(* The monitor's event source (src/event_source.rs): an async signal       *)
(* handler with a self-pipe, a bridge thread that turns the exception      *)
(* listener's channel into a pipe wakeup, and waitpid, multiplexed by one  *)
(* kqueue whose read filters are edge-triggered (EV_CLEAR).                *)
(*                                                                         *)
(* The main thread runs wait_until over and over, as event_loop does, and  *)
(* blocks without a deadline when ANR detection is off: then only a kqueue *)
(* event wakes it.  A pipe is "empty" or holds "bytes"; a write to a full  *)
(* pipe is the same as one more byte.                                      *)
(***************************************************************************)
EXTENDS Naturals, Sequences

CONSTANTS
    Signals,         \* the signals sent to the monitor
    Anr,             \* ANR detection is "on", so that wait_until has a deadline, or "off"
    MaxExceptions,   \* Mach exceptions the child raises
    MaxSignals       \* signals sent to the monitor

ASSUME SignalsAssumption == Signals \subseteq {"TERM", "INT", "USR1"}

ASSUME AnrAssumption == Anr \in {"on", "off"}

ASSUME BoundAssumption == MaxExceptions \in Nat /\ MaxSignals \in Nat

\* What poll can return; an "ignored" exception is answered and forgotten.
Events == {"crash", "ignored", "listener failure", "terminated", "snapshot",
           "shutdown", "monitor failure"}

Continuing == {"ignored", "snapshot"}

VARIABLES
    child,       \* "running", "exiting", "zombie" (waitable) or "reaped"
    registered,  \* child_exit_wakeup_registered
    savedStatus, \* pending_child_termination: "none" or "status"
    kq,          \* activated knotes: subset of {"signal", "wake", "proc"}
    incoming,    \* exception listener channel
    listener,    \* listener thread: "receiving" or "gone"
    bridge,      \* bridge thread: "recv", "wake", "drop", "close" or "gone"
    bridged,     \* the bridge's channel to the main thread
    wakePipe,    \* "empty" or "bytes"; "eof" when drained and the writer is gone
    bits,        \* PENDING_SIGNALS
    handler,     \* per signal: "idle" or "interrupted" between its two effects
    signalPipe,  \* "empty" or "bytes"
    main,        \* main thread's position in wait_until
    mode,        \* poll on "entry" of wait_until, or "woken" after kevent
    got,         \* the listener event this poll holds
    signals,     \* pending_signals
    last,        \* the latest event delivered
    \* bounds and history
    raised,      \* exceptions raised so far
    sent,        \* signals sent so far
    deadAtPoll   \* "yes" if the child was waitable when this poll began

osVars == <<child, registered, savedStatus>>
bridgeVars == <<incoming, listener, bridge, bridged>>
signalVars == <<bits, handler, signalPipe>>
mainVars == <<main, mode, got, signals, last, deadAtPoll>>
vars == <<osVars, kq, bridgeVars, wakePipe, signalVars, mainVars, raised, sent>>

Positions == {"new", "poll", "listener", "waitpid", "signals", "pipe drained", "bits taken",
              "kevent", "done"}

ListenerEvents == {"crash", "ignored", "listener failure"}

TypeOK ==
    /\ child \in {"running", "exiting", "zombie", "reaped"}
    /\ registered \in {"yes", "no"}
    /\ savedStatus \in {"none", "status"}
    /\ kq \subseteq {"signal", "wake", "proc"}
    /\ incoming \in Seq(ListenerEvents) /\ Len(incoming) <= MaxExceptions + 1
    /\ listener \in {"receiving", "gone"}
    /\ bridge \in {"recv", "wake", "drop", "close", "gone"}
    /\ bridged \in Seq(ListenerEvents) /\ Len(bridged) <= MaxExceptions + 1
    /\ wakePipe \in {"empty", "bytes", "eof"}
    /\ bits \subseteq Signals
    /\ handler \in [Signals -> {"idle", "interrupted"}]
    /\ signalPipe \in {"empty", "bytes"}
    /\ main \in Positions
    /\ mode \in {"entry", "woken"}
    /\ got \in ListenerEvents \cup {"none"}
    /\ signals \in Seq(Signals) /\ Len(signals) <= 3
    /\ last \in Events \cup {"none"}
    /\ raised \in 0 .. MaxExceptions
    /\ sent \in 0 .. MaxSignals
    /\ deadAtPoll \in {"yes", "no"}

Init ==
    /\ child = "running" /\ registered = "no" /\ savedStatus = "none"
    /\ kq = {}
    /\ incoming = <<>> /\ listener = "receiving"
    /\ bridge = "recv" /\ bridged = <<>> /\ wakePipe = "empty"
    /\ bits = {} /\ handler = [s \in Signals |-> "idle"] /\ signalPipe = "empty"
    /\ main = "new" /\ mode = "entry" /\ got = "none" /\ signals = <<>> /\ last = "none"
    /\ raised = 0 /\ sent = 0 /\ deadAtPoll = "no"

-----------------------------------------------------------------------------
(* The monitored child and the exception listener thread.                  *)

\* The child exits or is killed.  The kernel fires its NOTE_EXIT knote, a
\* one-shot filter, and only then makes it waitable.
ChildExits ==
    /\ \/ /\ child = "running"
          /\ child' = "exiting"
          /\ kq' = IF registered = "yes" THEN kq \cup {"proc"} ELSE kq
       \/ /\ child = "exiting"
          /\ child' = "zombie"
          /\ UNCHANGED kq
    /\ UNCHANGED <<registered, savedStatus, bridgeVars, wakePipe, signalVars, mainVars, raised, sent>>

\* exception_listener receives a well-formed exception request.
ReceiveException(kind) ==
    /\ child = "running" /\ listener = "receiving"
    /\ raised < MaxExceptions
    /\ raised' = raised + 1
    /\ incoming' = Append(incoming, kind)
    /\ UNCHANGED <<osVars, kq, listener, bridge, bridged, wakePipe, signalVars, mainVars, sent>>

\* exception_listener: mach_msg fails, or a malformed request cannot be
\* rejected; a Fatal event and the end of the thread.  A panic sends nothing.
ListenerEnds ==
    /\ listener = "receiving"
    /\ listener' = "gone"
    /\ incoming' \in {Append(incoming, "listener failure"), incoming}
    /\ UNCHANGED <<osVars, kq, bridge, bridged, wakePipe, signalVars, mainVars, raised, sent>>

-----------------------------------------------------------------------------
(* bridge_exception_listener's thread.                                     *)

WriteWake == wakePipe' = "bytes" /\ kq' = kq \cup {"wake"}

\* Each event is sent and then the main thread woken.  When the listener's
\* channel is disconnected, a last wakeup, then the captured sender and the
\* pipe's write end are dropped in this order; closing the pipe is an edge.
Bridge ==
    /\ \/ /\ bridge = "recv" /\ incoming # <<>>
          /\ bridge' = "wake"
          /\ bridged' = Append(bridged, Head(incoming)) /\ incoming' = Tail(incoming)
          /\ UNCHANGED <<wakePipe, kq>>
       \/ /\ bridge = "wake"
          /\ bridge' = "recv"
          /\ WriteWake
          /\ UNCHANGED <<incoming, bridged>>
       \/ /\ bridge = "recv" /\ incoming = <<>> /\ listener = "gone"
          /\ bridge' = "drop"
          /\ WriteWake
          /\ UNCHANGED <<incoming, bridged>>
       \/ /\ bridge = "drop"
          /\ bridge' = "close"
          /\ UNCHANGED <<incoming, bridged, wakePipe, kq>>
       \/ /\ bridge = "close"
          /\ bridge' = "gone"
          /\ wakePipe' = IF wakePipe = "empty" THEN "eof" ELSE wakePipe
          /\ kq' = kq \cup {"wake"}
          /\ UNCHANGED <<incoming, bridged>>
    /\ UNCHANGED <<osVars, listener, signalVars, mainVars, raised, sent>>

Disconnected == bridge \in {"close", "gone"}

-----------------------------------------------------------------------------
(* monitor_signal_handler, on whatever thread the signal interrupts.       *)

\* The signal's bit is published, then a byte written.  The signal itself is
\* blocked meanwhile; other signals and threads are not.
MonitorSignalHandler(s) ==
    /\ \/ /\ handler[s] = "idle" /\ sent < MaxSignals
          /\ handler' = [handler EXCEPT ![s] = "interrupted"]
          /\ sent' = sent + 1
          /\ bits' = bits \cup {s}
          /\ UNCHANGED <<signalPipe, kq>>
       \/ /\ handler[s] = "interrupted"
          /\ handler' = [handler EXCEPT ![s] = "idle"]
          /\ signalPipe' = "bytes" /\ kq' = kq \cup {"signal"}
          /\ UNCHANGED <<sent, bits>>
    /\ UNCHANGED <<osVars, bridgeVars, wakePipe, mainVars, raised>>

-----------------------------------------------------------------------------
(* MacEventSource.                                                         *)

\* Mutation of NewSource: the status reaped after the race is not kept.
NewSourceDropsStatus ==
    /\ main = "new"
    /\ main' = "poll"
    /\ \/ child = "running" /\ registered' = "yes" /\ UNCHANGED child
       \/ child = "exiting" /\ UNCHANGED <<registered, child>>
       \/ child = "zombie" /\ child' = "reaped" /\ UNCHANGED registered
    /\ UNCHANGED <<savedStatus, kq, bridgeVars, wakePipe, signalVars, mode, got, signals, last,
                   deadAtPoll, raised, sent>>

\* new: registering the descriptors activates those that already hold bytes;
\* registering the process filter succeeds, or finds no process (ESRCH) and
\* reap_child_after_registration_race takes the status, or finds none yet.
NewSource ==
    /\ main = "new"
    /\ main' = "poll"
    /\ \/ child = "running" /\ registered' = "yes" /\ UNCHANGED <<child, savedStatus>>
       \/ child = "exiting" /\ UNCHANGED <<registered, child, savedStatus>>
       \/ /\ child = "zombie"
          /\ child' = "reaped" /\ savedStatus' = "status" /\ UNCHANGED registered
    /\ UNCHANGED <<kq, bridgeVars, wakePipe, signalVars, mode, got, signals, last, deadAtPoll,
                   raised, sent>>

\* poll: the wake pipe is drained ...
PollStart ==
    /\ main = "poll"
    /\ main' = "listener"
    /\ wakePipe' = IF bridge = "gone" THEN "eof" ELSE "empty"
    /\ deadAtPoll' = IF child = "zombie" \/ savedStatus = "status" THEN "yes" ELSE "no"
    /\ UNCHANGED <<osVars, kq, bridgeVars, signalVars, mode, got, signals, last, raised, sent>>

\* ... one listener event is taken (poll_exception_listener) ...
PollListener ==
    /\ main = "listener"
    /\ main' = "waitpid"
    /\ IF bridged # <<>>
       THEN got' = Head(bridged) /\ bridged' = Tail(bridged)
       ELSE /\ got' = IF Disconnected THEN "listener failure" ELSE "none"
            /\ UNCHANGED bridged
    /\ UNCHANGED <<osVars, kq, incoming, listener, bridge, wakePipe, signalVars, mode, signals,
                   last, deadAtPoll, raised, sent>>

\* event_loop receives the event; it ends, or calls wait_until again.
Deliver(e) ==
    /\ last' = e
    /\ main' = IF e \in Continuing THEN "poll" ELSE "done"
    /\ mode' = "entry"
    /\ got' = "none"

\* Mutation of PollChild: the listener event wins.
PollChildListenerFirst ==
    /\ main = "waitpid"
    /\ IF got # "none"
       THEN Deliver(got) /\ UNCHANGED <<child, savedStatus>>
       ELSE IF savedStatus = "status"
       THEN savedStatus' = "none" /\ Deliver("terminated") /\ UNCHANGED child
       ELSE IF child = "zombie"
       THEN child' = "reaped" /\ Deliver("terminated") /\ UNCHANGED savedStatus
       ELSE main' = "signals" /\ UNCHANGED <<child, savedStatus, last, mode, got>>
    /\ UNCHANGED <<registered, kq, bridgeVars, wakePipe, signalVars, signals, deadAtPoll, raised, sent>>

\* ... waitpid, unless the status was reaped at registration; a terminated child
\* wins over the listener event, which is dropped (prioritize_ready_events).
PollChild ==
    /\ main = "waitpid"
    /\ IF savedStatus = "status"
       THEN savedStatus' = "none" /\ Deliver("terminated") /\ UNCHANGED child
       ELSE IF child = "zombie"
       THEN child' = "reaped" /\ Deliver("terminated") /\ UNCHANGED savedStatus
       ELSE IF got # "none"
       THEN Deliver(got) /\ UNCHANGED <<child, savedStatus>>
       ELSE main' = "signals" /\ UNCHANGED <<child, savedStatus, last, mode, got>>
    /\ UNCHANGED <<registered, kq, bridgeVars, wakePipe, signalVars, signals, deadAtPoll, raised, sent>>

\* Mutation of DrainSignalPipe: the bits are taken before the pipe is drained.
DrainAfterSwap ==
    /\ \/ /\ main = "signals" /\ signals = <<>>
          /\ main' = "pipe drained"
          /\ bits' = {}
          /\ signals' = SelectSeq(<<"TERM", "INT", "USR1">>, LAMBDA s : s \in bits)
          /\ UNCHANGED signalPipe
       \/ /\ main = "pipe drained"
          /\ main' = "bits taken"
          /\ signalPipe' = "empty"
          /\ UNCHANGED <<bits, signals>>
    /\ UNCHANGED <<osVars, kq, bridgeVars, wakePipe, handler, mode, got, last, deadAtPoll, raised, sent>>

\* drain_signal_pipe, when no signal is left from the last time: all bytes are
\* read, then the bits are taken.
DrainSignalPipe ==
    /\ \/ /\ main = "signals" /\ signals = <<>>
          /\ main' = "pipe drained"
          /\ signalPipe' = "empty"
          /\ UNCHANGED <<bits, signals>>
       \/ /\ main = "pipe drained"
          /\ main' = "bits taken"
          /\ bits' = {}
          /\ signals' = SelectSeq(<<"TERM", "INT", "USR1">>, LAMBDA s : s \in bits)
          /\ UNCHANGED signalPipe
    /\ UNCHANGED <<osVars, kq, bridgeVars, wakePipe, handler, mode, got, last, deadAtPoll, raised, sent>>

\* poll returns the first signal, or nothing: then wait_until blocks, or returns
\* to event_loop if kevent had already woken it.
PopSignal ==
    /\ main = "bits taken" \/ (main = "signals" /\ signals # <<>>)
    /\ IF signals # <<>>
       THEN /\ signals' = Tail(signals)
            /\ Deliver(IF Head(signals) = "USR1" THEN "snapshot" ELSE "shutdown")
       ELSE /\ main' = IF mode = "entry" THEN "kevent" ELSE "poll"
            /\ mode' = "entry"
            /\ UNCHANGED <<signals, last, got>>
    /\ UNCHANGED <<osVars, kq, bridgeVars, wakePipe, signalVars, deadAtPoll, raised, sent>>

\* The knotes kevent would return; a read filter without bytes is not reported.
Ready ==
    (kq \cap {"proc"})
        \cup (IF signalPipe = "bytes" THEN kq \cap {"signal"} ELSE {})
        \cup (IF wakePipe # "empty" THEN kq \cap {"wake"} ELSE {})

\* kevent reports what is ready and clears it; poll follows.  An interrupted
\* kevent is called again and changes nothing.
Wakeup ==
    /\ main = "kevent"
    /\ Ready # {}
    /\ kq' = {}
    /\ main' = "poll" /\ mode' = "woken"
    /\ UNCHANGED <<osVars, bridgeVars, wakePipe, signalVars, got, signals, last, deadAtPoll, raised, sent>>

\* kevent times out: the caller's deadline, or the child polling interval when
\* there is no process filter (child_wait_deadline).
Timeout ==
    /\ main = "kevent"
    /\ Anr = "on" \/ registered = "no"
    /\ main' = "poll"
    /\ UNCHANGED <<osVars, kq, bridgeVars, wakePipe, signalVars, mode, got, signals, last, deadAtPoll,
                   raised, sent>>

\* waitpid, the drain or kevent fails.
SourceFails ==
    /\ \/ main = "waitpid" /\ savedStatus = "none"
       \/ main = "signals" /\ signals = <<>>
       \/ main = "kevent"
    /\ Deliver("monitor failure")
    /\ UNCHANGED <<osVars, kq, bridgeVars, wakePipe, signalVars, signals, deadAtPoll, raised, sent>>

-----------------------------------------------------------------------------

Main ==
    \/ NewSource \/ PollStart \/ PollListener \/ PollChild \/ DrainSignalPipe \/ PopSignal
    \/ Wakeup \/ Timeout

\* What goes on around the main thread until monitoring ends.
Environment ==
    /\ main # "done"
    /\ \/ ChildExits \/ ListenerEnds \/ Bridge
       \/ \E kind \in {"crash", "ignored"} : ReceiveException(kind)
       \/ \E s \in Signals : MonitorSignalHandler(s)

Next == Main \/ SourceFails \/ Environment

Spec == Init /\ [][Next]_vars

(***************************************************************************)
(* The main and the bridge thread run, and a signal handler that has begun *)
(* returns.  The child need not exit, raise exceptions or be signalled.    *)
(***************************************************************************)
Fairness ==
    /\ WF_vars(Main)
    /\ WF_vars(main # "done" /\ Bridge)
    /\ \A s \in Signals :
          WF_vars(main # "done" /\ handler[s] = "interrupted" /\ MonitorSignalHandler(s))

FairSpec == Spec /\ Fairness

-----------------------------------------------------------------------------
(* Properties.                                                             *)

(***************************************************************************)
(* The child's end is neither lost nor overtaken.  Once the child is       *)
(* reaped, its one wait status is saved for the next poll or has been      *)
(* delivered, also when the child exits while the process filter is being  *)
(* registered.  And "a terminal wait status wins over lower-priority       *)
(* snapshot/listener events" (poll): a poll that starts when the child is  *)
(* already waitable delivers nothing but its termination or a failure of   *)
(* the source itself.                                                      *)
(***************************************************************************)
TerminationWins ==
    /\ [](child = "reaped" => savedStatus = "status" \/ last = "terminated")
    /\ [][main = "waitpid" /\ main' # main /\ deadAtPoll = "yes"
            => main' = "done" /\ last' \in {"terminated", "monitor failure"}]_vars

\* What ends monitoring is there: a shutdown signal, a crash, a lost listener, or
\* a dead child that a deadline or a kqueue event will have looked at.
EndTrigger ==
    \/ bits \cap {"TERM", "INT"} # {}
    \/ \E i \in DOMAIN incoming : incoming[i] = "crash"
    \/ child = "zombie" /\ (Anr = "on" \/ registered = "no" \/ "proc" \in kq)
    \/ listener = "gone"

(***************************************************************************)
(* Every trigger gets through, also without any timeout to help: a         *)
(* shutdown signal, a crash, a lost listener, or a dead child whose exit   *)
(* event is not consumed yet ends monitoring, and a snapshot request is    *)
(* delivered unless monitoring ends.                                       *)
(***************************************************************************)
TriggersGetThrough ==
    /\ EndTrigger ~> (main = "done")
    /\ ("USR1" \in bits) ~> (last = "snapshot" \/ main = "done")

(***************************************************************************)
(* The "authoritative waitpid poll remains live even when ANR is off"      *)
(* (wait_until): a dead child always ends monitoring.                      *)
(***************************************************************************)
ChildEndGetsThrough == (child = "zombie") ~> (main = "done")

=============================================================================
