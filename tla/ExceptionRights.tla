--------------------------- MODULE ExceptionRights ---------------------------
(***************************************************************************)
(* The Mach rights of one exception: the request a faulting thread sends   *)
(* (src/platform/macos/ffi/exceptions.rs, src/platform/macos/exceptions.rs)*)
(* carries a reply right and a send right to the thread, owned by a        *)
(* ReceivedMachMessage from the listener thread to the event loop; the     *)
(* thread collector (src/collectors/thread.rs) takes one more right to     *)
(* every thread and a PortGuard gives them back.  A right to a port        *)
(* already named adds a user reference to that name, which `refs` counts.  *)
(***************************************************************************)
EXTENDS Naturals, Sequences, FiniteSets, Functions

CONSTANTS
    Threads,      \* the child's threads
    Faulting,     \* those that may fault, each once
    Forms,        \* the requests a thread's fault may arrive as
    MaxCaptured,  \* MAX_CAPTURED_THREADS
    Nobody        \* no crashed thread

ASSUME RightsAssumption ==
    /\ IsFiniteSet(Threads) /\ Cardinality(Threads) \in Nat /\ Faulting \subseteq Threads
    /\ Nobody \notin Threads /\ "fatal" \notin Threads
    /\ Forms # {}
    /\ MaxCaptured \in Nat \ {0}

VARIABLES
    place,     \* where a thread's request is
    form,      \* its contents
    disposed,  \* how often its reply right was moved or destroyed
    refs,      \* the monitor's user references to each thread's port
    receiver,  \* the listener thread: "receive", "parse" or "ended"
    queue,     \* its channel to the event loop: threads, or "fatal"
    open,      \* the exception port and the channel's receiver exist
    loop,      \* "idle", "capturing", "reply" or "returned"
    suspect,   \* event.crashed_thread of the capture
    walk,      \* the collector: "off", "start", "listed", "inspected" or "done"
    listed,    \* the threads it enumerated, in order
    lostPorts, \* references a panicking collector forgot, per thread
    polls      \* snapshots requested (bounded by one)

messageVars == <<place, form, disposed>>
listenVars == <<receiver, queue, open>>
walkVars == <<walk, listed, lostPorts>>
rightsVars == <<messageVars, refs, listenVars, loop, suspect, walkVars, polls>>

RightsTypeOK ==
    /\ place \in [Threads -> {"unsent", "port", "listener", "channel", "loop", "gone"}]
    /\ form \in [Threads -> Forms]
    /\ disposed \in [Threads -> Nat] /\ refs \in [Threads -> Nat]
    /\ receiver \in {"receive", "parse", "ended"}
    /\ queue \in Seq(Threads \cup {"fatal"}) /\ open \in BOOLEAN
    /\ loop \in {"idle", "capturing", "reply", "returned"}
    /\ suspect \in Threads \cup {Nobody}
    /\ walk \in {"off", "start", "listed", "inspected", "done"}
    /\ listed \in Seq(Threads)
    /\ lostPorts \in [Threads -> Nat] /\ polls \in {0, 1}

RightsInit ==
    /\ place = [t \in Threads |-> "unsent"]
    /\ form = [t \in Threads |-> CHOOSE f \in Forms : TRUE]
    /\ disposed = [t \in Threads |-> 0] /\ refs = [t \in Threads |-> 0]
    /\ receiver = "receive" /\ queue = <<>> /\ open = TRUE
    /\ loop = "idle" /\ suspect = Nobody
    /\ walk = "off" /\ listed = <<>> /\ lostPorts = [t \in Threads |-> 0] /\ polls = 0

-----------------------------------------------------------------------------
(* Parsing.  A request is a record of the header and the variable parts;   *)
(* offsets and limits are the code's.                                      *)

MACH_HEADER_SIZE == 24

MESSAGE_BUFFER_CAPACITY == 8192

ROUTINE == 2407     \* MACH_EXCEPTION_RAISE_STATE_IDENTITY_ID

LARGEST_ID == 2147483647

\* Header, two descriptors, NDR and counts, then code[] and old_state[].
PackedSize(codes, words) == 68 + codes * 8 + 8 + words * 4

\* has_safe_reply_identity: a live send or send-once right, and id + 100 fits.
SafeReply(f) == f.reply \in {"send", "send-once"} /\ f.id <= LARGEST_ID - 100

\* parse_exception_message on the bytes message_bytes selects.
Parses(f) ==
    /\ f.size \in MACH_HEADER_SIZE .. MESSAGE_BUFFER_CAPACITY
    /\ f.id = ROUTINE /\ f.complex /\ SafeReply(f)
    /\ f.descriptors = "ports" /\ f.ndr = "native"
    /\ f.codes <= 2 /\ f.words <= 1296
    /\ PackedSize(f.codes, f.words) = f.size

-----------------------------------------------------------------------------
(* Ownership.                                                              *)

One(condition) == IF condition THEN 1 ELSE 0

\* Mutation of Destroyed: the consumed reply right is still in the header.
DestroyedAgain(t, sent) ==
    /\ disposed' = [disposed EXCEPT ![t] = @ + 1 + One(sent)]
    /\ refs' = [refs EXCEPT ![t] = @ - One(form[t].descriptors = "ports")]

\* The owner of t's request is dropped: mach_msg_destroy releases the thread's
\* right, and the reply right unless a successful send has consumed it.
Destroyed(t, sent) ==
    /\ disposed' = [disposed EXCEPT ![t] = @ + 1]
    /\ refs' = [refs EXCEPT ![t] = @ - One(form[t].descriptors = "ports")]

Dropped(t, sent) == place' = [place EXCEPT ![t] = "gone"] /\ Destroyed(t, sent)

\* Tells the event loop that the listener ends.
Fatal == receiver' = "ended" /\ queue' = IF open THEN Append(queue, "fatal") ELSE queue

-----------------------------------------------------------------------------
(* The child and the listener thread.                                      *)

Raise(t) ==
    /\ place[t] = "unsent" /\ open
    /\ place' = [place EXCEPT ![t] = "port"]
    /\ \E f \in Forms : form' = [form EXCEPT ![t] = f]
    /\ UNCHANGED <<disposed, refs, listenVars, loop, suspect, walkVars, polls>>

\* receive_message: the rights enter the monitor.
ReceiveMessage(t) ==
    /\ receiver = "receive" /\ place[t] = "port"
    /\ place' = [place EXCEPT ![t] = "listener"]
    /\ receiver' = "parse"
    /\ refs' = [refs EXCEPT ![t] = @ + One(form[t].descriptors = "ports")]
    /\ UNCHANGED <<form, disposed, queue, open, loop, suspect, walkVars, polls>>

\* mach_msg(recv) fails.
ReceiveMessageFails ==
    /\ receiver = "receive"
    /\ Fatal
    /\ UNCHANGED <<messageVars, refs, open, loop, suspect, walkVars, polls>>

\* A valid request goes to the event loop, unless nobody receives.
Forward(t) ==
    /\ place[t] = "listener" /\ Parses(form[t])
    /\ IF open
       THEN /\ place' = [place EXCEPT ![t] = "channel"]
            /\ queue' = Append(queue, t) /\ receiver' = "receive"
            /\ UNCHANGED <<disposed, refs>>
       ELSE Dropped(t, FALSE) /\ receiver' = "ended" /\ UNCHANGED queue
    /\ UNCHANGED <<form, open, loop, suspect, walkVars, polls>>

\* reject_malformed_message_with: a failure reply where that is safe.
RejectMalformed(t) ==
    /\ place[t] = "listener" /\ ~Parses(form[t])
    /\ \/ SafeReply(form[t]) /\ Dropped(t, TRUE) /\ receiver' = "receive" /\ UNCHANGED queue
       \/ Dropped(t, FALSE) /\ Fatal
    /\ UNCHANGED <<form, open, loop, suspect, walkVars, polls>>

Listener ==
    \/ \E t \in Threads : ReceiveMessage(t) \/ Forward(t) \/ RejectMalformed(t)
    \/ ReceiveMessageFails

-----------------------------------------------------------------------------
(* The event loop.                                                         *)

\* The listener failed.
TakeFatal ==
    /\ loop = "idle" /\ queue # <<>> /\ Head(queue) = "fatal"
    /\ loop' = "returned" /\ queue' = Tail(queue)
    /\ UNCHANGED <<messageVars, refs, receiver, open, suspect, walkVars, polls>>

\* A shutdown signal or the child's end: the loop returns whatever is queued.
TakeEnd ==
    /\ loop = "idle"
    /\ loop' = "returned"
    /\ UNCHANGED <<messageVars, refs, listenVars, suspect, walkVars, polls>>

\* An exception the monitor does not subscribe to is answered at once.
TakeIgnored ==
    /\ loop = "idle" /\ queue # <<>> /\ Head(queue) \in Threads
    /\ \E sent \in BOOLEAN :
        /\ Dropped(Head(queue), sent)
        /\ loop' = IF sent THEN "idle" ELSE "returned"
    /\ queue' = Tail(queue)
    /\ UNCHANGED <<form, receiver, open, suspect, walkVars, polls>>

\* The capture borrows the thread's name.
StartWalk(t) == loop' = "capturing" /\ suspect' = t /\ walk' = "start"

\* A retired worker takes no job: the crash is answered without a capture.
TakeCrash ==
    /\ loop = "idle" /\ queue # <<>> /\ Head(queue) \in Threads
    /\ place' = [place EXCEPT ![Head(queue)] = "loop"] /\ queue' = Tail(queue)
    /\ IF walk = "off"
       THEN StartWalk(Head(queue))
       ELSE loop' = "reply" /\ UNCHANGED <<suspect, walk>>
    /\ UNCHANGED <<form, disposed, refs, receiver, open, listed, lostPorts, polls>>

TakeSnapshot ==
    /\ loop = "idle" /\ polls = 0 /\ walk = "off"
    /\ StartWalk(Nobody) /\ polls' = 1
    /\ UNCHANGED <<messageVars, refs, listenVars, listed, lostPorts>>

\* The worker's answer, or the capture deadline, after which the worker is
\* retired: it keeps running and its answer goes nowhere.
CaptureEnds ==
    /\ loop = "capturing"
    /\ \/ walk = "done" /\ walk' = "off" /\ listed' = <<>>
       \/ UNCHANGED <<walk, listed>>
    /\ loop' = IF suspect = Nobody THEN "idle" ELSE "reply"
    /\ UNCHANGED <<messageVars, refs, listenVars, suspect, lostPorts, polls>>

\* The deferred reply, then the request is dropped and the loop returns.
DeferredReply ==
    /\ loop = "reply"
    /\ \E t \in Threads, sent \in BOOLEAN : place[t] = "loop" /\ Dropped(t, sent)
    /\ loop' = "returned"
    /\ UNCHANGED <<form, listenVars, suspect, walkVars, polls>>

\* Mutation of TearDown: the receiver is dropped, the port is kept.
TearDownKeepsPort ==
    /\ loop = "returned" /\ open
    /\ open' = FALSE /\ queue' = <<>>
    /\ LET waiting == {t \in Threads : place[t] = "channel"}
       IN /\ place' = [t \in Threads |-> IF t \in waiting THEN "gone" ELSE place[t]]
          /\ disposed' = [t \in Threads |-> disposed[t] + One(t \in waiting)]
          /\ refs' = [t \in Threads |-> refs[t] - One(t \in waiting)]
    /\ UNCHANGED <<form, receiver, loop, suspect, walkVars, polls>>

\* run_monitor destroys the exception port and drops the receiver, with every
\* request in either.
TearDown ==
    /\ loop = "returned" /\ open
    /\ open' = FALSE /\ queue' = <<>>
    /\ LET waiting == {t \in Threads : place[t] \in {"port", "channel"}}
       IN /\ place' = [t \in Threads |-> IF t \in waiting THEN "gone" ELSE place[t]]
          /\ disposed' = [t \in Threads |-> disposed[t] + One(t \in waiting)]
          /\ refs' = [t \in Threads |-> refs[t] - One(place[t] = "channel")]
    /\ UNCHANGED <<form, receiver, loop, suspect, walkVars, polls>>

EventLoop ==
    \/ TakeFatal \/ TakeIgnored \/ TakeCrash \/ CaptureEnds \/ DeferredReply \/ TearDown

-----------------------------------------------------------------------------
(* The thread collector on the worker's thread.                            *)

\* At most MaxCaptured threads, the crashed one among them.
Retained(s, c) ==
    IF Len(s) <= MaxCaptured THEN s
    ELSE IF \E i \in 1 .. Len(s) : i > MaxCaptured /\ s[i] = c
    THEN Append(SubSeq(s, 1, MaxCaptured - 1), c)
    ELSE SubSeq(s, 1, MaxCaptured)

\* The orders in which the kernel may list the threads of the task.
Orders == Bijection(1 .. Cardinality(Threads), Threads)

\* get_task_threads: a right to every thread, in the kernel's order.
GetTaskThreads ==
    /\ walk = "start"
    /\ \E s \in Orders \cup {<<>>} :
        /\ listed' = s
        /\ refs' = [t \in Threads |-> refs[t] + One(s # <<>>)]
    /\ walk' = "listed"
    /\ UNCHANGED <<messageVars, listenVars, loop, suspect, lostPorts, polls>>

\* Mutation of InspectAllThreads: the ports over the limit are forgotten.
InspectAllThreadsDropping ==
    /\ walk = "listed"
    /\ listed' = Retained(listed, suspect)
    /\ walk' = "inspected"
    /\ UNCHANGED <<messageVars, refs, listenVars, loop, suspect, lostPorts, polls>>

\* inspect_all_threads: the ports over the limit are released; every other
\* one is in the result, whether its thread could be inspected or not.
InspectAllThreads ==
    /\ walk = "listed"
    /\ LET kept == Retained(listed, suspect)
       IN /\ listed' = kept
          /\ refs' = [t \in Threads |->
                        refs[t] - One(t \in Range(listed) \ Range(kept))]
    /\ walk' = "inspected"
    /\ UNCHANGED <<messageVars, listenVars, loop, suspect, lostPorts, polls>>

\* A panic of the collector is caught, the ports it had listed are lost.
CollectorPanics ==
    /\ walk = "listed"
    /\ walk' = "done" /\ listed' = <<>>
    /\ lostPorts' = [t \in Threads |-> lostPorts[t] + One(t \in Range(listed))]
    /\ UNCHANGED <<messageVars, refs, listenVars, loop, suspect, polls>>

\* PortGuard: the rights do not leave the collection, only the names.
ReleasePorts ==
    /\ walk = "inspected"
    /\ walk' = "done"
    /\ refs' = [t \in Threads |-> refs[t] - One(t \in Range(listed))]
    /\ UNCHANGED <<messageVars, listenVars, loop, suspect, listed, lostPorts, polls>>

Collector == GetTaskThreads \/ InspectAllThreads \/ CollectorPanics \/ ReleasePorts

RightsNext ==
    \/ \E t \in Faulting : Raise(t)
    \/ Listener \/ EventLoop \/ TakeSnapshot \/ TakeEnd \/ Collector

\* The listener, the event loop and the worker are running threads; nothing
\* need ask for a snapshot or for the end.
RightsSpec ==
    /\ RightsInit /\ [][RightsNext]_rightsVars
    /\ WF_rightsVars(Listener) /\ WF_rightsVars(EventLoop) /\ WF_rightsVars(Collector)

-----------------------------------------------------------------------------
(* Properties.                                                             *)

(***************************************************************************)
(* Every right is given back exactly once.  No reply right is both moved   *)
(* by a reply and destroyed with its request, a request that is gone has   *)
(* disposed of it, and the user references to a thread's port are those of *)
(* its live request and of the collector's list, plus what a panic lost.   *)
(***************************************************************************)
RightsAreBalanced ==
    \A t \in Threads :
        /\ disposed[t] = IF place[t] = "gone" THEN 1 ELSE 0
        /\ refs[t] = lostPorts[t]
                + One(place[t] \in {"listener", "channel", "loop"} /\ form[t].descriptors = "ports")
                + One(walk \in {"listed", "inspected"} /\ t \in Range(listed))

(***************************************************************************)
(* A thread that waits for the answer to its exception gets one: its reply *)
(* right is moved or destroyed, whatever the request holds and whoever     *)
(* fails on the way.                                                       *)
(***************************************************************************)
FaultingThreadReleased == \A t \in Threads : (place[t] = "port") ~> (place[t] = "gone")

=============================================================================
