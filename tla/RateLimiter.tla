---------------------------- MODULE RateLimiter ----------------------------
(***************************************************************************)
(* The persistent rate limiter shared by all monitors of a data root       *)
(* (src/filters/rate_limiter.rs).                                          *)
(*                                                                         *)
(* For each event a monitor reads the clock, takes the lock, loads the     *)
(* recorded timestamps, decides, and replaces the state file.  A filter    *)
(* that returns an error lets its event pass (fail open); monitors crash   *)
(* and restart between any two steps, and the file may become unreadable.  *)
(***************************************************************************)
EXTENDS Integers, SequencesExt

CONSTANTS
    Monitors,     \* monitor processes sharing the data root
    Types,        \* report types
    MaxEvents,    \* max_events, at most MAX_PERSISTED_EVENTS_PER_TYPE
    Window,       \* window_ms
    LastTick      \* bound: the clock stops there

ASSUME RateAssumption ==
    /\ MaxEvents \in Nat /\ Window \in Nat \ {0} /\ LastTick \in Nat
    /\ "free" \notin Monitors

VARIABLES
    clock,      \* the wall clock, which does not go backwards
    rateFile,   \* the state file: [kind, recent], the timestamps by type
    rateLock,   \* .rate-limit-state.lock: "free" or its holder
    limiter,    \* [pc, type, now, recent, recovered] of each monitor
    admitted    \* timestamps of admitted events since the last corruption (history)

rateVars == <<clock, rateFile, rateLock, limiter, admitted>>

NoEvents == [t \in Types |-> <<>>]

\* "state", or a file that is "absent" or "corrupt".
StateFile(kind, recent) == [kind |-> kind, recent |-> recent]

Waiting == [pc |-> "idle", type |-> CHOOSE t \in Types : TRUE, now |-> 0, recent |-> NoEvents,
            recovered |-> FALSE]

RateTypeOK ==
    /\ clock \in 1 .. LastTick
    /\ rateFile.kind \in {"absent", "corrupt", "state"}
    /\ rateFile.recent \in [Types -> Seq(1 .. LastTick)]
    /\ rateLock \in Monitors \cup {"free"}
    /\ \A m \in Monitors :
          /\ limiter[m].pc \in {"idle", "lock", "load", "quarantine", "decide", "persist", "return"}
          /\ limiter[m].type \in Types
          /\ limiter[m].recent \in [Types -> Seq(1 .. LastTick)]
    /\ admitted \in [Types -> Seq(1 .. LastTick)]

RateInit ==
    /\ clock = 1
    /\ rateFile = StateFile("absent", NoEvents)
    /\ rateLock = "free"
    /\ limiter = [m \in Monitors |-> Waiting]
    /\ admitted = NoEvents

-----------------------------------------------------------------------------

LimiterAt(m, pc) == limiter[m].pc = pc

\* The filter returns: the lock and everything local is gone.
Verdict(m) ==
    /\ limiter' = [limiter EXCEPT ![m] = Waiting]
    /\ rateLock' = IF rateLock = m THEN "free" ELSE rateLock

\* should_process: the clock is read before the lock is asked for.
Arrive(m, t) ==
    /\ LimiterAt(m, "idle")
    /\ limiter' = [limiter EXCEPT ![m] = [Waiting EXCEPT !.pc = "lock", !.type = t, !.now = clock]]
    /\ UNCHANGED <<clock, rateFile, rateLock, admitted>>

\* Mutation of AcquireRateLock: a contended lock is not waited for.
AcquireRateLockContended(m) ==
    /\ LimiterAt(m, "lock")
    /\ rateLock' = IF rateLock = "free" THEN m ELSE rateLock
    /\ limiter' = [limiter EXCEPT ![m].pc = "load"]
    /\ UNCHANGED <<clock, rateFile, admitted>>

\* acquire_rate_state_lock polls until the lock is free.
AcquireRateLock(m) ==
    /\ LimiterAt(m, "lock")
    /\ rateLock = "free"
    /\ rateLock' = m
    /\ limiter' = [limiter EXCEPT ![m].pc = "load"]
    /\ UNCHANGED <<clock, rateFile, admitted>>

\* load_state: a missing file is an empty state, an unreadable one is
\* quarantined.
LoadState(m) ==
    /\ LimiterAt(m, "load")
    /\ limiter' = [limiter EXCEPT ![m] =
          [@ EXCEPT !.pc = IF rateFile.kind = "corrupt" THEN "quarantine" ELSE "decide",
                    !.recent = rateFile.recent]]
    /\ UNCHANGED <<clock, rateFile, rateLock, admitted>>

\* quarantine_invalid_state renames the file away.
QuarantineInvalidState(m) ==
    /\ LimiterAt(m, "quarantine")
    /\ rateFile' = StateFile("absent", NoEvents)
    /\ limiter' = [limiter EXCEPT ![m].pc = "decide", ![m].recovered = TRUE]
    /\ UNCHANGED <<clock, rateLock, admitted>>

\* The timestamps left when those up to the cutoff are popped from the front.
Unexpired(timestamps, now) ==
    LET cutoff == IF now > Window THEN now - Window ELSE 0
        first == {i \in DOMAIN timestamps : timestamps[i] > cutoff}
    IN  IF first = {} THEN <<>>
        ELSE SubSeq(timestamps, CHOOSE i \in first : \A j \in first : i <= j, Len(timestamps))

\* check_and_record_persistent: the event is rejected if the window is full, and
\* otherwise recorded.
Decide(m) ==
    /\ LimiterAt(m, "decide")
    /\ LET recent == Unexpired(limiter[m].recent[limiter[m].type], limiter[m].now) IN
       IF Len(recent) >= MaxEvents
       THEN Verdict(m)
       ELSE /\ limiter' = [limiter EXCEPT ![m].pc = "persist",
                              ![m].recent[limiter[m].type] = Append(recent, limiter[m].now)]
            /\ UNCHANGED rateLock
    /\ UNCHANGED <<clock, rateFile, admitted>>

\* persist_state: the temporary file replaces the state.
PersistState(m) ==
    /\ LimiterAt(m, "persist")
    /\ rateFile' = StateFile("state", limiter[m].recent)
    /\ limiter' = [limiter EXCEPT ![m].pc = "return"]
    /\ UNCHANGED <<clock, rateLock, admitted>>

\* The event is admitted, unless the state was recovered, which is an error.
Admit(m) ==
    /\ LimiterAt(m, "return")
    /\ admitted' = IF limiter[m].recovered THEN admitted
                   ELSE [admitted EXCEPT ![limiter[m].type] = Append(@, limiter[m].now)]
    /\ Verdict(m)
    /\ UNCHANGED <<clock, rateFile>>

\* A checkpoint past the deadline, an I/O error or a crash, at any point: the
\* event is not decided, and the kernel or the guard releases the lock.
LimiterFails(m) ==
    /\ ~LimiterAt(m, "idle")
    /\ Verdict(m)
    /\ UNCHANGED <<clock, rateFile, admitted>>

\* Only the current window is of interest.
Tick ==
    /\ clock < LastTick
    /\ clock' = clock + 1
    /\ admitted' = [t \in Types |-> SelectSeq(admitted[t], LAMBDA at : at > clock' - Window)]
    /\ UNCHANGED <<rateFile, rateLock, limiter>>

\* Between two decisions the file becomes unreadable or is of another version:
\* what it recorded is lost.
CorruptState ==
    /\ rateFile.kind = "state" /\ rateLock = "free"
    /\ rateFile' = StateFile("corrupt", NoEvents)
    /\ admitted' = NoEvents
    /\ UNCHANGED <<clock, rateLock, limiter>>

RateNext ==
    \/ Tick \/ CorruptState
    \/ \E m \in Monitors :
          \/ \E t \in Types : Arrive(m, t)
          \/ AcquireRateLock(m) \/ LoadState(m) \/ QuarantineInvalidState(m) \/ Decide(m)
          \/ PersistState(m) \/ Admit(m) \/ LimiterFails(m)

RateSpec == RateInit /\ [][RateNext]_rateVars

(***************************************************************************)
(* "a monitor restart cannot reset crash-loop protection" (rate_limiter.   *)
(* rs) and concurrent limiters share one quota: at no moment have more     *)
(* than max_events events of a type been admitted with a time in the       *)
(* current window, however many monitors decide at once, restart, wait for *)
(* the lock with an old reading of the clock, or fail.                     *)
(***************************************************************************)
RateCap ==
    \A t \in Types :
        Len(SelectSeq(admitted[t], LAMBDA at : at > clock - Window)) <= MaxEvents
=============================================================================
