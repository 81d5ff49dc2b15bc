--------------------------- MODULE ShmBreadcrumbs ---------------------------
(***************************************************************************)
(* The breadcrumb section of the shared memory: the producer's threads     *)
(* publish with nonblocking seqlocks (producer/crash_monitor_producer.h,   *)
(* schema/crash_shm_atomic.h), and the monitor copies the section once,    *)
(* without retrying, and drops what it cannot prove stable                 *)
(* (src/shm/reader.rs).  No thread is fair: one that crashed inside an     *)
(* update is one that takes no more steps.  The copy is checked while the  *)
(* producer runs, as the repository's stress fixture does; a suspended     *)
(* producer is the case in which no thread takes a step during the copy.   *)
(*                                                                         *)
(* The other sections use the protocol of a ring, without the registry.    *)
(***************************************************************************)
EXTENDS Naturals, Sequences, FiniteSets

CONSTANTS
    Producers,     \* producer threads
    Rings,         \* CRUMB_MAX_THREADS
    Capacity,      \* CRUMB_RING_CAPACITY
    Crumbs,        \* bound: breadcrumbs the threads try to add
    Modulus        \* 2^w for the w-bit generations and counters

ASSUME RingAssumption ==
    Rings \in Nat \ {0} /\ Capacity \in Nat \ {0} /\ IsFiniteSet(Producers)
ASSUME ModulusAssumption == Modulus \in Nat /\ Modulus % 2 = 0 /\ Modulus > 2
\* A generation takes 2^31 updates to return to a value the reader loaded.
ASSUME CrumbsAssumption == Crumbs \in Nat /\ Crumbs < Modulus \div 2

Slots == 0 .. Rings - 1
Empty == 0

VARIABLES
    registry,   \* header.breadcrumb_registry_generation
    ringCount,  \* breadcrumbs.ring_count
    ring,       \* the rings: gen, buf, idx (write_idx) and count
    prod,       \* the producer threads' program counters and locals
    started,    \* calls of crash_monitor_add_breadcrumb so far
    reader,     \* the reader's position in ReaderSteps
    before, after,   \* LivePublicationState at the two loads
    copy,       \* the owned bytes of the rings; sanitizing sets the publication words
    log,        \* history: the breadcrumbs completed in each ring
    seen        \* history: log when the closing ring generation was loaded

vars == <<registry, ringCount, ring, prod, started, reader, before, after, copy, log, seen>>
readerVars == <<reader, before, after, copy, seen>>

Gens == 0 .. Modulus - 1
CrumbIds == 1 .. Crumbs
Ring == [gen : Gens, buf : [0 .. Capacity - 1 -> CrumbIds \cup {Empty}], idx : 0 .. Capacity, count : Gens]
Publication == [rings : [Slots -> Gens], registry : Gens, count : 0 .. Rings]
ProducerPcs == {"idle", "registry", "claim", "reload", "ring", "claimRing", "payload", "index", "count",
                "end", "publish", "endRegistry"}

TypeOK ==
    /\ registry \in Gens /\ ringCount \in 0 .. Rings
    /\ ring \in [Slots -> Ring]
    /\ \A p \in Producers :
          /\ prod[p].pc \in ProducerPcs
          /\ prod[p].n \in 0 .. Crumbs
          /\ prod[p].slot \in Slots
          /\ prod[p].known \in 0 .. Rings
          /\ prod[p].registryOdd \in Gens /\ prod[p].odd \in Gens /\ prod[p].observed \in Gens
    /\ started \in 0 .. Crumbs
    /\ before \in Publication /\ after \in Publication

NoState == [rings |-> [s \in Slots |-> 0], registry |-> 0, count |-> 0]
\* A producer thread outside a call.
Idle == [pc |-> "idle", n |-> 0, slot |-> 0, known |-> 0, registryOdd |-> 0, odd |-> 0, observed |-> 0]
EmptyRing == [gen |-> 0, buf |-> [i \in 0 .. Capacity - 1 |-> Empty], idx |-> 0, count |-> 0]

Init ==
    /\ registry = 0 /\ ringCount = 0
    /\ ring = [s \in Slots |-> EmptyRing]
    /\ prod = [p \in Producers |-> Idle]
    /\ started = 0
    /\ reader = 1
    /\ before = NoState /\ after = NoState
    /\ copy = [s \in Slots |-> EmptyRing]
    /\ log = [s \in Slots |-> <<>>] /\ seen = [s \in Slots |-> <<>>]

-----------------------------------------------------------------------------
(* crash_monitor_add_breadcrumb.                                           *)

Even(g) == g % 2 = 0
Following(g) == (g + 1) % Modulus

\* The step of a producer thread; its locals end with its call.
Step(p, from, next) ==
    /\ prod[p].pc = from
    /\ prod' = [prod EXCEPT ![p] = IF next.pc = "idle" THEN Idle ELSE next]
    /\ UNCHANGED readerVars

\* The first load of ring_count; an unregistered slot needs the registry.
AddBreadcrumb(p, s) ==
    /\ started < Crumbs
    /\ started' = started + 1
    /\ Step(p, "idle", [pc |-> IF ringCount <= s THEN "registry" ELSE "ring", n |-> started + 1, slot |-> s,
                        known |-> ringCount, registryOdd |-> 0, odd |-> 0, observed |-> 0])
    /\ UNCHANGED <<registry, ringCount, ring, log>>

\* sut_shm_seqlock_try_begin on the registry: the load, then one
\* compare-exchange.
LoadRegistry(p) ==
    /\ Step(p, "registry", [prod[p] EXCEPT !.pc = IF Even(registry) THEN "claim" ELSE "idle", !.observed = registry])
    /\ UNCHANGED <<registry, ringCount, ring, log, started>>

ClaimRegistry(p) ==
    /\ IF registry = prod[p].observed
       THEN /\ Step(p, "claim", [prod[p] EXCEPT !.pc = "reload", !.registryOdd = Following(registry), !.observed = 0])
            /\ registry' = Following(registry)
       ELSE Step(p, "claim", [prod[p] EXCEPT !.pc = "idle"]) /\ UNCHANGED registry
    /\ UNCHANGED <<ringCount, ring, log, started>>

\* Another registrar may have published the slot.
ReloadRingCount(p) ==
    /\ Step(p, "reload", [prod[p] EXCEPT !.pc = "ring", !.known = ringCount])
    /\ UNCHANGED <<registry, ringCount, ring, log, started>>

\* Where a thread whose ring is finished, or was not claimed, continues.
Release(p) == IF prod[p].registryOdd # 0 THEN "endRegistry" ELSE "idle"

\* sut_shm_seqlock_try_begin on the ring.
LoadRing(p) ==
    LET g == ring[prod[p].slot].gen IN
    /\ Step(p, "ring", [prod[p] EXCEPT !.pc = IF Even(g) THEN "claimRing" ELSE Release(p), !.observed = g])
    /\ UNCHANGED <<registry, ringCount, ring, log, started>>

ClaimRing(p) ==
    LET s == prod[p].slot
        g == ring[s].gen IN
    /\ IF g = prod[p].observed
       THEN /\ Step(p, "claimRing", [prod[p] EXCEPT !.pc = "payload", !.odd = Following(g), !.observed = 0])
            /\ ring' = [ring EXCEPT ![s].gen = Following(g)]
       ELSE Step(p, "claimRing", [prod[p] EXCEPT !.pc = Release(p)]) /\ UNCHANGED ring
    /\ UNCHANGED <<registry, ringCount, log, started>>

\* The breadcrumb, then write_idx, then count.
WritePayload(p) ==
    LET s == prod[p].slot IN
    /\ Step(p, "payload", [prod[p] EXCEPT !.pc = "index"])
    /\ ring' = [ring EXCEPT ![s].buf[ring[s].idx % Capacity] = prod[p].n]
    /\ UNCHANGED <<registry, ringCount, log, started>>

WriteIndex(p) ==
    LET s == prod[p].slot IN
    /\ Step(p, "index", [prod[p] EXCEPT !.pc = "count"])
    /\ ring' = [ring EXCEPT ![s].idx = (ring[s].idx % Capacity) + 1]
    /\ UNCHANGED <<registry, ringCount, log, started>>

WriteCount(p) ==
    LET s == prod[p].slot IN
    /\ Step(p, "count", [prod[p] EXCEPT !.pc = "end"])
    /\ ring' = [ring EXCEPT ![s].count = (ring[s].count + 1) % Modulus]
    /\ UNCHANGED <<registry, ringCount, log, started>>

\* sut_shm_seqlock_end on the ring: the breadcrumb is complete.
EndRing(p) ==
    LET s == prod[p].slot IN
    /\ Step(p, "end", [prod[p] EXCEPT !.pc = IF prod[p].known <= s THEN "publish" ELSE Release(p)])
    /\ ring' = [ring EXCEPT ![s].gen = Following(prod[p].odd)]
    /\ log' = [log EXCEPT ![s] = Append(log[s], prod[p].n)]
    /\ UNCHANGED <<registry, ringCount, started>>

\* Mutation of PublishRingCount: the count is the last index.
PublishRingCountOfSlot(p) ==
    /\ Step(p, "publish", [prod[p] EXCEPT !.pc = Release(p)])
    /\ ringCount' = prod[p].slot
    /\ UNCHANGED <<registry, ring, log, started>>

PublishRingCount(p) ==
    /\ Step(p, "publish", [prod[p] EXCEPT !.pc = Release(p)])
    /\ ringCount' = prod[p].slot + 1
    /\ UNCHANGED <<registry, ring, log, started>>

EndRegistry(p) ==
    /\ Step(p, "endRegistry", [prod[p] EXCEPT !.pc = "idle"])
    /\ registry' = Following(prod[p].registryOdd)
    /\ UNCHANGED <<ringCount, ring, log, started>>

-----------------------------------------------------------------------------
(* snapshot_owned_until_with_policy.                                       *)

\* load_publication_state, the copy of the section in address order, and
\* load_publication_state again; each load and each copied range is a step.
Loads(phase) ==
    [i \in 1 .. Rings |-> <<phase, "ring", i - 1>>] \o << <<phase, "registry", 0>>, <<phase, "count", 0>> >>
CopySteps ==
    [i \in 1 .. 2 * Rings |-> <<"copy", IF i % 2 = 1 THEN "buf" ELSE "counters", (i - 1) \div 2>>]

\* Mutation of ReaderSteps: the copy comes after the second loads.
ReaderStepsCopyLast == Loads("before") \o Loads("after") \o CopySteps

ReaderSteps == Loads("before") \o CopySteps \o Loads("after")

Done == reader > Len(ReaderSteps)

\* One publication word is loaded into a LivePublicationState.
Load(state, what, s) ==
    CASE what = "ring" -> [state EXCEPT !.rings[s] = ring[s].gen]
      [] what = "registry" -> [state EXCEPT !.registry = registry]
      [] what = "count" -> [state EXCEPT !.count = ringCount]

\* One range is copied.
CopyRange(what, s) ==
    CASE what = "buf" -> [copy EXCEPT ![s].buf = ring[s].buf]
      [] what = "counters" -> [copy EXCEPT ![s].idx = ring[s].idx, ![s].count = ring[s].count]

SnapshotStep ==
    /\ ~Done
    /\ LET step == ReaderSteps[reader] IN
       /\ before' = IF step[1] = "before" THEN Load(before, step[2], step[3]) ELSE before
       /\ copy' = IF step[1] = "copy" THEN CopyRange(step[2], step[3]) ELSE copy
       /\ after' = IF step[1] = "after" THEN Load(after, step[2], step[3]) ELSE after
       /\ seen' = IF step[1] = "after" /\ step[2] = "ring" THEN [seen EXCEPT ![step[3]] = log[step[3]]] ELSE seen
    /\ reader' = reader + 1
    /\ UNCHANGED <<registry, ringCount, ring, prod, started, log>>

-----------------------------------------------------------------------------
(* sanitize_breadcrumbs and read_breadcrumbs.                              *)

\* stable_generation.
Stable(b, a) == b = a /\ Even(b)

RegistryStable == Stable(before.registry, after.registry) /\ before.count = after.count
Accepted(s) == RegistryStable /\ Stable(before.rings[s], after.rings[s])

\* The slot read for the reverse_index-th newest entry.
SlotOf(idx, reverse) ==
    (IF idx > reverse THEN idx - reverse - 1 ELSE Capacity + idx - reverse - 1) % Capacity

\* A ring's breadcrumbs, newest first.
ReadRing(r) ==
    LET valid == IF r.count < Capacity THEN r.count ELSE Capacity
    IN  [i \in 1 .. valid |-> r.buf[SlotOf(r.idx, i - 1)]]

-----------------------------------------------------------------------------

ProducerStep(p) ==
    \/ \E s \in Slots : AddBreadcrumb(p, s)
    \/ LoadRegistry(p) \/ ClaimRegistry(p) \/ ReloadRingCount(p)
    \/ LoadRing(p) \/ ClaimRing(p)
    \/ WritePayload(p) \/ WriteIndex(p) \/ WriteCount(p) \/ EndRing(p)
    \/ PublishRingCount(p) \/ EndRegistry(p)

\* What the producer does after the copy is not observed.
Next == (~Done /\ \E p \in Producers : ProducerStep(p)) \/ SnapshotStep

Spec == Init /\ [][Next]_vars

-----------------------------------------------------------------------------
(* Properties.                                                             *)

Newest(list) ==
    LET n == IF Len(list) < Capacity THEN Len(list) ELSE Capacity
    IN  [i \in 1 .. n |-> list[Len(list) + 1 - i]]

(***************************************************************************)
(* What the reader accepts is exactly what the producer published.  An     *)
(* accepted ring holds the newest Capacity breadcrumbs of its writers,     *)
(* newest first, with nothing torn, missing or repeated, whatever ran or   *)
(* stopped during the copy; and an accepted registry reaches every         *)
(* published breadcrumb: a ring with breadcrumbs is below the ring_count   *)
(* the snapshot keeps.                                                     *)
(***************************************************************************)
AcceptedIsPublished ==
    Done =>
        /\ \A s \in Slots : Accepted(s) => ReadRing(copy[s]) = Newest(seen[s])
        /\ RegistryStable => \A s \in Slots : seen[s] # <<>> => s < after.count

=============================================================================
