------------------------ MODULE ShmBreadcrumbs_proofs ------------------------
(***************************************************************************)
(* The breadcrumb rings of the shared memory, for any number of threads,   *)
(* rings and entries: an accepted ring is a published one, and an accepted *)
(* registry reaches every published ring.                                  *)
(***************************************************************************)
EXTENDS ShmBreadcrumbs, TLAPS

-----------------------------------------------------------------------------
(* The invariant.                                                          *)

RingRecord == [gen : Nat, buf : [0 .. Capacity - 1 -> Nat], idx : 0 .. Capacity, count : Nat]
ProducerRecord == [pc : ProducerPcs, n : Nat, slot : Slots, known : Nat,
                   registryOdd : Nat, odd : Nat, observed : Nat]
LoadRecord == [rings : [Slots -> Nat], registry : Nat, count : Nat]

RingTypes ==
    /\ registry \in Nat /\ ringCount \in 0 .. Rings
    /\ ring \in [Slots -> RingRecord]
    /\ prod \in [Producers -> ProducerRecord]
    /\ started \in 0 .. Crumbs
    /\ log \in [Slots -> Seq(Nat)]
ReaderTypes ==
    /\ reader \in 1 .. 4 * Rings + 5
    /\ before \in LoadRecord /\ after \in LoadRecord
    /\ copy \in [Slots -> RingRecord]
    /\ seen \in [Slots -> Seq(Nat)]

Least(m, n) == IF m < n THEN m ELSE n

\* The buffer holds the newest entries of a list, the newest before idx.
Entries(buf, idx, list) ==
    \A k \in 1 .. Least(Len(list), Capacity) : buf[SlotOf(idx, k - 1)] = list[Len(list) + 1 - k]
Holds(r, list) == r.count = Len(list) /\ Entries(r.buf, r.idx, list)

\* The thread is between a successful claim of the ring and its release.
Filling == {"payload", "index", "count", "end"}
Owns(p, s) == prod[p].pc \in Filling /\ prod[p].slot = s

\* Where the owner of a ring has got to.
Progress(p, s) ==
    LET r == ring[s]
        list == Append(log[s], prod[p].n) IN
    /\ prod[p].pc = "payload" => Holds(r, log[s])
    /\ prod[p].pc = "index" => r.count = Len(log[s]) /\ Entries(r.buf, (r.idx % Capacity) + 1, list)
    /\ prod[p].pc = "count" => r.count = Len(log[s]) /\ Entries(r.buf, r.idx, list)
    /\ prod[p].pc = "end" => Holds(r, list)

OwnerInv(p, s) ==
    Owns(p, s) => ring[s].gen = prod[p].odd /\ ~Even(ring[s].gen) /\ Progress(p, s)

\* A generation counts the breadcrumbs, and a ring nobody writes is whole.
RingInv(s) ==
    /\ ring[s].gen \in {2 * Len(log[s]), 2 * Len(log[s]) + 1}
    /\ Even(ring[s].gen) => Holds(ring[s], log[s])

\* A thread with the registry keeps the slot numbers to itself; one without
\* it writes a published ring.
Registrar(p) == prod[p].registryOdd # 0
InRing == {"ring", "claimRing"} \cup Filling
ThreadInv(p) ==
    /\ prod[p].known <= ringCount
    /\ prod[p].pc \in {"claim", "claimRing"} => Even(prod[p].observed)
    /\ prod[p].pc \in {"reload", "publish", "endRegistry"} => Registrar(p)
    /\ prod[p].pc \in {"idle", "registry", "claim"} => ~Registrar(p)
    /\ Registrar(p) => prod[p].registryOdd = registry /\ ~Even(registry)
    /\ Registrar(p) /\ prod[p].pc \in InRing \cup {"publish"} => prod[p].known = ringCount
    /\ prod[p].pc = "publish" => prod[p].known <= prod[p].slot
    /\ ~Registrar(p) /\ prod[p].pc \in InRing => prod[p].slot < prod[p].known

\* A ring with breadcrumbs is published or about to be.
Published(s) ==
    log[s] # <<>> => s < ringCount \/ \E p \in Producers : prod[p].pc = "publish" /\ prod[p].slot = s

\* The calls that may still claim a ring, or the registry.
Pending == {p \in Producers : prod[p].pc \in {"registry", "claim", "reload"} \cup InRing}
Registering == {p \in Producers : prod[p].pc \in {"registry", "claim"}}

ProducerInv ==
    /\ \A p \in Producers : ThreadInv(p) /\ \A s \in Slots : OwnerInv(p, s)
    /\ \A p, q \in Producers : Registrar(p) /\ Registrar(q) => p = q
    /\ \A p, q \in Producers : \A s \in Slots : Owns(p, s) /\ Owns(q, s) => p = q
    /\ \A s \in Slots : RingInv(s) /\ Published(s)

\* What counting calls relies on; a fact about finite sets of threads.
Counting ==
    /\ Cardinality({}) = 0
    /\ \A S \in SUBSET Producers : Cardinality(S) \in Nat
    /\ \A S, T \in SUBSET Producers :
          /\ T \subseteq S => Cardinality(T) <= Cardinality(S)
          /\ \A p \in S \ T : T \subseteq S => Cardinality(T) + 1 <= Cardinality(S)
          /\ \A p \in Producers : T \subseteq S \cup {p} => Cardinality(T) <= Cardinality(S) + 1

\* Every completed breadcrumb and every call that may add one was started.
CountInv ==
    /\ Counting
    /\ \A s \in Slots : Len(log[s]) + Cardinality(Pending) <= started
    /\ registry + (registry % 2) + 2 * Cardinality(Registering) <= 2 * started

Taken(step) == \E j \in 1 .. reader - 1 : ReaderSteps[j] = step

\* The generation has not moved since the first load.
Unmoved(s) == Even(before.rings[s]) /\ ring[s].gen = before.rings[s]
RegistryUnmoved == Even(before.registry) /\ registry = before.registry

CopyInv(s) ==
    /\ before.rings[s] <= ring[s].gen
    /\ Taken(<<"copy", "buf", s>>) /\ Unmoved(s) => copy[s].buf = ring[s].buf
    /\ Taken(<<"copy", "counters", s>>) /\ Unmoved(s) => copy[s].idx = ring[s].idx /\ copy[s].count = ring[s].count
    /\ Taken(<<"after", "ring", s>>) /\ Stable(before.rings[s], after.rings[s]) => Holds(copy[s], seen[s])

SeenInv(s) ==
    /\ reader <= 3 * Rings + 3 => seen[s] = <<>>
    /\ seen[s] # <<>> =>
          /\ RegistryUnmoved => s < ringCount
          /\ reader > 4 * Rings + 3 /\ Stable(before.registry, after.registry) => s < ringCount
          /\ reader > 4 * Rings + 4 /\ Stable(before.registry, after.registry) => s < after.count

CopiesInv ==
    /\ before.registry <= registry
    /\ \A s \in Slots : CopyInv(s) /\ SeenInv(s)

Inv == RingTypes /\ ReaderTypes /\ ProducerInv /\ CountInv /\ CopiesInv

-----------------------------------------------------------------------------
(* Lemmas about the operators.                                             *)

\* Arithmetic the steps need, stated apart from their states.
LEMMA NextNumber ==
  \A n \in Nat : n <= n /\ n + 1 \in Nat /\ n <= n + 1
  OBVIOUS

\* A number between two equal ones equals them.
LEMMA Between ==
  ASSUME NEW m \in Nat, NEW n \in Nat, NEW k \in Nat, m <= n, n <= k
  PROVE  m <= k /\ (k = m => n = m)
  OBVIOUS

\* A number below another one stays below when that one grows.
LEMMA StaysBelow ==
  ASSUME NEW m \in Nat, NEW n \in Nat, NEW k \in Nat, n <= k, m < n \/ ~(n <= m)
  PROVE  m < k
  OBVIOUS

\* The two orders of numbers exclude each other.
LEMMA NotBelow ==
  \A m, n \in Nat : n <= m => ~(m < n)
  OBVIOUS

\* The generation of a ring at rest, and of one in use against the next.
LEMMA TwiceIsEven ==
  \A n \in Nat : Even(2 * n) /\ 2 * n + 1 <= 2 * (n + 1)
BY DEF Even

\* Slot numbers and positions of the snapshot's steps.
LEMMA SlotsAreNumbers ==
  /\ \A s \in Slots : s \in Nat
  /\ \A i \in 1 .. 4 * Rings + 4 : i + 1 \in 1 .. 4 * Rings + 5
BY RingAssumption DEF Slots

\* A thread outside a call.
LEMMA IdleFields ==
  Idle.pc = "idle" /\ Idle.registryOdd = 0 /\ Idle.known = 0
BY DEF Idle

\* A generation below the modulus minus one is followed by the next number.
LEMMA FollowingIsNext ==
  ASSUME NEW g \in Nat, g + 1 < Modulus
  PROVE  Following(g) = g + 1
BY ModulusAssumption DEF Following

\* The breadcrumbs a snapshot can meet do not make a generation wrap.
LEMMA CrumbsDoNotWrap ==
  Crumbs \in Nat /\ 2 * Crumbs + 1 < Modulus
BY ModulusAssumption, CrumbsAssumption

\* Remainders of the indexes that occur.
LEMMA SmallRemainders ==
  /\ \A x \in 0 .. Capacity - 1 : x % Capacity = x
  /\ Capacity % Capacity = 0
BY RingAssumption

\* The write position after write_idx, and how the slots shift.
LEMMA SlotShift ==
  ASSUME NEW idx \in 0 .. Capacity
  PROVE  /\ idx % Capacity \in 0 .. Capacity - 1
         /\ (idx % Capacity) + 1 \in 0 .. Capacity
         /\ SlotOf((idx % Capacity) + 1, 0) = idx % Capacity
         /\ \A k \in 1 .. Capacity - 1 :
               /\ SlotOf(idx, k - 1) \in 0 .. Capacity - 1
               /\ SlotOf(idx, k - 1) # idx % Capacity
               /\ SlotOf((idx % Capacity) + 1, k) = SlotOf(idx, k - 1)
<1>1. Capacity \in Nat \ {0}
  BY RingAssumption
<1>2. PICK w \in 0 .. Capacity - 1 : idx % Capacity = w /\ (idx = w \/ (idx = Capacity /\ w = 0))
  <2>1. CASE idx = Capacity
    BY <1>1, <2>1, SmallRemainders
  <2>2. CASE idx \in 0 .. Capacity - 1
    BY <1>1, <2>2, SmallRemainders
  <2> QED
    BY <1>1, <2>1, <2>2
<1>3. SlotOf(w + 1, 0) = w
  <2>1. w + 1 > 0 /\ w + 1 - 0 - 1 = w
    BY <1>1
  <2> QED
    BY <2>1, SmallRemainders DEF SlotOf
<1>4. ASSUME NEW k \in 1 .. Capacity - 1
      PROVE  /\ SlotOf(idx, k - 1) = SlotOf(w + 1, k)
             /\ SlotOf(w + 1, k) \in 0 .. Capacity - 1 /\ SlotOf(w + 1, k) # w
  <2> DEFINE slot == IF w + 1 > k THEN w - k ELSE Capacity + w - k
  <2>1. slot \in 0 .. Capacity - 1 /\ slot # w
    BY <1>1
  <2>2. (IF w + 1 > k THEN w + 1 - k - 1 ELSE Capacity + (w + 1) - k - 1) = slot
    BY <1>1
  <2>3. (IF idx > k - 1 THEN idx - (k - 1) - 1 ELSE Capacity + idx - (k - 1) - 1) = slot
    BY <1>1, <1>2
  <2>4. slot % Capacity = slot
    BY <2>1, SmallRemainders
  <2> HIDE DEF slot
  <2>5. SlotOf(w + 1, k) = slot /\ SlotOf(idx, k - 1) = slot
    BY <2>2, <2>3, <2>4 DEF SlotOf
  <2> QED
    BY <2>1, <2>5
<1> QED
  BY <1>1, <1>2, <1>3, <1>4

\* The payload is stored where write_idx makes it the newest entry.
LEMMA PayloadEntries ==
  ASSUME NEW idx \in 0 .. Capacity, NEW buf \in [0 .. Capacity - 1 -> Nat], NEW list \in Seq(Nat), NEW n \in Nat,
         Entries(buf, idx, list)
  PROVE  Entries([buf EXCEPT ![idx % Capacity] = n], (idx % Capacity) + 1, Append(list, n))
<1>1. Capacity \in Nat \ {0} /\ Len(list) \in Nat
  BY RingAssumption
<1>2. /\ Len(Append(list, n)) = Len(list) + 1 /\ Append(list, n)[Len(list) + 1] = n
      /\ \A i \in 1 .. Len(list) : Append(list, n)[i] = list[i]
  OBVIOUS
<1> DEFINE more == Append(list, n)
           w == idx % Capacity
           next == [buf EXCEPT ![w] = n]
<1> HIDE DEF more
<1>3. w \in 0 .. Capacity - 1 /\ next[w] = n /\ \A i \in 0 .. Capacity - 1 : i # w => next[i] = buf[i]
  BY SlotShift
<1> HIDE DEF w, next
<1> SUFFICES ASSUME NEW k \in 1 .. Least(Len(more), Capacity)
             PROVE  next[SlotOf(w + 1, k - 1)] = more[Len(more) + 1 - k]
  BY Zenon DEF Entries, w, next, more
<1>4. CASE k = 1
  <2>1. SlotOf(w + 1, 0) = w
    BY SlotShift DEF w
  <2>2. k - 1 = 0 /\ Len(more) + 1 - k = Len(list) + 1
    BY <1>1, <1>2, <1>4 DEF more
  <2> QED
    BY <1>2, <1>3, <2>1, <2>2 DEF more
<1>5. CASE k # 1
  <2>1. PICK j \in 1 .. Capacity - 1 : j = k - 1
    BY <1>1, <1>2, <1>5 DEF Least, more
  <2>2. /\ SlotOf(idx, j - 1) \in 0 .. Capacity - 1
        /\ SlotOf(idx, j - 1) # w
        /\ SlotOf(w + 1, j) = SlotOf(idx, j - 1)
    BY SlotShift DEF w
  <2>3. j \in 1 .. Least(Len(list), Capacity) /\ j \in 1 .. Len(list) /\ Len(list) + 1 - j \in 1 .. Len(list)
        /\ Len(more) + 1 - k = Len(list) + 1 - j
    BY SMTT(30), <1>1, <1>2, <2>1 DEF Least, more
  <2>4. buf[SlotOf(idx, j - 1)] = list[Len(list) + 1 - j]
    BY <2>3 DEF Entries
  <2> QED
    BY Zenon, <1>2, <1>3, <2>1, <2>2, <2>3, <2>4 DEF more
<1> QED
  BY <1>4, <1>5

\* read_breadcrumbs returns what the ring holds.
LEMMA ReadNewest ==
  ASSUME NEW r \in RingRecord, NEW list \in Seq(Nat), Holds(r, list)
  PROVE  ReadRing(r) = Newest(list)
<1> DEFINE n == Least(Len(list), Capacity)
<1>1. \A i \in 1 .. n : r.buf[SlotOf(r.idx, i - 1)] = list[Len(list) + 1 - i]
  BY DEF Holds, Entries
<1>2. ReadRing(r) = [i \in 1 .. n |-> r.buf[SlotOf(r.idx, i - 1)]]
  BY DEF ReadRing, Holds, Least
<1>3. Newest(list) = [i \in 1 .. n |-> list[Len(list) + 1 - i]]
  BY DEF Newest, Least
<1> HIDE DEF n
<1> QED
  BY <1>1, <1>2, <1>3

\* The elements of a concatenation, by position.
LEMMA ConcatAt ==
  ASSUME NEW S, NEW s \in Seq(S), NEW t \in Seq(S)
  PROVE  /\ s \o t \in Seq(S)
         /\ Len(s \o t) = Len(s) + Len(t)
         /\ \A i \in 1 .. Len(s) : (s \o t)[i] = s[i]
OBVIOUS

\* The elements of the second part of a concatenation.
LEMMA ConcatRight ==
  ASSUME NEW S, NEW s \in Seq(S), NEW t \in Seq(S), NEW i \in 1 .. Len(t)
  PROVE  (s \o t)[Len(s) + i] = t[i]
<1>1. s \o t \in Seq(S) /\ Len(s \o t) = Len(s) + Len(t) /\ Len(s) \in Nat /\ Len(t) \in Nat
  OBVIOUS
<1>2. Len(s) + i \in 1 .. Len(s) + Len(t) /\ ~(Len(s) + i <= Len(s)) /\ (Len(s) + i) - Len(s) = i
  BY <1>1
<1> QED
  BY <1>1, <1>2

StepSet == {"before", "copy", "after"} \X {"ring", "registry", "count", "buf", "counters"} \X Slots

\* load_publication_state: every ring, the registry, the ring count.
LEMMA LoadsAt ==
  ASSUME NEW phase \in {"before", "after"}
  PROVE  /\ Loads(phase) \in Seq(StepSet) /\ Len(Loads(phase)) = Rings + 2
         /\ \A i \in 1 .. Rings : Loads(phase)[i] = <<phase, "ring", i - 1>>
         /\ Loads(phase)[Rings + 1] = <<phase, "registry", 0>>
         /\ Loads(phase)[Rings + 2] = <<phase, "count", 0>>
<1> DEFINE A == [i \in 1 .. Rings |-> <<phase, "ring", i - 1>>]
           B == << <<phase, "registry", 0>>, <<phase, "count", 0>> >>
<1>1. Rings \in Nat \ {0} /\ 0 \in Slots /\ \A i \in 1 .. Rings : i - 1 \in Slots
  BY RingAssumption DEF Slots
<1>2. A \in Seq(StepSet) /\ Len(A) = Rings /\ \A i \in 1 .. Rings : A[i] = <<phase, "ring", i - 1>>
  BY <1>1 DEF StepSet
<1>3. B \in Seq(StepSet) /\ Len(B) = 2 /\ B[1] = <<phase, "registry", 0>> /\ B[2] = <<phase, "count", 0>>
  BY <1>1 DEF StepSet
<1>4. Loads(phase) = A \o B
  BY DEF Loads
<1> HIDE DEF A, B
<1>7. A \in Seq(StepSet) /\ B \in Seq(StepSet)
  BY <1>2, <1>3
<1>5. /\ A \o B \in Seq(StepSet) /\ Len(A \o B) = Len(A) + Len(B)
      /\ \A i \in 1 .. Len(A) : (A \o B)[i] = A[i]
  BY <1>7, ConcatAt, Zenon
<1>6. ASSUME NEW i \in 1 .. Len(B) PROVE (A \o B)[Len(A) + i] = B[i]
  BY <1>7, ConcatRight, Zenon
<1> QED
  BY <1>1, <1>2, <1>3, <1>4, <1>5, <1>6

\* The ranges of the rings in address order.
LEMMA CopyStepsAt ==
  /\ CopySteps \in Seq(StepSet) /\ Len(CopySteps) = 2 * Rings
  /\ \A i \in 1 .. 2 * Rings : \E s \in Slots : CopySteps[i] \in {<<"copy", "buf", s>>, <<"copy", "counters", s>>}
  /\ \A s \in Slots : /\ CopySteps[2 * s + 1] = <<"copy", "buf", s>>
                      /\ CopySteps[2 * s + 2] = <<"copy", "counters", s>>
<1>1. Rings \in Nat \ {0}
  BY RingAssumption
<1>2. ASSUME NEW i \in 1 .. 2 * Rings PROVE (i - 1) \div 2 \in Slots
  BY <1>1 DEF Slots
<1>3. \A i \in 1 .. 2 * Rings : CopySteps[i] = <<"copy", IF i % 2 = 1 THEN "buf" ELSE "counters", (i - 1) \div 2>>
  BY DEF CopySteps
<1>4. CopySteps \in Seq(StepSet) /\ Len(CopySteps) = 2 * Rings
  BY <1>1, <1>2 DEF CopySteps, StepSet
<1>5. ASSUME NEW s \in Slots PROVE CopySteps[2 * s + 1] = <<"copy", "buf", s>>
  <2>1. 2 * s + 1 \in 1 .. 2 * Rings /\ (2 * s + 1) % 2 = 1 /\ ((2 * s + 1) - 1) \div 2 = s
    BY <1>1 DEF Slots
  <2> QED
    BY <1>3, <2>1
<1>6. ASSUME NEW s \in Slots PROVE CopySteps[2 * s + 2] = <<"copy", "counters", s>>
  <2>1. 2 * s + 2 \in 1 .. 2 * Rings /\ (2 * s + 2) % 2 # 1 /\ ((2 * s + 2) - 1) \div 2 = s
    BY <1>1 DEF Slots
  <2> QED
    BY <1>3, <2>1
<1>7. ASSUME NEW i \in 1 .. 2 * Rings
      PROVE  \E s \in Slots : CopySteps[i] \in {<<"copy", "buf", s>>, <<"copy", "counters", s>>}
  BY Zenon, <1>2, <1>3
<1> QED
  BY <1>4, <1>5, <1>6, <1>7

\* snapshot_owned_until_with_policy in terms of positions.
LEMMA ReaderOrder ==
  /\ Len(ReaderSteps) = 4 * Rings + 4
  /\ \A i \in 1 .. Rings : ReaderSteps[i] = <<"before", "ring", i - 1>>
  /\ ReaderSteps[Rings + 1] = <<"before", "registry", 0>>
  /\ ReaderSteps[Rings + 2] = <<"before", "count", 0>>
  /\ \A i \in 1 .. 2 * Rings : ReaderSteps[Rings + 2 + i] = CopySteps[i]
  /\ \A i \in 1 .. Rings : ReaderSteps[3 * Rings + 2 + i] = <<"after", "ring", i - 1>>
  /\ ReaderSteps[4 * Rings + 3] = <<"after", "registry", 0>>
  /\ ReaderSteps[4 * Rings + 4] = <<"after", "count", 0>>
<1> DEFINE A == Loads("before")
           B == CopySteps
           C == Loads("after")
           AB == A \o B
<1>1. Rings \in Nat \ {0}
  BY RingAssumption
<1>2. A \in Seq(StepSet) /\ B \in Seq(StepSet) /\ C \in Seq(StepSet)
      /\ Len(A) = Rings + 2 /\ Len(B) = 2 * Rings /\ Len(C) = Rings + 2
  BY LoadsAt, CopyStepsAt
<1>3. /\ \A i \in 1 .. Rings : A[i] = <<"before", "ring", i - 1>> /\ C[i] = <<"after", "ring", i - 1>>
      /\ A[Rings + 1] = <<"before", "registry", 0>> /\ C[Rings + 1] = <<"after", "registry", 0>>
      /\ A[Rings + 2] = <<"before", "count", 0>> /\ C[Rings + 2] = <<"after", "count", 0>>
  BY LoadsAt
<1>4. ReaderSteps = AB \o C
  BY DEF ReaderSteps
<1> HIDE DEF A, B, C
<1>16. A \in Seq(StepSet) /\ B \in Seq(StepSet)
  BY <1>2
<1>5. /\ AB \in Seq(StepSet) /\ Len(AB) = Len(A) + Len(B)
      /\ \A i \in 1 .. Len(A) : AB[i] = A[i]
  BY <1>2, ConcatAt, Zenon
<1>6. ASSUME NEW i \in 1 .. Len(B) PROVE AB[Len(A) + i] = B[i]
  BY <1>16, ConcatRight, Zenon
<1> HIDE DEF AB
<1>7. /\ Len(ReaderSteps) = Len(AB) + Len(C)
      /\ \A i \in 1 .. Len(AB) : ReaderSteps[i] = AB[i]
  BY <1>2, <1>4, <1>5, ConcatAt, Zenon
<1>17. AB \in Seq(StepSet) /\ C \in Seq(StepSet)
  BY <1>2, <1>5
<1>18. ASSUME NEW i \in 1 .. Len(C) PROVE (AB \o C)[Len(AB) + i] = C[i]
  BY <1>17, ConcatRight, Zenon
<1>8. ASSUME NEW i \in 1 .. Len(C) PROVE ReaderSteps[Len(AB) + i] = C[i]
  BY <1>4, <1>18
<1>9. ASSUME NEW i \in 1 .. Rings + 2 PROVE ReaderSteps[i] = A[i]
  <2>1. i \in 1 .. Len(A) /\ i \in 1 .. Len(AB)
    BY <1>1, <1>2, <1>5
  <2> QED
    BY <1>5, <1>7, <2>1, Zenon
<1>10. ASSUME NEW i \in 1 .. 2 * Rings PROVE ReaderSteps[Rings + 2 + i] = B[i]
  <2>1. PICK j \in 1 .. Len(AB) : j = Len(A) + i /\ j = Rings + 2 + i
    BY <1>1, <1>2, <1>5
  <2> QED
    BY Zenon, <1>2, <1>6, <1>7, <2>1
<1>11. ASSUME NEW i \in 1 .. Rings + 2 PROVE ReaderSteps[3 * Rings + 2 + i] = C[i]
  <2>1. 3 * Rings + 2 + i = Len(AB) + i
    BY <1>1, <1>2, <1>5
  <2> QED
    BY <1>2, <1>8, <2>1
<1>12. Len(ReaderSteps) = 4 * Rings + 4
  <2>1. Len(ReaderSteps) = ((Rings + 2) + 2 * Rings) + (Rings + 2)
    BY Zenon, <1>2, <1>5, <1>7
  <2> QED
    BY <1>1, <2>1
<1>13. ReaderSteps[4 * Rings + 3] = C[Rings + 1] /\ ReaderSteps[4 * Rings + 4] = C[Rings + 2]
  <2>1. 4 * Rings + 3 = 3 * Rings + 2 + (Rings + 1) /\ 4 * Rings + 4 = 3 * Rings + 2 + (Rings + 2)
        /\ Rings + 1 \in 1 .. Rings + 2 /\ Rings + 2 \in 1 .. Rings + 2
    BY <1>1
  <2> QED
    BY <1>11, <2>1
<1>14. \A i \in 1 .. Rings : ReaderSteps[i] = A[i] /\ ReaderSteps[3 * Rings + 2 + i] = C[i]
  BY <1>1, <1>9, <1>11
<1>15. ReaderSteps[Rings + 1] = A[Rings + 1] /\ ReaderSteps[Rings + 2] = A[Rings + 2]
  BY <1>1, <1>9
<1> QED
  BY Zenon, <1>3, <1>10, <1>12, <1>13, <1>14, <1>15 DEF B

-----------------------------------------------------------------------------
(* Steps of the producer.                                                  *)

\* What a producer's step does to the region, as a reader can tell.
Grows ==
    /\ registry <= registry' /\ ringCount <= ringCount'
    /\ \A s \in Slots :
          /\ ring[s].gen <= ring'[s].gen
          /\ Even(ring[s].gen) /\ ring'[s].gen = ring[s].gen => ring'[s] = ring[s]

Keeps == RingTypes' /\ ProducerInv' /\ CountInv' /\ Grows /\ UNCHANGED readerVars

\* The sets of calls that CountInv counts.
LEMMA CallSets ==
  /\ Pending \in SUBSET Producers /\ Pending' \in SUBSET Producers
  /\ Registering \in SUBSET Producers /\ Registering' \in SUBSET Producers
BY Zenon DEF Pending, Registering

\* The numbers of calls.
LEMMA CallNumbers ==
  ASSUME CountInv
  PROVE  /\ Cardinality(Pending) \in Nat /\ Cardinality(Pending') \in Nat
         /\ Cardinality(Registering) \in Nat /\ Cardinality(Registering') \in Nat
         /\ \A p \in Pending : 0 + 1 <= Cardinality(Pending)
         /\ \A p \in Registering : 0 + 1 <= Cardinality(Registering)
<1>1. /\ Cardinality({}) = 0 /\ {} \in SUBSET Producers
      /\ \A S \in SUBSET Producers : Cardinality(S) \in Nat
      /\ \A S, T \in SUBSET Producers : \A p \in S \ T : T \subseteq S => Cardinality(T) + 1 <= Cardinality(S)
  BY Zenon DEF CountInv, Counting
<1>2. ASSUME NEW S \in SUBSET Producers, NEW p \in S PROVE 0 + 1 <= Cardinality(S)
  <2>1. p \in S \ {} /\ {} \subseteq S
    OBVIOUS
  <2>2. Cardinality({}) + 1 <= Cardinality(S)
    BY Zenon, <1>1, <2>1
  <2> QED
    BY Zenon, <1>1, <2>2
<1> QED
  BY Zenon, <1>1, <1>2, CallSets

\* Fewer calls, or one less.
LEMMA FewerCalls ==
  ASSUME CountInv, Pending' \subseteq Pending, Registering' \subseteq Registering
  PROVE  /\ Cardinality(Pending') <= Cardinality(Pending)
         /\ Cardinality(Registering') <= Cardinality(Registering)
         /\ \A p \in Pending : p \notin Pending' => Cardinality(Pending') + 1 <= Cardinality(Pending)
         /\ \A p \in Registering :
               p \notin Registering' => Cardinality(Registering') + 1 <= Cardinality(Registering)
<1>1. \A S, T \in SUBSET Producers :
         /\ T \subseteq S => Cardinality(T) <= Cardinality(S)
         /\ \A p \in S \ T : T \subseteq S => Cardinality(T) + 1 <= Cardinality(S)
  BY Zenon DEF CountInv, Counting
<1> QED
  BY Zenon, <1>1, CallSets

\* One more call.
LEMMA OneMoreCall ==
  ASSUME CountInv, NEW p \in Producers,
         Pending' \subseteq Pending \cup {p}, Registering' \subseteq Registering \cup {p}
  PROVE  /\ Cardinality(Pending') <= Cardinality(Pending) + 1
         /\ Cardinality(Registering') <= Cardinality(Registering) + 1
<1>1. \A S, T \in SUBSET Producers : \A q \in Producers :
         T \subseteq S \cup {q} => Cardinality(T) <= Cardinality(S) + 1
  BY Zenon DEF CountInv, Counting
<1> QED
  BY Zenon, <1>1, CallSets

\* Step moves one thread.
LEMMA StepMoves ==
  ASSUME prod \in [Producers -> ProducerRecord], NEW p \in Producers, NEW from, NEW next \in ProducerRecord,
         Step(p, from, next)
  PROVE  /\ prod' \in [Producers -> ProducerRecord]
         /\ prod'[p] = IF next.pc = "idle" THEN Idle ELSE next
         /\ \A q \in Producers \ {p} : prod'[q] = prod[q]
         /\ prod[p].pc = from
         /\ UNCHANGED readerVars
<1>1. Idle \in ProducerRecord
  BY RingAssumption DEF Idle, ProducerRecord, ProducerPcs, Slots
<1> QED
  BY <1>1 DEF Step

\* What a step of p has to show: the others are undisturbed when neither the
\* registry nor a ring they hold is touched.
LEMMA LocalStep ==
  ASSUME RingTypes, RingTypes', ProducerInv, NEW p \in Producers,
         \A q \in Producers \ {p} : prod'[q] = prod[q],
         ringCount <= ringCount',
         \A q \in Producers \ {p} : Registrar(q) => registry' = registry /\ ringCount' = ringCount /\ ~Registrar(p)',
         \A q \in Producers \ {p} : \A s \in Slots :
            Owns(q, s) => ring'[s] = ring[s] /\ log'[s] = log[s] /\ ~Owns(p, s)',
         ThreadInv(p)', \A s \in Slots : OwnerInv(p, s)', \A s \in Slots : RingInv(s)',
         \A s \in Slots : Published(s)' \/ (log'[s] = log[s] /\ (prod[p].pc = "publish" /\ prod[p].slot = s => s < ringCount'))
  PROVE  ProducerInv'
<1>1. ASSUME NEW q \in Producers \ {p} PROVE (Registrar(q)' <=> Registrar(q)) /\ \A s \in Slots : Owns(q, s)' <=> Owns(q, s)
  BY DEF Registrar, Owns
<1>2. ASSUME NEW q \in Producers \ {p} PROVE ThreadInv(q)'
  <2>1. ThreadInv(q) /\ prod'[q] = prod[q] /\ prod[q] \in ProducerRecord
    BY DEF ProducerInv, RingTypes
  <2>2. prod'[q].known <= ringCount'
    BY SMTT(30), <2>1 DEF ThreadInv, ProducerRecord, RingTypes
  <2>3. Registrar(q) => registry' = registry /\ ringCount' = ringCount
    BY Zenon
  <2> QED
    BY Zenon, <1>1, <2>1, <2>2, <2>3 DEF ThreadInv
<1>3. ASSUME NEW q \in Producers \ {p}, NEW s \in Slots PROVE OwnerInv(q, s)'
  <2> SUFFICES ASSUME Owns(q, s)' PROVE OwnerInv(q, s)'
    BY Zenon DEF OwnerInv
  <2>1. Owns(q, s) /\ OwnerInv(q, s)
    BY <1>1 DEF ProducerInv
  <2>2. prod'[q] = prod[q] /\ ring'[s] = ring[s] /\ log'[s] = log[s]
    BY <2>1
  <2> QED
    BY Zenon, <2>1, <2>2 DEF OwnerInv, Progress
<1>4. ASSUME NEW q \in Producers, NEW t \in Producers, Registrar(q)', Registrar(t)' PROVE q = t
  <2>1. CASE q = p \/ t = p
    BY <1>1, <1>4, <2>1
  <2>2. CASE q # p /\ t # p
    BY <1>1, <1>4, <2>2 DEF ProducerInv
  <2> QED
    BY <2>1, <2>2
<1>5. ASSUME NEW q \in Producers, NEW t \in Producers, NEW s \in Slots, Owns(q, s)', Owns(t, s)' PROVE q = t
  <2>1. CASE q = p \/ t = p
    BY <1>1, <1>5, <2>1
  <2>2. CASE q # p /\ t # p
    BY <1>1, <1>5, <2>2 DEF ProducerInv
  <2> QED
    BY <2>1, <2>2
<1>6. ASSUME NEW s \in Slots PROVE Published(s)'
  <2> SUFFICES ASSUME log'[s] = log[s], prod[p].pc = "publish" /\ prod[p].slot = s => s < ringCount', log[s] # <<>>
               PROVE  s < ringCount' \/ \E q \in Producers : prod'[q].pc = "publish" /\ prod'[q].slot = s
    BY DEF Published
  <2>1. CASE s < ringCount
    BY <2>1, RingAssumption DEF RingTypes, Slots
  <2>2. CASE \E q \in Producers : prod[q].pc = "publish" /\ prod[q].slot = s
    BY <2>2
  <2> QED
    BY <2>1, <2>2 DEF ProducerInv, Published
<1> QED
  BY <1>2, <1>3, <1>4, <1>5, <1>6 DEF ProducerInv

\* CountInv over a step that neither starts a call nor moves a generation.
LEMMA CountStep ==
  ASSUME RingTypes, CountInv, log' = log, registry' = registry, started' = started,
         Pending' \subseteq Pending, Registering' \subseteq Registering
  PROVE  CountInv'
<1>1. /\ Cardinality(Pending') \in Nat /\ Cardinality(Pending) \in Nat /\ Cardinality(Pending') <= Cardinality(Pending)
      /\ Cardinality(Registering') \in Nat /\ Cardinality(Registering) \in Nat
      /\ Cardinality(Registering') <= Cardinality(Registering)
  BY Zenon, CallNumbers, FewerCalls
<1>2. \A s \in Slots : Len(log[s]) \in Nat
  BY DEF RingTypes
<1>3. \A s \in Slots : Len(log[s]) + Cardinality(Pending') <= started
  BY SMTT(30), <1>1, <1>2, CrumbsDoNotWrap DEF CountInv, RingTypes
<1>4. registry + (registry % 2) + 2 * Cardinality(Registering') <= 2 * started
  BY SMTT(30), <1>1, CrumbsDoNotWrap DEF CountInv, RingTypes
<1> QED
  BY <1>3, <1>4 DEF CountInv

\* A step that changes only the thread's own state.
LEMMA QuietMove ==
  ASSUME RingTypes, ProducerInv, NEW p \in Producers, NEW from, NEW next \in ProducerRecord, Step(p, from, next),
         from # "publish", next.pc \notin Filling, next.registryOdd \in {0, prod[p].registryOdd},
         UNCHANGED <<registry, ringCount, ring, log>>, started' \in 0 .. Crumbs, ThreadInv(p)'
  PROVE  RingTypes' /\ ProducerInv' /\ Grows /\ UNCHANGED readerVars
<1>1. /\ prod' \in [Producers -> ProducerRecord]
      /\ prod'[p] = IF next.pc = "idle" THEN Idle ELSE next
      /\ \A q \in Producers \ {p} : prod'[q] = prod[q]
      /\ prod[p].pc # "publish"
      /\ UNCHANGED readerVars
  BY StepMoves DEF RingTypes
<1>2. RingTypes'
  BY <1>1 DEF RingTypes
<1>3. prod'[p].pc \notin Filling /\ prod'[p].registryOdd \in {0, prod[p].registryOdd}
  BY <1>1 DEF Idle, Filling
<1>4. ASSUME NEW s \in Slots PROVE ~Owns(p, s)' /\ OwnerInv(p, s)' /\ RingInv(s)'
  BY Zenon, <1>3 DEF Owns, OwnerInv, ProducerInv, RingInv
<1>5. ASSUME NEW q \in Producers \ {p}, Registrar(q) PROVE ~Registrar(p)'
  BY <1>3, <1>5 DEF Registrar, ProducerInv
<1>6. ringCount <= ringCount'
  BY RingAssumption DEF RingTypes
<1>7. ProducerInv'
  BY Zenon, <1>1, <1>2, <1>4, <1>5, <1>6, LocalStep
<1>8. Grows
  BY <1>6, RingAssumption DEF Grows, RingTypes, RingRecord
<1> QED
  BY <1>1, <1>2, <1>7, <1>8

\* The same with the numbers of calls.
LEMMA QuietStep ==
  ASSUME RingTypes, ProducerInv, CountInv, NEW p \in Producers, NEW from, NEW next \in ProducerRecord,
         Step(p, from, next),
         from # "publish", next.pc \notin Filling, next.registryOdd \in {0, prod[p].registryOdd},
         from \in {"registry", "claim", "reload"} \cup InRing,
         next.pc \in {"registry", "claim"} => from \in {"registry", "claim"},
         UNCHANGED <<registry, ringCount, ring, log, started>>, ThreadInv(p)'
  PROVE  Keeps
<1>1. /\ prod'[p] = IF next.pc = "idle" THEN Idle ELSE next
      /\ \A q \in Producers \ {p} : prod'[q] = prod[q]
      /\ prod[p].pc = from
  BY StepMoves DEF RingTypes
<1>2. Pending' \subseteq Pending /\ Registering' \subseteq Registering
  BY <1>1 DEF Pending, Registering, Idle
<1>3. CountInv'
  BY <1>2, CountStep
<1>4. started' \in 0 .. Crumbs
  BY DEF RingTypes
<1>5. RingTypes' /\ ProducerInv' /\ Grows /\ UNCHANGED readerVars
  BY <1>4, QuietMove
<1> QED
  BY <1>3, <1>5 DEF Keeps

\* The state of a thread outside a call.
LEMMA IdleThread ==
  ASSUME NEW p \in Producers, prod'[p] = Idle, ringCount' \in Nat
  PROVE  ThreadInv(p)'
BY DEF ThreadInv, Idle, Registrar, InRing, Filling

\* AddBreadcrumb starts a call.
LEMMA AddKeeps ==
  ASSUME RingTypes, ProducerInv, CountInv, NEW p \in Producers, NEW s \in Slots, AddBreadcrumb(p, s)
  PROVE  Keeps
<1> DEFINE next == [pc |-> IF ringCount <= s THEN "registry" ELSE "ring", n |-> started + 1, slot |-> s,
                    known |-> ringCount, registryOdd |-> 0, odd |-> 0, observed |-> 0]
<1>1. /\ Step(p, "idle", next) /\ started < Crumbs /\ started' = started + 1
      /\ UNCHANGED <<registry, ringCount, ring, log>>
  BY DEF AddBreadcrumb
<1>2. started \in Nat /\ ringCount \in Nat /\ s \in Nat /\ Crumbs \in Nat
  BY RingAssumption, CrumbsAssumption DEF RingTypes, Slots
<1>3. next \in ProducerRecord /\ next.registryOdd = 0 /\ next.known = ringCount /\ next.slot = s
      /\ next.pc \in {"registry", "ring"} /\ (next.pc = "ring" => s < ringCount)
  BY <1>2 DEF ProducerRecord, ProducerPcs
<1> HIDE DEF next
<1>4. /\ prod'[p] = next /\ prod[p].pc = "idle"
      /\ \A q \in Producers \ {p} : prod'[q] = prod[q]
  BY <1>1, <1>3, StepMoves DEF RingTypes
<1>5. ThreadInv(p)'
  BY <1>1, <1>2, <1>3, <1>4 DEF ThreadInv, Registrar, InRing, Filling
<1>6. started' \in 0 .. Crumbs
  BY <1>1, <1>2
<1>7. next.pc \notin Filling
  BY <1>3 DEF Filling
<1>8. RingTypes' /\ ProducerInv' /\ Grows /\ UNCHANGED readerVars
  BY <1>1, <1>3, <1>5, <1>6, <1>7, QuietMove
<1>9. Pending' \subseteq Pending \cup {p} /\ Registering' \subseteq Registering \cup {p}
  BY <1>4 DEF Pending, Registering
<1>10. /\ Cardinality(Pending') \in Nat /\ Cardinality(Pending) \in Nat
       /\ Cardinality(Pending') <= Cardinality(Pending) + 1
       /\ Cardinality(Registering') \in Nat /\ Cardinality(Registering) \in Nat
       /\ Cardinality(Registering') <= Cardinality(Registering) + 1
  BY Zenon, <1>9, CallNumbers, OneMoreCall
<1>11. \A x \in Slots : Len(log[x]) \in Nat
  BY DEF RingTypes
<1>12. ASSUME NEW x \in Slots PROVE Len(log[x]) + Cardinality(Pending') <= started + 1
  <2>1. Len(log[x]) + Cardinality(Pending) <= started
    BY DEF CountInv
  <2> QED
    BY SMTT(30), <1>2, <1>10, <1>11, <2>1
<1>13. registry + (registry % 2) + 2 * Cardinality(Registering') <= 2 * (started + 1)
  <2>1. registry + (registry % 2) + 2 * Cardinality(Registering) <= 2 * started /\ registry \in Nat
    BY DEF CountInv, RingTypes
  <2> QED
    BY <1>2, <1>10, <2>1
<1>14. CountInv'
  BY <1>1, <1>12, <1>13 DEF CountInv
<1> QED
  BY <1>8, <1>14 DEF Keeps

\* LoadRegistry.
LEMMA LoadRegistryKeeps ==
  ASSUME RingTypes, ProducerInv, CountInv, NEW p \in Producers, LoadRegistry(p)
  PROVE  Keeps
<1> DEFINE next == [prod[p] EXCEPT !.pc = IF Even(registry) THEN "claim" ELSE "idle", !.observed = registry]
<1>1. Step(p, "registry", next) /\ UNCHANGED <<registry, ringCount, ring, log, started>>
  BY DEF LoadRegistry
<1>2. prod[p] \in ProducerRecord /\ registry \in Nat /\ ringCount \in Nat
  BY RingAssumption DEF RingTypes
<1>3. /\ next \in ProducerRecord /\ next.registryOdd = prod[p].registryOdd /\ next.known = prod[p].known
      /\ next.pc \in {"claim", "idle"} /\ (next.pc = "claim" => Even(registry)) /\ next.observed = registry
  BY Zenon, <1>2 DEF ProducerRecord, ProducerPcs
<1> HIDE DEF next
<1>4. prod'[p] = (IF next.pc = "idle" THEN Idle ELSE next) /\ prod[p].pc = "registry"
  BY <1>1, <1>3, StepMoves DEF RingTypes
<1>5. prod[p].known <= ringCount /\ prod[p].registryOdd = 0
  BY Zenon, <1>4 DEF ProducerInv, ThreadInv, Registrar
<1>6. ThreadInv(p)'
  <2>1. CASE next.pc = "idle"
    BY <1>1, <1>2, <1>4, <2>1, IdleThread
  <2>2. CASE next.pc = "claim"
    BY <1>1, <1>3, <1>4, <1>5, <2>2 DEF ThreadInv, Registrar, InRing, Filling
  <2> QED
    BY <1>3, <2>1, <2>2
<1>7. next.pc \notin Filling
  BY <1>3 DEF Filling
<1> QED
  BY <1>1, <1>3, <1>6, <1>7, QuietStep

\* ReloadRingCount.
LEMMA ReloadKeeps ==
  ASSUME RingTypes, ProducerInv, CountInv, NEW p \in Producers, ReloadRingCount(p)
  PROVE  Keeps
<1> DEFINE next == [prod[p] EXCEPT !.pc = "ring", !.known = ringCount]
<1>1. Step(p, "reload", next) /\ UNCHANGED <<registry, ringCount, ring, log, started>>
  BY DEF ReloadRingCount
<1>2. prod[p] \in ProducerRecord /\ ringCount \in Nat
  BY RingAssumption DEF RingTypes
<1>3. /\ next \in ProducerRecord /\ next.registryOdd = prod[p].registryOdd /\ next.known = ringCount
      /\ next.pc = "ring"
  BY Zenon, <1>2 DEF ProducerRecord, ProducerPcs
<1> HIDE DEF next
<1>4. prod'[p] = next /\ prod[p].pc = "reload"
  BY <1>1, <1>3, StepMoves DEF RingTypes
<1>5. prod[p].registryOdd # 0 /\ prod[p].registryOdd = registry /\ ~Even(registry)
  BY Zenon, <1>4 DEF ProducerInv, ThreadInv, Registrar
<1>6. ThreadInv(p)'
  BY <1>1, <1>2, <1>3, <1>4, <1>5 DEF ThreadInv, Registrar, InRing, Filling
<1>7. next.pc \notin Filling
  BY <1>3 DEF Filling
<1> QED
  BY <1>1, <1>3, <1>6, <1>7, QuietStep

\* A thread that gives up on the ring, with the registry or without.
LEMMA ReleaseKeeps ==
  ASSUME RingTypes, ProducerInv, CountInv, NEW p \in Producers, NEW from \in {"ring", "claimRing"},
         NEW next \in ProducerRecord, Step(p, from, next),
         next.pc = Release(p), next.registryOdd = prod[p].registryOdd, next.known = prod[p].known,
         UNCHANGED <<registry, ringCount, ring, log, started>>
  PROVE  Keeps
<1>2. prod[p] \in ProducerRecord /\ ringCount \in Nat
  BY RingAssumption DEF RingTypes
<1>4. prod'[p] = (IF next.pc = "idle" THEN Idle ELSE next) /\ prod[p].pc = from
  BY StepMoves DEF RingTypes
<1>5. /\ prod[p].known <= ringCount
      /\ prod[p].registryOdd # 0 => prod[p].registryOdd = registry /\ ~Even(registry)
  BY Zenon DEF ProducerInv, ThreadInv, Registrar
<1>6. ThreadInv(p)'
  <2>1. CASE next.pc = "idle"
    BY Zenon, <1>2, <1>4, <2>1, IdleThread
  <2>2. CASE next.pc = "endRegistry" /\ prod[p].registryOdd # 0
    BY <1>4, <1>5, <2>2 DEF ThreadInv, Registrar, InRing, Filling
  <2> QED
    BY Zenon, <2>1, <2>2 DEF Release
<1>7. next.pc \notin Filling /\ next.pc \notin {"registry", "claim"} /\ from \in InRing /\ from # "publish"
  BY DEF Filling, Release, InRing
<1> QED
  BY <1>6, <1>7, QuietStep

\* LoadRing.
LEMMA LoadRingKeeps ==
  ASSUME RingTypes, ProducerInv, CountInv, NEW p \in Producers, LoadRing(p)
  PROVE  Keeps
<1>1. PICK g \in Nat : g = ring[prod[p].slot].gen
  BY Zenon DEF RingTypes, ProducerRecord, RingRecord
<1> DEFINE next == [prod[p] EXCEPT !.pc = IF Even(g) THEN "claimRing" ELSE Release(p), !.observed = g]
<1>2. Step(p, "ring", next) /\ UNCHANGED <<registry, ringCount, ring, log, started>>
  BY <1>1 DEF LoadRing
<1>3. prod[p] \in ProducerRecord /\ ringCount \in Nat
  BY RingAssumption DEF RingTypes
<1>4. /\ next \in ProducerRecord /\ next.registryOdd = prod[p].registryOdd /\ next.known = prod[p].known
      /\ next.slot = prod[p].slot
      /\ next.pc = (IF Even(g) THEN "claimRing" ELSE Release(p)) /\ next.observed = g
  BY Zenon, <1>1, <1>3 DEF ProducerRecord, ProducerPcs, Release
<1> HIDE DEF next
<1>5. CASE ~Even(g)
  BY <1>2, <1>4, <1>5, ReleaseKeeps
<1>6. CASE Even(g)
  <2>1. prod'[p] = next /\ prod[p].pc = "ring"
    BY <1>2, <1>4, <1>6, StepMoves DEF RingTypes
  <2>2. ThreadInv(p)
    BY DEF ProducerInv
  <2>3. ThreadInv(p)'
    BY Zenon, <1>2, <1>4, <1>6, <2>1, <2>2 DEF ThreadInv, Registrar, InRing, Filling
  <2>4. next.pc \notin Filling /\ next.pc \notin {"registry", "claim"} /\ "ring" \in InRing
    BY <1>4, <1>6 DEF Filling, InRing
  <2> QED
    BY Zenon, <1>2, <1>4, <2>3, <2>4, QuietStep
<1> QED
  BY <1>5, <1>6

\* ClaimRegistry: a moved registry ends the call.
LEMMA ClaimRegistryKeeps ==
  ASSUME RingTypes, ProducerInv, CountInv, NEW p \in Producers, ClaimRegistry(p)
  PROVE  Keeps
<1>1. prod[p] \in ProducerRecord /\ registry \in Nat /\ ringCount \in Nat /\ started \in Nat /\ started <= Crumbs
      /\ ringCount' = ringCount /\ ring' = ring /\ log' = log /\ started' = started
  BY RingAssumption, CrumbsAssumption DEF RingTypes, ClaimRegistry
<1>2. CASE registry # prod[p].observed
  <2> DEFINE next == [prod[p] EXCEPT !.pc = "idle"]
  <2>1. Step(p, "claim", next) /\ UNCHANGED <<registry, ringCount, ring, log, started>>
    BY <1>2 DEF ClaimRegistry
  <2>2. next \in ProducerRecord /\ next.pc = "idle" /\ next.registryOdd = prod[p].registryOdd
    BY <1>1 DEF ProducerRecord, ProducerPcs
  <2> HIDE DEF next
  <2>3. prod'[p] = Idle /\ prod[p].pc = "claim"
    BY <2>1, <2>2, StepMoves DEF RingTypes
  <2>4. ThreadInv(p)' /\ next.pc \notin Filling
    BY Zenon, <1>1, <2>2, <2>3, IdleThread DEF Filling
  <2> QED
    BY Zenon, <2>1, <2>2, <2>4, QuietStep
<1>3. CASE registry = prod[p].observed
  <2> DEFINE next == [prod[p] EXCEPT !.pc = "reload", !.registryOdd = Following(registry), !.observed = 0]
  <2>1. Step(p, "claim", next) /\ registry' = Following(registry)
    BY <1>3 DEF ClaimRegistry
  <2>2. prod[p].pc = "claim"
    BY <2>1 DEF Step
  <2>3. p \in Registering /\ p \in Pending /\ Even(registry) /\ prod[p].known <= ringCount /\ ~Registrar(p)
    BY Zenon, <1>3, <2>2 DEF Registering, Pending, ProducerInv, ThreadInv
  <2>4. Cardinality(Registering) \in Nat /\ Cardinality(Registering) >= 1
    <3>1. Cardinality(Registering) \in Nat /\ 0 + 1 <= Cardinality(Registering)
      BY Zenon, <2>3, CallNumbers
    <3> QED
      BY <3>1
  <2>5. registry % 2 = 0 /\ registry + 2 * Cardinality(Registering) <= 2 * started
    BY <1>1, <2>3, <2>4 DEF CountInv, Even
  <2>6. Following(registry) = registry + 1 /\ registry + 1 \in Nat /\ (registry + 1) % 2 = 1
    <3>1. registry + 1 < Modulus
      BY <1>1, <2>4, <2>5, CrumbsDoNotWrap, ModulusAssumption
    <3> QED
      BY <1>1, <2>5, <3>1, FollowingIsNext
  <2>7. /\ next \in ProducerRecord /\ next.registryOdd = registry + 1 /\ next.known = prod[p].known
        /\ next.pc = "reload"
    BY Zenon, <1>1, <2>6 DEF ProducerRecord, ProducerPcs
  <2> HIDE DEF next
  <2>8. /\ prod' \in [Producers -> ProducerRecord] /\ prod'[p] = next
        /\ \A q \in Producers \ {p} : prod'[q] = prod[q]
        /\ UNCHANGED readerVars
    BY <2>1, <2>7, StepMoves DEF RingTypes
  <2>9. RingTypes'
    BY <1>1, <2>1, <2>6, <2>8 DEF RingTypes
  <2>10. ASSUME NEW q \in Producers PROVE ~Registrar(q)
    BY Zenon, <2>3 DEF ProducerInv, ThreadInv
  <2>11. ThreadInv(p)'
    BY SMTT(30), <1>1, <2>1, <2>3, <2>6, <2>7, <2>8 DEF ThreadInv, Registrar, InRing, Filling, Even
  <2>12. ASSUME NEW s \in Slots PROVE ~Owns(p, s)' /\ OwnerInv(p, s)' /\ RingInv(s)'
    BY Zenon, <1>1, <2>7, <2>8 DEF Owns, OwnerInv, ProducerInv, RingInv, Filling
  <2>13. ProducerInv'
    <3>1. ringCount <= ringCount' /\ prod[p].pc # "publish" /\ \A s \in Slots : ring'[s] = ring[s] /\ log'[s] = log[s]
      BY <1>1, <2>2
    <3> QED
      BY Zenon, <2>8, <2>9, <2>10, <2>11, <2>12, <3>1, LocalStep
  <2>14. Grows
    BY <1>1, <2>1, <2>6 DEF Grows, RingTypes, RingRecord
  <2>15. Pending' \subseteq Pending /\ Registering' \subseteq Registering /\ p \notin Registering'
    BY <2>3, <2>7, <2>8 DEF Pending, Registering
  <2>16. /\ Cardinality(Pending') \in Nat /\ Cardinality(Pending) \in Nat /\ Cardinality(Pending') <= Cardinality(Pending)
         /\ Cardinality(Registering') \in Nat /\ Cardinality(Registering') + 1 <= Cardinality(Registering)
    BY <2>3, <2>15, CallNumbers, FewerCalls, Zenon
  <2>17. ASSUME NEW x \in Slots PROVE Len(log[x]) + Cardinality(Pending') <= started
    <3>1. Len(log[x]) + Cardinality(Pending) <= started /\ Len(log[x]) \in Nat
      BY DEF CountInv, RingTypes
    <3> QED
      BY <1>1, <2>16, <3>1
  <2>18. (registry + 1) + 1 + 2 * Cardinality(Registering') <= 2 * started
    BY <1>1, <2>4, <2>5, <2>16
  <2>19. CountInv'
    BY <1>1, <2>1, <2>6, <2>17, <2>18 DEF CountInv
  <2> QED
    BY <2>8, <2>9, <2>13, <2>14, <2>19 DEF Keeps
<1> QED
  BY <1>2, <1>3

\* PublishRingCount: only the registrar sets ring_count, and it raises it.
LEMMA PublishKeeps ==
  ASSUME RingTypes, ProducerInv, CountInv, NEW p \in Producers, PublishRingCount(p)
  PROVE  Keeps
<1> DEFINE next == [prod[p] EXCEPT !.pc = Release(p)]
<1>1. Step(p, "publish", next) /\ ringCount' = prod[p].slot + 1 /\ UNCHANGED <<registry, ring, log, started>>
  BY DEF PublishRingCount
<1>2. prod[p] \in ProducerRecord /\ ringCount \in Nat /\ prod[p].slot \in Slots /\ prod[p].known \in Nat
  BY RingAssumption DEF RingTypes, ProducerRecord
<1>3. prod[p].pc = "publish"
  BY <1>1 DEF Step
<1>4. /\ prod[p].registryOdd # 0 /\ prod[p].registryOdd = registry /\ ~Even(registry)
      /\ prod[p].known = ringCount /\ prod[p].known <= prod[p].slot
  BY Zenon, <1>3 DEF ProducerInv, ThreadInv, Registrar
<1>5. next \in ProducerRecord /\ next.pc = "endRegistry" /\ next.registryOdd = registry /\ next.known = ringCount
  BY <1>2, <1>4 DEF ProducerRecord, ProducerPcs, Release
<1> HIDE DEF next
<1>6. /\ prod' \in [Producers -> ProducerRecord] /\ prod'[p] = next
      /\ \A q \in Producers \ {p} : prod'[q] = prod[q]
      /\ UNCHANGED readerVars
  BY <1>1, <1>5, StepMoves DEF RingTypes
<1>7. ringCount' \in 0 .. Rings /\ ringCount' \in Nat /\ ringCount <= ringCount' /\ prod[p].slot < ringCount'
  BY <1>1, <1>2, <1>4, RingAssumption DEF Slots
<1>8. RingTypes'
  BY <1>1, <1>6, <1>7 DEF RingTypes
<1>9. ThreadInv(p)'
  BY Zenon, <1>1, <1>4, <1>5, <1>6, <1>7 DEF ThreadInv, Registrar, InRing, Filling
<1>10. ASSUME NEW q \in Producers \ {p} PROVE ~Registrar(q)
  BY Zenon, <1>4 DEF ProducerInv, Registrar
<1>11. ASSUME NEW s \in Slots PROVE ~Owns(p, s)' /\ OwnerInv(p, s)' /\ RingInv(s)'
  BY Zenon, <1>1, <1>5, <1>6 DEF Owns, OwnerInv, ProducerInv, RingInv, Filling
<1>12. ProducerInv'
  BY Zenon, <1>1, <1>6, <1>7, <1>8, <1>9, <1>10, <1>11, LocalStep
<1>13. Grows
  BY <1>1, <1>7 DEF Grows, RingTypes, RingRecord
<1>14. Pending' \subseteq Pending /\ Registering' \subseteq Registering
  BY <1>5, <1>6 DEF Pending, Registering, InRing, Filling
<1>15. CountInv'
  BY <1>1, <1>14, CountStep
<1> QED
  BY <1>6, <1>8, <1>12, <1>13, <1>15 DEF Keeps

\* EndRegistry.
LEMMA EndRegistryKeeps ==
  ASSUME RingTypes, ProducerInv, CountInv, NEW p \in Producers, EndRegistry(p)
  PROVE  Keeps
<1> DEFINE next == [prod[p] EXCEPT !.pc = "idle"]
<1>1. /\ Step(p, "endRegistry", next) /\ registry' = Following(prod[p].registryOdd)
      /\ UNCHANGED <<ringCount, ring, log, started>>
  BY DEF EndRegistry
<1>2. prod[p] \in ProducerRecord /\ registry \in Nat /\ ringCount \in Nat /\ started \in Nat /\ started <= Crumbs
  BY RingAssumption, CrumbsAssumption DEF RingTypes
<1>3. next \in ProducerRecord /\ next.pc = "idle"
  BY <1>2 DEF ProducerRecord, ProducerPcs
<1> HIDE DEF next
<1>4. /\ prod' \in [Producers -> ProducerRecord] /\ prod'[p] = Idle /\ prod[p].pc = "endRegistry"
      /\ \A q \in Producers \ {p} : prod'[q] = prod[q]
      /\ UNCHANGED readerVars
  BY <1>1, <1>3, StepMoves DEF RingTypes
<1>5. prod[p].registryOdd # 0 /\ prod[p].registryOdd = registry /\ ~Even(registry)
  BY Zenon, <1>4 DEF ProducerInv, ThreadInv, Registrar
<1>6. Cardinality(Registering) \in Nat /\ registry % 2 = 1 /\ registry + 1 + 2 * Cardinality(Registering) <= 2 * started
  <2>1. registry % 2 = 1
    BY <1>2, <1>5 DEF Even
  <2> QED
    BY <1>2, <2>1, CallNumbers DEF CountInv
<1>7. registry' = registry + 1 /\ registry' \in Nat /\ registry' % 2 = 0
  <2>1. registry + 1 < Modulus
    BY <1>2, <1>6, CrumbsDoNotWrap, ModulusAssumption
  <2> QED
    BY SMTT(30), <1>1, <1>2, <1>5, <1>6, <2>1, FollowingIsNext
<1>8. RingTypes'
  BY <1>1, <1>4, <1>7 DEF RingTypes
<1>9. ThreadInv(p)'
  BY <1>1, <1>2, <1>4, IdleThread
<1>10. ASSUME NEW q \in Producers \ {p} PROVE ~Registrar(q)
  BY <1>5 DEF ProducerInv, Registrar
<1>11. ASSUME NEW s \in Slots PROVE ~Owns(p, s)' /\ OwnerInv(p, s)' /\ RingInv(s)'
  <2>1. prod'[p].pc = "idle"
    BY Zenon, <1>4, IdleFields
  <2>2. ~Owns(p, s)'
    BY Zenon, <2>1 DEF Owns, Filling
  <2>3. OwnerInv(p, s)'
    BY Zenon, <2>2 DEF OwnerInv
  <2>4. RingInv(s)'
    BY Zenon, <1>1 DEF ProducerInv, RingInv
  <2> QED
    BY Zenon, <2>2, <2>3, <2>4
<1>12. ProducerInv'
  <2>1. ringCount <= ringCount' /\ prod[p].pc # "publish" /\ \A s \in Slots : ring'[s] = ring[s] /\ log'[s] = log[s]
    BY <1>1, <1>2, <1>4
  <2> QED
    BY Zenon, <1>4, <1>8, <1>9, <1>10, <1>11, <2>1, LocalStep
<1>13. Grows
  BY <1>1, <1>2, <1>7 DEF Grows, RingTypes, RingRecord
<1>14. Pending' \subseteq Pending /\ Registering' \subseteq Registering
  BY SMTT(30), <1>4 DEF Pending, Registering, InRing, Filling, Idle
<1>15. /\ Cardinality(Pending') \in Nat /\ Cardinality(Pending) \in Nat /\ Cardinality(Pending') <= Cardinality(Pending)
       /\ Cardinality(Registering') \in Nat /\ Cardinality(Registering') <= Cardinality(Registering)
  BY Zenon, <1>14, CallNumbers, FewerCalls
<1>16. ASSUME NEW x \in Slots PROVE Len(log[x]) + Cardinality(Pending') <= started
  <2>1. Len(log[x]) + Cardinality(Pending) <= started /\ Len(log[x]) \in Nat
    BY DEF CountInv, RingTypes
  <2> QED
    BY <1>2, <1>15, <2>1
<1>17. (registry + 1) + 0 + 2 * Cardinality(Registering') <= 2 * started
  BY <1>2, <1>6, <1>15
<1>18. CountInv'
  BY <1>1, <1>7, <1>16, <1>17 DEF CountInv
<1> QED
  BY <1>4, <1>8, <1>12, <1>13, <1>18 DEF Keeps

\* The breadcrumb a thread is about to complete still fits the bound.
LEMMA RoomForOne ==
  ASSUME RingTypes, CountInv, NEW p \in Pending, NEW s \in Slots
  PROVE  Len(log[s]) \in Nat /\ Len(log[s]) + 1 <= Crumbs /\ 2 * Len(log[s]) + 3 < Modulus
<1>1. Cardinality(Pending) \in Nat /\ 0 + 1 <= Cardinality(Pending)
  BY Zenon, CallNumbers
<1>2. Len(log[s]) \in Nat /\ Len(log[s]) + Cardinality(Pending) <= started /\ started \in 0 .. Crumbs
  BY DEF CountInv, RingTypes
<1> QED
  BY <1>1, <1>2, CrumbsDoNotWrap, ModulusAssumption

\* A ring's generation is set.
LEMMA SetGen ==
  ASSUME RingTypes, NEW s \in Slots, NEW g \in Nat, ring' = [ring EXCEPT ![s].gen = g]
  PROVE  /\ ring' \in [Slots -> RingRecord]
         /\ ring'[s].gen = g /\ ring'[s].buf = ring[s].buf
         /\ ring'[s].idx = ring[s].idx /\ ring'[s].count = ring[s].count
         /\ \A x \in Slots \ {s} : ring'[x] = ring[x]
<1>1. ring \in [Slots -> RingRecord] /\ ring[s] \in RingRecord
  BY DEF RingTypes
<1> QED
  BY <1>1 DEF RingRecord

\* What holds of a ring depends on its contents only.
LEMMA HoldsContents ==
  ASSUME NEW r, NEW t, NEW list, r.buf = t.buf, r.idx = t.idx, r.count = t.count
  PROVE  Holds(r, list) <=> Holds(t, list)
BY DEF Holds

\* ClaimRing.
LEMMA ClaimRingKeeps ==
  ASSUME RingTypes, ProducerInv, CountInv, NEW p \in Producers, ClaimRing(p)
  PROVE  Keeps
<1>1. prod[p] \in ProducerRecord /\ ringCount \in Nat /\ ring \in [Slots -> RingRecord]
      /\ registry' = registry /\ ringCount' = ringCount /\ log' = log /\ started' = started
  BY RingAssumption DEF RingTypes, ClaimRing
<1>2. PICK s \in Slots : s = prod[p].slot
  BY <1>1 DEF ProducerRecord
<1>3. PICK g \in Nat : g = ring[s].gen
  BY <1>1 DEF RingRecord
<1>4. CASE g # prod[p].observed
  <2> DEFINE next == [prod[p] EXCEPT !.pc = Release(p)]
  <2>1. Step(p, "claimRing", next) /\ UNCHANGED <<registry, ringCount, ring, log, started>>
    BY <1>2, <1>3, <1>4 DEF ClaimRing
  <2>2. /\ next \in ProducerRecord /\ next.pc = Release(p) /\ next.registryOdd = prod[p].registryOdd
        /\ next.known = prod[p].known
    BY <1>1 DEF ProducerRecord, ProducerPcs, Release
  <2> HIDE DEF next
  <2> QED
    BY <2>1, <2>2, ReleaseKeeps, Zenon
<1>5. CASE g = prod[p].observed
  <2>1. PICK h \in Nat : h = g + 1
    OBVIOUS
  <2> DEFINE next == [prod[p] EXCEPT !.pc = "payload", !.odd = h, !.observed = 0]
  <2>2. prod[p].pc = "claimRing"
    BY <1>2, <1>3, <1>5 DEF ClaimRing, Step
  <2>3. p \in Pending /\ Even(g)
    BY Zenon, <1>5, <2>2 DEF Pending, InRing, ProducerInv, ThreadInv
  <2>4. RingInv(s) /\ Len(log[s]) \in Nat
    BY DEF ProducerInv, RingTypes
  <2>5. g = 2 * Len(log[s]) /\ ~Even(h) /\ h = 2 * Len(log[s]) + 1 /\ Holds(ring[s], log[s])
    BY SMTT(30), <1>3, <2>1, <2>3, <2>4 DEF RingInv, Even
  <2>6. Following(g) = h
    <3>1. g + 1 < Modulus
      BY <2>3, <2>5, RoomForOne, ModulusAssumption
    <3> QED
      BY <2>1, <3>1, FollowingIsNext
  <2>7. Step(p, "claimRing", next) /\ ring' = [ring EXCEPT ![s].gen = h]
    BY <1>2, <1>3, <1>5, <2>6 DEF ClaimRing
  <2>8. /\ next \in ProducerRecord /\ next.pc = "payload" /\ next.registryOdd = prod[p].registryOdd
        /\ next.known = prod[p].known /\ next.slot = s /\ next.odd = h
    BY Zenon, <1>1, <1>2 DEF ProducerRecord, ProducerPcs
  <2> HIDE DEF next
  <2>9. /\ prod' \in [Producers -> ProducerRecord] /\ prod'[p] = next
        /\ \A q \in Producers \ {p} : prod'[q] = prod[q]
        /\ UNCHANGED readerVars
    BY <2>7, <2>8, StepMoves DEF RingTypes
  <2>10. /\ ring' \in [Slots -> RingRecord]
         /\ ring'[s].gen = h /\ ring'[s].buf = ring[s].buf
         /\ ring'[s].idx = ring[s].idx /\ ring'[s].count = ring[s].count
         /\ \A x \in Slots \ {s} : ring'[x] = ring[x]
    BY Zenon, <2>7, SetGen
  <2>11. RingTypes'
    BY <1>1, <2>9, <2>10 DEF RingTypes
  <2>12. ThreadInv(p)'
    <3>1. ThreadInv(p)
      BY DEF ProducerInv
    <3> QED
      BY Zenon, <1>1, <1>2, <2>2, <2>8, <2>9, <3>1 DEF ThreadInv, Registrar, InRing, Filling
  <2>13. ASSUME NEW q \in Producers PROVE ~Owns(q, s)
    BY Zenon, <1>3, <2>3 DEF ProducerInv, OwnerInv
  <2>14. Holds(ring'[s], log[s])
    BY Zenon, <2>5, <2>10, HoldsContents
  <2>15. ASSUME NEW x \in Slots PROVE OwnerInv(p, x)'
    BY Zenon, <1>1, <2>5, <2>8, <2>9, <2>10, <2>14 DEF Owns, OwnerInv, Progress
  <2>16. ASSUME NEW x \in Slots PROVE RingInv(x)'
    <3>1. CASE x = s
      BY <1>1, <2>5, <2>10, <3>1 DEF RingInv
    <3>2. CASE x # s
      BY Zenon, <1>1, <2>10, <3>2 DEF RingInv, ProducerInv
    <3> QED
      BY <3>1, <3>2
  <2>17. ASSUME NEW q \in Producers \ {p}, NEW x \in Slots, Owns(q, x)
         PROVE  ring'[x] = ring[x] /\ ~Owns(p, x)'
    BY Zenon, <2>8, <2>9, <2>10, <2>13, <2>17 DEF Owns
  <2>18. ASSUME NEW q \in Producers \ {p}, Registrar(q) PROVE ~Registrar(p)'
    BY Zenon, <2>8, <2>9, <2>18 DEF Registrar, ProducerInv
  <2>19. ProducerInv'
    <3>1. ringCount <= ringCount' /\ prod[p].pc # "publish" /\ \A x \in Slots : log'[x] = log[x]
      BY <1>1, <2>2
    <3> QED
      BY Zenon, <1>1, <2>9, <2>11, <2>12, <2>15, <2>16, <2>17, <2>18, <3>1, LocalStep
  <2>20. Grows
    <3>1. registry <= registry' /\ ringCount <= ringCount'
      BY <1>1 DEF RingTypes
    <3>2. ASSUME NEW x \in Slots PROVE ring[x].gen <= ring'[x].gen /\ (ring'[x].gen = ring[x].gen => ring'[x] = ring[x])
      BY SMTT(30), <1>1, <1>3, <2>1, <2>10 DEF RingRecord
    <3> QED
      BY Zenon, <3>1, <3>2 DEF Grows
  <2>21. Pending' \subseteq Pending /\ Registering' \subseteq Registering
    BY <2>3, <2>8, <2>9 DEF Pending, Registering
  <2>22. CountInv'
    BY <1>1, <2>21, CountStep
  <2> QED
    BY <2>9, <2>11, <2>19, <2>20, <2>22 DEF Keeps
<1> QED
  BY <1>4, <1>5

\* A step of a ring's owner inside the ring.
LEMMA OwnerStep ==
  ASSUME RingTypes, ProducerInv, CountInv, NEW p \in Producers, NEW s \in Slots, prod[p].slot = s,
         NEW from \in Filling, NEW next \in ProducerRecord, Step(p, from, next), next.pc \in Filling,
         next.slot = s, next.known = prod[p].known, next.registryOdd = prod[p].registryOdd, next.odd = prod[p].odd,
         UNCHANGED <<registry, ringCount, log, started>>,
         ring' \in [Slots -> RingRecord], ring'[s].gen = ring[s].gen,
         \A x \in Slots \ {s} : ring'[x] = ring[x],
         Progress(p, s)'
  PROVE  Keeps
<1>1. /\ prod' \in [Producers -> ProducerRecord] /\ prod'[p] = next /\ prod[p].pc = from
      /\ \A q \in Producers \ {p} : prod'[q] = prod[q]
      /\ UNCHANGED readerVars
  BY StepMoves DEF RingTypes, Filling
<1>2. RingTypes'
  BY <1>1 DEF RingTypes
<1>3. ThreadInv(p)'
  <2>1. ThreadInv(p)
    BY Zenon DEF ProducerInv
  <2> QED
    BY Zenon, <1>1, <2>1 DEF ThreadInv, Registrar, InRing, Filling
<1>4. Owns(p, s) /\ ring[s].gen = prod[p].odd /\ ~Even(ring[s].gen)
  BY Zenon, <1>1 DEF Owns, ProducerInv, OwnerInv
<1>5. ASSUME NEW x \in Slots PROVE OwnerInv(p, x)'
  BY Zenon, <1>1, <1>4 DEF OwnerInv, Owns
<1>6. ASSUME NEW x \in Slots PROVE RingInv(x)'
  <2>1. CASE x = s
    BY Zenon, <1>4, <2>1 DEF RingInv, ProducerInv
  <2>2. CASE x # s
    BY Zenon, <2>2 DEF RingInv, ProducerInv
  <2> QED
    BY Zenon, <2>1, <2>2
<1>7. ASSUME NEW q \in Producers \ {p}, NEW x \in Slots, Owns(q, x)
      PROVE  ring'[x] = ring[x] /\ ~Owns(p, x)'
  BY Zenon, <1>1, <1>4, <1>7 DEF ProducerInv, Owns
<1>8. ASSUME NEW q \in Producers \ {p}, Registrar(q) PROVE ~Registrar(p)'
  BY Zenon, <1>1, <1>8 DEF Registrar, ProducerInv
<1>9. ringCount <= ringCount' /\ registry <= registry' /\ prod[p].pc # "publish"
  BY <1>1, RingAssumption DEF RingTypes, Filling
<1>10. ProducerInv'
  BY Zenon, <1>1, <1>2, <1>3, <1>5, <1>6, <1>7, <1>8, <1>9, LocalStep
<1>11. Grows
  <2>1. ASSUME NEW x \in Slots PROVE ring[x].gen <= ring'[x].gen /\ (Even(ring[x].gen) => ring'[x] = ring[x])
    <3>1. ring[x].gen \in Nat
      BY DEF RingTypes, RingRecord
    <3>2. CASE x = s
      BY Zenon, <1>4, <3>1, <3>2, NextNumber
    <3>3. CASE x # s
      BY Zenon, <3>1, <3>3, NextNumber
    <3> QED
      BY Zenon, <3>2, <3>3
  <2> QED
    BY Zenon, <1>9, <2>1 DEF Grows
<1>12. Pending' \subseteq Pending /\ Registering' \subseteq Registering
  BY Zenon, <1>1 DEF Pending, Registering, InRing, Filling
<1>13. CountInv'
  BY Zenon, <1>12, CountStep
<1> QED
  BY Zenon, <1>1, <1>2, <1>10, <1>11, <1>13 DEF Keeps

\* WritePayload: the entry goes to the slot write_idx will count.
LEMMA PayloadKeeps ==
  ASSUME RingTypes, ProducerInv, CountInv, NEW p \in Producers, WritePayload(p)
  PROVE  Keeps
<1>1. prod[p] \in ProducerRecord /\ prod[p].pc = "payload" /\ ring \in [Slots -> RingRecord]
  BY DEF RingTypes, WritePayload, Step
<1>2. PICK s \in Slots : s = prod[p].slot
  BY <1>1 DEF ProducerRecord
<1>3. PICK n \in Nat : n = prod[p].n
  BY <1>1 DEF ProducerRecord
<1> DEFINE next == [prod[p] EXCEPT !.pc = "index"]
           w == ring[s].idx % Capacity
<1>4. /\ Step(p, "payload", next) /\ UNCHANGED <<registry, ringCount, log, started>>
      /\ ring' = [ring EXCEPT ![s].buf[w] = n]
  BY <1>2, <1>3 DEF WritePayload
<1>5. /\ next \in ProducerRecord /\ next.pc = "index" /\ next.registryOdd = prod[p].registryOdd
      /\ next.known = prod[p].known /\ next.slot = s /\ next.odd = prod[p].odd /\ next.n = n
  BY <1>1, <1>2, <1>3 DEF ProducerRecord, ProducerPcs
<1> HIDE DEF next
<1>6. PICK r \in RingRecord : r = ring[s]
  BY <1>1
<1>7. r.idx \in 0 .. Capacity /\ r.buf \in [0 .. Capacity - 1 -> Nat] /\ w \in 0 .. Capacity - 1
  BY Zenon, <1>6, SlotShift DEF RingRecord
<1>8. PICK buf \in [0 .. Capacity - 1 -> Nat] : buf = [r.buf EXCEPT ![w] = n]
  BY Zenon, <1>7
<1>9. ring' = [ring EXCEPT ![s] = [r EXCEPT !.buf = buf]]
  BY <1>4, <1>6, <1>8
<1>10. PICK t \in RingRecord : t = [r EXCEPT !.buf = buf]
  BY Zenon, <1>6, <1>8 DEF RingRecord
<1>11. t.gen = r.gen /\ t.idx = r.idx /\ t.count = r.count /\ t.buf = buf
  BY <1>10 DEF RingRecord
<1>12. ring' \in [Slots -> RingRecord] /\ ring'[s] = t /\ \A x \in Slots \ {s} : ring'[x] = ring[x]
  BY <1>1, <1>9, <1>10
<1>13. prod'[p] = next
  BY <1>4, <1>5, StepMoves DEF RingTypes
<1>14. Holds(r, log[s]) /\ log[s] \in Seq(Nat)
  BY Zenon, <1>1, <1>2, <1>6 DEF ProducerInv, OwnerInv, Owns, Progress, Filling, RingTypes
<1>15. Entries(buf, w + 1, Append(log[s], n))
  BY Zenon, <1>3, <1>6, <1>7, <1>8, <1>14, PayloadEntries DEF Holds
<1>16. Progress(p, s)'
  BY Zenon, <1>4, <1>5, <1>6, <1>11, <1>12, <1>13, <1>14, <1>15 DEF Progress, Holds
<1> QED
  BY Zenon, <1>2, <1>4, <1>5, <1>6, <1>11, <1>12, <1>16, OwnerStep DEF Filling

\* WriteIndex.
LEMMA IndexKeeps ==
  ASSUME RingTypes, ProducerInv, CountInv, NEW p \in Producers, WriteIndex(p)
  PROVE  Keeps
<1>1. prod[p] \in ProducerRecord /\ prod[p].pc = "index" /\ ring \in [Slots -> RingRecord]
  BY DEF RingTypes, WriteIndex, Step
<1>2. PICK s \in Slots : s = prod[p].slot
  BY <1>1 DEF ProducerRecord
<1>6. PICK r \in RingRecord : r = ring[s]
  BY <1>1
<1>7. PICK i \in 0 .. Capacity : i = (r.idx % Capacity) + 1
  BY SlotShift DEF RingRecord
<1> DEFINE next == [prod[p] EXCEPT !.pc = "count"]
<1>4. /\ Step(p, "index", next) /\ UNCHANGED <<registry, ringCount, log, started>>
      /\ ring' = [ring EXCEPT ![s].idx = i]
  BY <1>2, <1>6, <1>7, Zenon DEF WriteIndex
<1>5. /\ next \in ProducerRecord /\ next.pc = "count" /\ next.registryOdd = prod[p].registryOdd
      /\ next.known = prod[p].known /\ next.slot = s /\ next.odd = prod[p].odd /\ next.n = prod[p].n
  BY <1>1, <1>2 DEF ProducerRecord, ProducerPcs
<1> HIDE DEF next
<1>10. PICK t \in RingRecord : t = [r EXCEPT !.idx = i]
  BY Zenon, <1>6, <1>7 DEF RingRecord
<1>11. t.gen = r.gen /\ t.idx = i /\ t.count = r.count /\ t.buf = r.buf
  BY <1>10 DEF RingRecord
<1>12. ring' \in [Slots -> RingRecord] /\ ring'[s] = t /\ \A x \in Slots \ {s} : ring'[x] = ring[x]
  BY <1>1, <1>4, <1>6, <1>10
<1>13. prod'[p] = next
  BY <1>4, <1>5, StepMoves DEF RingTypes
<1>14. r.count = Len(log[s]) /\ Entries(r.buf, i, Append(log[s], prod[p].n))
  BY Zenon, <1>1, <1>2, <1>6, <1>7 DEF ProducerInv, OwnerInv, Owns, Progress, Filling
<1>16. Progress(p, s)'
  BY Zenon, <1>4, <1>5, <1>11, <1>12, <1>13, <1>14 DEF Progress
<1> QED
  BY Zenon, <1>2, <1>4, <1>5, <1>6, <1>11, <1>12, <1>16, OwnerStep DEF Filling

\* WriteCount.
LEMMA CountKeeps ==
  ASSUME RingTypes, ProducerInv, CountInv, NEW p \in Producers, WriteCount(p)
  PROVE  Keeps
<1>1. prod[p] \in ProducerRecord /\ prod[p].pc = "count" /\ ring \in [Slots -> RingRecord]
  BY DEF RingTypes, WriteCount, Step
<1>2. PICK s \in Slots : s = prod[p].slot
  BY <1>1 DEF ProducerRecord
<1>3. PICK n \in Nat : n = prod[p].n
  BY <1>1 DEF ProducerRecord
<1>6. PICK r \in RingRecord : r = ring[s]
  BY <1>1
<1>14. r.count = Len(log[s]) /\ Entries(r.buf, r.idx, Append(log[s], n))
  BY Zenon, <1>1, <1>2, <1>3, <1>6 DEF ProducerInv, OwnerInv, Owns, Progress, Filling
<1>8. p \in Pending
  BY <1>1 DEF Pending, InRing, Filling
<1>9. Len(log[s]) \in Nat /\ Len(Append(log[s], n)) = Len(log[s]) + 1 /\ Len(log[s]) + 1 < Modulus
  <2>1. log[s] \in Seq(Nat)
    BY DEF RingTypes
  <2> QED
    BY <1>8, <2>1, RoomForOne, ModulusAssumption
<1>7. PICK c \in Nat : c = Len(log[s]) + 1
  BY <1>9
<1>17. (r.count + 1) % Modulus = c
  <2>1. r.count \in Nat /\ r.count + 1 < Modulus /\ r.count + 1 = c
    BY <1>7, <1>9, <1>14
  <2>2. Following(r.count) = r.count + 1
    BY <2>1, FollowingIsNext
  <2> QED
    BY <2>1, <2>2 DEF Following
<1> DEFINE next == [prod[p] EXCEPT !.pc = "end"]
<1>4. /\ Step(p, "count", next) /\ UNCHANGED <<registry, ringCount, log, started>>
      /\ ring' = [ring EXCEPT ![s].count = c]
  BY Zenon, <1>2, <1>6, <1>17 DEF WriteCount
<1>5. /\ next \in ProducerRecord /\ next.pc = "end" /\ next.registryOdd = prod[p].registryOdd
      /\ next.known = prod[p].known /\ next.slot = s /\ next.odd = prod[p].odd /\ next.n = n
  BY <1>1, <1>2, <1>3 DEF ProducerRecord, ProducerPcs
<1> HIDE DEF next
<1>10. PICK t \in RingRecord : t = [r EXCEPT !.count = c]
  BY Zenon, <1>6, <1>7 DEF RingRecord
<1>11. t.gen = r.gen /\ t.idx = r.idx /\ t.count = c /\ t.buf = r.buf
  BY <1>10 DEF RingRecord
<1>12. ring' \in [Slots -> RingRecord] /\ ring'[s] = t /\ \A x \in Slots \ {s} : ring'[x] = ring[x]
  BY <1>1, <1>4, <1>6, <1>10
<1>13. prod'[p] = next
  BY <1>4, <1>5, StepMoves DEF RingTypes
<1>15. Holds(t, Append(log[s], n))
  BY <1>7, <1>9, <1>11, <1>14 DEF Holds
<1>16. Progress(p, s)'
  BY <1>4, <1>5, <1>12, <1>13, <1>15 DEF Progress
<1> QED
  BY Zenon, <1>2, <1>4, <1>5, <1>6, <1>11, <1>12, <1>16, OwnerStep DEF Filling

\* EndRing: the breadcrumb is complete, and its ring is published or the
\* registrar goes on to publish it.
LEMMA EndRingKeeps ==
  ASSUME RingTypes, ProducerInv, CountInv, NEW p \in Producers, EndRing(p)
  PROVE  Keeps
<1>1. prod[p] \in ProducerRecord /\ prod[p].pc = "end" /\ ring \in [Slots -> RingRecord]
      /\ registry' = registry /\ ringCount' = ringCount /\ started' = started
      /\ ringCount \in Nat /\ registry \in Nat /\ started \in Nat
  BY RingAssumption, CrumbsAssumption DEF RingTypes, EndRing, Step
<1>2. PICK s \in Slots : s = prod[p].slot
  BY <1>1 DEF ProducerRecord
<1>3. PICK n \in Nat : n = prod[p].n
  BY <1>1 DEF ProducerRecord
<1>4. PICK list \in Seq(Nat) : list = log[s]
  BY DEF RingTypes
<1>5. PICK more \in Seq(Nat) : more = Append(list, n)
  <2>1. Append(list, n) \in Seq(Nat)
    BY <1>3, <1>4
  <2> QED
    BY <2>1, Zenon
<1>6. Len(list) \in Nat /\ Len(more) = Len(list) + 1 /\ more # <<>>
  BY <1>4, <1>5
<1>7. p \in Pending /\ Owns(p, s) /\ ThreadInv(p) /\ s \in Nat /\ prod[p].known \in Nat
  <2>1. p \in Pending
    BY Zenon, <1>1 DEF Pending, InRing, Filling
  <2>2. Owns(p, s)
    BY Zenon, <1>1, <1>2 DEF Owns, Filling
  <2>3. ThreadInv(p)
    BY Zenon DEF ProducerInv
  <2>4. s \in Nat /\ prod[p].known \in Nat
    BY Zenon, <1>1, SlotsAreNumbers DEF ProducerRecord
  <2> QED
    BY Zenon, <2>1, <2>2, <2>3, <2>4
<1>8. ring[s].gen = prod[p].odd /\ ~Even(ring[s].gen) /\ Holds(ring[s], more)
  BY Zenon, <1>1, <1>2, <1>3, <1>4, <1>5, <1>7 DEF ProducerInv, OwnerInv, Progress
<1>9. prod[p].odd = 2 * Len(list) + 1
  <2>1. ring[s].gen \in {2 * Len(list), 2 * Len(list) + 1}
    BY Zenon, <1>4 DEF ProducerInv, RingInv
  <2>2. Even(2 * Len(list))
    BY Zenon, <1>6, TwiceIsEven
  <2> QED
    BY Zenon, <1>8, <2>1, <2>2
<1>10. PICK g \in Nat : g = 2 * Len(more)
  BY <1>6
<1>11. Following(prod[p].odd) = g /\ Even(g)
  <2>1. 2 * Len(list) + 1 \in Nat /\ (2 * Len(list) + 1) + 1 < Modulus /\ (2 * Len(list) + 1) + 1 = g
    BY SMTT(30), <1>4, <1>6, <1>7, <1>10, RoomForOne, ModulusAssumption
  <2>2. Following(2 * Len(list) + 1) = g
    BY <2>1, FollowingIsNext
  <2> QED
    <3>1. Len(more) \in Nat
      BY Zenon, <1>6, NextNumber
    <3> QED
      BY Zenon, <1>9, <1>10, <2>2, <3>1, TwiceIsEven
<1> DEFINE next == [prod[p] EXCEPT !.pc = IF prod[p].known <= s THEN "publish" ELSE Release(p)]
<1>12. /\ Step(p, "end", next) /\ ring' = [ring EXCEPT ![s].gen = g]
       /\ log' = [log EXCEPT ![s] = more]
  BY Zenon, <1>2, <1>3, <1>4, <1>5, <1>11 DEF EndRing
<1>13. /\ next \in ProducerRecord /\ next.registryOdd = prod[p].registryOdd /\ next.known = prod[p].known /\ next.slot = s
       /\ next.pc = IF prod[p].known <= s THEN "publish" ELSE Release(p)
  BY Zenon, <1>1, <1>2 DEF ProducerRecord, ProducerPcs, Release
<1> HIDE DEF next
<1>14. /\ prod' \in [Producers -> ProducerRecord] /\ prod'[p] = IF next.pc = "idle" THEN Idle ELSE next
       /\ \A q \in Producers \ {p} : prod'[q] = prod[q]
       /\ UNCHANGED readerVars
  BY <1>12, <1>13, StepMoves DEF RingTypes
<1>15. prod'[p].pc \in {"idle", "publish", "endRegistry"} /\ prod'[p].registryOdd \in {0, prod[p].registryOdd}
  <2>1. Idle.pc = "idle" /\ Idle.registryOdd = 0
    BY Zenon DEF Idle
  <2>2. next.pc \in {"idle", "publish", "endRegistry"} /\ next.registryOdd = prod[p].registryOdd
    BY Zenon, <1>13 DEF Release
  <2> QED
    BY Zenon, <1>14, <2>1, <2>2
<1>16. /\ ring' \in [Slots -> RingRecord]
       /\ ring'[s].gen = g /\ ring'[s].buf = ring[s].buf
       /\ ring'[s].idx = ring[s].idx /\ ring'[s].count = ring[s].count
       /\ \A x \in Slots \ {s} : ring'[x] = ring[x]
  BY Zenon, <1>12, SetGen
<1>17. log' \in [Slots -> Seq(Nat)] /\ log'[s] = more /\ \A x \in Slots \ {s} : log'[x] = log[x]
  BY <1>5, <1>12 DEF RingTypes
<1>18. RingTypes'
  BY Zenon, <1>1, <1>14, <1>16, <1>17 DEF RingTypes
<1>19. ThreadInv(p)' /\ (prod[p].known <= s => prod'[p].pc = "publish" /\ prod'[p].slot = s)
  <2>1. CASE prod[p].known <= s
    <3>1. prod'[p] = next /\ next.pc = "publish" /\ Registrar(p)
      <4>1. prod'[p] = next /\ next.pc = "publish"
        BY Zenon, <1>13, <1>14, <2>1
      <4>2. ~(s < prod[p].known)
        BY Zenon, <1>7, <2>1, NotBelow
      <4>3. Registrar(p)
        BY Zenon, <1>1, <1>2, <1>7, <4>2 DEF ThreadInv, InRing, Filling
      <4> QED
        BY Zenon, <4>1, <4>3
    <3> QED
      BY Zenon, <1>1, <1>2, <1>7, <1>13, <2>1, <3>1 DEF ThreadInv, Registrar, InRing, Filling
  <2>2. CASE ~(prod[p].known <= s) /\ prod[p].registryOdd # 0
    <3>1. prod'[p] = next /\ next.pc = "endRegistry"
      BY Zenon, <1>13, <1>14, <2>2 DEF Release
    <3> QED
      BY Zenon, <1>1, <1>7, <1>13, <2>2, <3>1 DEF ThreadInv, Registrar, InRing, Filling
  <2>3. CASE ~(prod[p].known <= s) /\ prod[p].registryOdd = 0
    <3>1. prod'[p] = Idle
      BY Zenon, <1>13, <1>14, <2>3 DEF Release
    <3> QED
      BY Zenon, <1>1, <2>3, <3>1, IdleThread
  <2> QED
    BY Zenon, <2>1, <2>2, <2>3
<1>20. Holds(ring'[s], more)
  BY Zenon, <1>8, <1>16, HoldsContents
<1>21. ASSUME NEW x \in Slots PROVE ~Owns(p, x)' /\ OwnerInv(p, x)'
  BY Zenon, <1>15 DEF Owns, OwnerInv, Filling
<1>22. ASSUME NEW x \in Slots PROVE RingInv(x)'
  <2>1. CASE x = s
    BY Zenon, <1>10, <1>16, <1>17, <1>20, <2>1 DEF RingInv
  <2>2. CASE x # s
    BY Zenon, <1>16, <1>17, <2>2 DEF RingInv, ProducerInv
  <2> QED
    BY <2>1, <2>2
<1>23. Published(s)'
  <2>1. CASE prod[p].known <= s
    BY <1>19, <2>1 DEF Published
  <2>2. CASE ~(prod[p].known <= s)
    <3>1. prod[p].known <= ringCount
      BY Zenon, <1>7 DEF ThreadInv
    <3>2. s < ringCount
      BY Zenon, <1>1, <1>7, <2>2, <3>1, StaysBelow
    <3> QED
      BY Zenon, <1>1, <3>2 DEF Published
  <2> QED
    BY <2>1, <2>2
<1>24. ASSUME NEW q \in Producers \ {p}, NEW x \in Slots, Owns(q, x)
       PROVE  ring'[x] = ring[x] /\ log'[x] = log[x]
  BY Zenon, <1>7, <1>16, <1>17, <1>24 DEF ProducerInv
<1>25. ASSUME NEW q \in Producers \ {p}, Registrar(q) PROVE ~Registrar(p)'
  BY Zenon, <1>15, <1>25 DEF Registrar, ProducerInv
<1>26. ProducerInv'
  <2>1. \A x \in Slots : Published(x)' \/ (log'[x] = log[x] /\ (prod[p].pc = "publish" /\ prod[p].slot = x => x < ringCount'))
    BY Zenon, <1>1, <1>17, <1>23
  <2>2. ringCount <= ringCount'
    BY Zenon, <1>1, NextNumber
  <2>3. \A q \in Producers \ {p} : Registrar(q) => registry' = registry /\ ringCount' = ringCount /\ ~Registrar(p)'
    BY Zenon, <1>1, <1>25
  <2>4. \A q \in Producers \ {p} : \A x \in Slots : Owns(q, x) => ring'[x] = ring[x] /\ log'[x] = log[x] /\ ~Owns(p, x)'
    BY Zenon, <1>21, <1>24
  <2> QED
    BY Zenon, <1>14, <1>18, <1>19, <1>21, <1>22, <2>1, <2>2, <2>3, <2>4, LocalStep
<1>27. Grows
  <2>1. ASSUME NEW x \in Slots PROVE ring[x].gen <= ring'[x].gen /\ (Even(ring[x].gen) => ring'[x] = ring[x])
    <3>1. ring[x].gen \in Nat
      BY <1>1, Zenon DEF RingRecord
    <3>2. CASE x = s
      <4>1. ring[s].gen = 2 * Len(list) + 1 /\ ring'[s].gen = 2 * (Len(list) + 1)
        BY Zenon, <1>6, <1>8, <1>9, <1>10, <1>16
      <4>2. ring[s].gen <= ring'[s].gen
        BY Zenon, <1>6, <4>1, TwiceIsEven
      <4> QED
        BY Zenon, <1>8, <3>2, <4>2
    <3>3. CASE x # s
      BY Zenon, <1>16, <3>1, <3>3, NextNumber
    <3> QED
      BY Zenon, <3>2, <3>3
  <2> QED
    BY Zenon, <1>1, <2>1, NextNumber DEF Grows
<1>28. Pending' \subseteq Pending /\ Registering' \subseteq Registering /\ p \notin Pending'
  BY Zenon, <1>14, <1>15 DEF Pending, Registering, InRing, Filling
<1>29. /\ Cardinality(Pending') \in Nat /\ Cardinality(Pending) \in Nat /\ Cardinality(Pending') + 1 <= Cardinality(Pending)
       /\ Cardinality(Registering') \in Nat /\ Cardinality(Registering) \in Nat
       /\ Cardinality(Registering') <= Cardinality(Registering)
  BY <1>7, <1>28, CallNumbers, FewerCalls, Zenon
<1>30. ASSUME NEW x \in Slots PROVE Len(log'[x]) + Cardinality(Pending') <= started
  <2>1. Len(log[x]) + Cardinality(Pending) <= started /\ Len(log[x]) \in Nat
    BY DEF CountInv, RingTypes
  <2>2. Len(log'[x]) \in Nat /\ Len(log'[x]) <= Len(log[x]) + 1
    <3>1. CASE x = s
      BY SMTT(30), <1>4, <1>6, <1>17, <3>1
    <3>2. CASE x # s
      BY <1>17, <2>1, <3>2
    <3> QED
      BY <3>1, <3>2
  <2> QED
    BY SMTT(30), <1>1, <1>29, <2>1, <2>2
<1>31. registry + (registry % 2) + 2 * Cardinality(Registering') <= 2 * started
  <2>1. registry + (registry % 2) + 2 * Cardinality(Registering) <= 2 * started
    BY DEF CountInv
  <2> QED
    BY SMTT(30), <1>1, <1>29, <2>1
<1>32. CountInv'
  BY Zenon, <1>1, <1>30, <1>31 DEF CountInv
<1> QED
  BY <1>14, <1>18, <1>26, <1>27, <1>32 DEF Keeps

\* Every step of a producer thread.
LEMMA ProducerKeeps ==
  ASSUME RingTypes, ProducerInv, CountInv, NEW p \in Producers, ProducerStep(p)
  PROVE  Keeps
BY AddKeeps, LoadRegistryKeeps, ClaimRegistryKeeps, ReloadKeeps, LoadRingKeeps, ClaimRingKeeps, PayloadKeeps,
   IndexKeeps, CountKeeps, EndRingKeeps, PublishKeeps, EndRegistryKeeps, Zenon DEF ProducerStep

-----------------------------------------------------------------------------
(* The reader.                                                             *)

\* While generations only grow, and a ring changes only at an odd one, what
\* the reader has copied stays what it can vouch for.
LEMMA GrowsKeepsCopies ==
  ASSUME RingTypes, RingTypes', ReaderTypes, CopiesInv, Grows, UNCHANGED readerVars
  PROVE  ReaderTypes' /\ CopiesInv'
<1>1. reader' = reader /\ before' = before /\ after' = after /\ copy' = copy /\ seen' = seen
  BY DEF readerVars
<1>2. ReaderTypes'
  BY <1>1 DEF ReaderTypes
<1>3. before.registry \in Nat /\ registry \in Nat /\ registry' \in Nat /\ ringCount \in Nat /\ ringCount' \in Nat
  BY RingAssumption DEF ReaderTypes, LoadRecord, RingTypes
<1>4. before'.registry <= registry' /\ (RegistryUnmoved' => RegistryUnmoved)
  BY SMTT(30), <1>1, <1>3 DEF CopiesInv, Grows, RegistryUnmoved
<1>5. ASSUME NEW s \in Slots PROVE CopyInv(s)'
  <2>1. before.rings[s] \in Nat /\ ring[s].gen \in Nat /\ ring'[s].gen \in Nat /\ CopyInv(s)
    BY Zenon DEF ReaderTypes, LoadRecord, RingTypes, RingRecord, CopiesInv
  <2>2. before'.rings[s] <= ring'[s].gen /\ (Unmoved(s)' => Unmoved(s) /\ ring'[s] = ring[s])
    <3>1. /\ ring[s].gen <= ring'[s].gen
          /\ Even(ring[s].gen) /\ ring'[s].gen = ring[s].gen => ring'[s] = ring[s]
      BY Zenon DEF Grows
    <3>2. before.rings[s] <= ring[s].gen
      BY Zenon, <2>1 DEF CopyInv
    <3>3. before.rings[s] <= ring'[s].gen /\ (ring'[s].gen = before.rings[s] => ring[s].gen = before.rings[s])
      BY Zenon, <2>1, <3>1, <3>2, Between
    <3> QED
      BY Zenon, <1>1, <3>1, <3>3 DEF Unmoved
  <2>3. ASSUME NEW step PROVE Taken(step)' <=> Taken(step)
    BY <1>1 DEF Taken
  <2> QED
    BY Zenon, <1>1, <2>1, <2>2, <2>3 DEF CopyInv
<1>6. ASSUME NEW s \in Slots PROVE SeenInv(s)'
  <2>1. SeenInv(s)
    BY Zenon DEF CopiesInv
  <2>2. s < ringCount => s < ringCount'
    BY Zenon, <1>3, SlotsAreNumbers, StaysBelow DEF Grows
  <2> QED
    BY Zenon, <1>1, <1>4, <2>1, <2>2 DEF SeenInv
<1> QED
  BY <1>2, <1>4, <1>5, <1>6 DEF CopiesInv

\* The producer's part does not depend on the reader.
LEMMA ProducerFrame ==
  ASSUME RingTypes, ProducerInv, CountInv, UNCHANGED <<registry, ringCount, ring, prod, started, log>>
  PROVE  RingTypes' /\ ProducerInv' /\ CountInv'
<1>1. RingTypes'
  BY DEF RingTypes
<1>2. ASSUME NEW p \in Producers
      PROVE  /\ ThreadInv(p)' /\ (Registrar(p)' <=> Registrar(p))
             /\ \A s \in Slots : OwnerInv(p, s)' /\ (Owns(p, s)' <=> Owns(p, s))
  BY ZenonT(30) DEF ProducerInv, ThreadInv, Registrar, OwnerInv, Owns, Progress
<1>3. ASSUME NEW s \in Slots PROVE RingInv(s)' /\ Published(s)'
  BY Zenon DEF ProducerInv, RingInv, Published
<1>4. ProducerInv'
  BY <1>2, <1>3 DEF ProducerInv
<1>5. Pending' = Pending /\ Registering' = Registering
  BY DEF Pending, Registering
<1>6. CountInv'
  BY <1>5, CountStep
<1> QED
  BY <1>1, <1>4, <1>6

\* A position of ReaderSteps, by its kind.
LEMMA StepAt ==
  ASSUME NEW i \in 1 .. 4 * Rings + 4
  PROVE  \/ \E s \in Slots : ReaderSteps[i] = <<"before", "ring", s>> /\ i <= Rings + 2
         \/ ReaderSteps[i] = <<"before", "registry", 0>> /\ i <= Rings + 2
         \/ ReaderSteps[i] = <<"before", "count", 0>> /\ i <= Rings + 2
         \/ \E s \in Slots : /\ ReaderSteps[i] \in {<<"copy", "buf", s>>, <<"copy", "counters", s>>}
                             /\ Rings + 2 < i /\ i <= 3 * Rings + 2
         \/ \E s \in Slots : ReaderSteps[i] = <<"after", "ring", s>> /\ 3 * Rings + 2 < i /\ i <= 4 * Rings + 2
         \/ ReaderSteps[i] = <<"after", "registry", 0>> /\ i = 4 * Rings + 3
         \/ ReaderSteps[i] = <<"after", "count", 0>> /\ i = 4 * Rings + 4
<1>1. Rings \in Nat \ {0} /\ i \in Nat
  BY RingAssumption
<1>2. CASE i <= Rings
  <2>1. i \in 1 .. Rings /\ i - 1 \in Slots /\ i <= Rings + 2
    BY <1>1, <1>2 DEF Slots
  <2> QED
    BY Zenon, <2>1, ReaderOrder
<1>3. CASE i = Rings + 1 \/ i = Rings + 2
  <2>1. i <= Rings + 2
    BY <1>1, <1>3
  <2> QED
    BY Zenon, <1>3, <2>1, ReaderOrder
<1>4. CASE Rings + 2 < i /\ i <= 3 * Rings + 2
  <2>1. PICK j \in 1 .. 2 * Rings : i = Rings + 2 + j
    <3>1. i - (Rings + 2) \in 1 .. 2 * Rings /\ i = Rings + 2 + (i - (Rings + 2))
      BY <1>1, <1>4
    <3> QED
      BY <3>1
  <2>2. ReaderSteps[i] = CopySteps[j]
    BY Zenon, <2>1, ReaderOrder
  <2> QED
    BY Zenon, <1>4, <2>2, CopyStepsAt
<1>5. CASE 3 * Rings + 2 < i /\ i <= 4 * Rings + 2
  <2>1. PICK j \in 1 .. Rings : i = 3 * Rings + 2 + j
    <3>1. i - (3 * Rings + 2) \in 1 .. Rings /\ i = 3 * Rings + 2 + (i - (3 * Rings + 2))
      BY <1>1, <1>5
    <3> QED
      BY <3>1
  <2>2. ReaderSteps[i] = <<"after", "ring", j - 1>> /\ j - 1 \in Slots
    <3>1. ReaderSteps[i] = <<"after", "ring", j - 1>>
      BY Zenon, <2>1, ReaderOrder
    <3>2. j - 1 \in Slots
      BY <1>1 DEF Slots
    <3> QED
      BY Zenon, <3>1, <3>2
  <2> QED
    BY <1>5, <2>2
<1>6. CASE i = 4 * Rings + 3 \/ i = 4 * Rings + 4
  BY Zenon, <1>1, <1>6, ReaderOrder
<1>7. \/ i <= Rings \/ i = Rings + 1 \/ i = Rings + 2
      \/ Rings + 2 < i /\ i <= 3 * Rings + 2
      \/ 3 * Rings + 2 < i /\ i <= 4 * Rings + 2
      \/ i = 4 * Rings + 3 \/ i = 4 * Rings + 4
  BY <1>1
<1> QED
  BY Zenon, <1>2, <1>3, <1>4, <1>5, <1>6, <1>7

\* Every range is copied before the second loads, and every ring loaded again.
LEMMA StepsCover ==
  ASSUME NEW s \in Slots
  PROVE  /\ \E i \in 1 .. 3 * Rings + 2 : ReaderSteps[i] = <<"copy", "buf", s>>
         /\ \E i \in 1 .. 3 * Rings + 2 : ReaderSteps[i] = <<"copy", "counters", s>>
         /\ \E i \in 1 .. 4 * Rings + 2 : ReaderSteps[i] = <<"after", "ring", s>>
<1>1. Rings \in Nat \ {0} /\ s \in 0 .. Rings - 1
  BY RingAssumption DEF Slots
<1>2. 2 * s + 1 \in 1 .. 2 * Rings /\ 2 * s + 2 \in 1 .. 2 * Rings /\ s + 1 \in 1 .. Rings
  BY <1>1
<1>3. /\ ReaderSteps[Rings + 2 + (2 * s + 1)] = <<"copy", "buf", s>>
      /\ ReaderSteps[Rings + 2 + (2 * s + 2)] = <<"copy", "counters", s>>
      /\ ReaderSteps[3 * Rings + 2 + (s + 1)] = <<"after", "ring", (s + 1) - 1>>
  BY Zenon, <1>2, ReaderOrder, CopyStepsAt
<1>4. /\ Rings + 2 + (2 * s + 1) \in 1 .. 3 * Rings + 2
      /\ Rings + 2 + (2 * s + 2) \in 1 .. 3 * Rings + 2
      /\ 3 * Rings + 2 + (s + 1) \in 1 .. 4 * Rings + 2
      /\ (s + 1) - 1 = s
  BY <1>1
<1> QED
  BY <1>3, <1>4

\* The phase of a position.
LEMMA PhaseAt ==
  ASSUME NEW i \in 1 .. 4 * Rings + 4
  PROVE  /\ i <= Rings + 2 => ReaderSteps[i][1] = "before"
         /\ Rings + 2 < i /\ i <= 3 * Rings + 2 => ReaderSteps[i][1] = "copy"
         /\ 3 * Rings + 2 < i => ReaderSteps[i][1] = "after"
BY StepAt, RingAssumption

\* What a step of the reader takes.
LEMMA TakenNext ==
  ASSUME reader \in 1 .. 4 * Rings + 4, reader' = reader + 1, NEW step
  PROVE  Taken(step)' <=> Taken(step) \/ ReaderSteps[reader] = step
<1>1. Rings \in Nat /\ reader \in Nat
  BY RingAssumption
<1>2. 1 .. reader' - 1 = (1 .. reader - 1) \cup {reader}
  BY <1>1
<1> QED
  BY <1>2 DEF Taken

\* A slot the reader's step leaves.
LEMMA CopyFrame ==
  ASSUME NEW s \in Slots, CopyInv(s), ring' = ring,
         before'.rings[s] = before.rings[s], after'.rings[s] = after.rings[s],
         copy'[s] = copy[s], seen'[s] = seen[s],
         Taken(<<"copy", "buf", s>>)' <=> Taken(<<"copy", "buf", s>>),
         Taken(<<"copy", "counters", s>>)' <=> Taken(<<"copy", "counters", s>>),
         Taken(<<"after", "ring", s>>)' <=> Taken(<<"after", "ring", s>>)
  PROVE  CopyInv(s)'
BY Zenon DEF CopyInv, Unmoved

\* load_publication_state stores one word.
LEMMA LoadFields ==
  ASSUME RingTypes, NEW state \in LoadRecord, NEW s \in Slots
  PROVE  /\ Load(state, "ring", s) \in LoadRecord
         /\ Load(state, "ring", s).rings[s] = ring[s].gen
         /\ \A x \in Slots \ {s} : Load(state, "ring", s).rings[x] = state.rings[x]
         /\ Load(state, "ring", s).registry = state.registry /\ Load(state, "ring", s).count = state.count
         /\ Load(state, "registry", s) \in LoadRecord
         /\ Load(state, "registry", s).rings = state.rings
         /\ Load(state, "registry", s).registry = registry /\ Load(state, "registry", s).count = state.count
         /\ Load(state, "count", s) \in LoadRecord
         /\ Load(state, "count", s).rings = state.rings
         /\ Load(state, "count", s).registry = state.registry /\ Load(state, "count", s).count = ringCount
<1>1. ring[s].gen \in Nat /\ registry \in Nat /\ ringCount \in Nat
  BY RingAssumption DEF RingTypes, RingRecord
<1>2. state.rings \in [Slots -> Nat]
  BY DEF LoadRecord
<1>3. Load(state, "ring", s) = [state EXCEPT !.rings = [state.rings EXCEPT ![s] = ring[s].gen]]
  BY DEF Load
<1>4. PICK f \in [Slots -> Nat] : f = [state.rings EXCEPT ![s] = ring[s].gen]
  BY Zenon, <1>1, <1>2
<1>5. f[s] = ring[s].gen /\ \A x \in Slots \ {s} : f[x] = state.rings[x]
  BY <1>2, <1>4
<1>6. /\ Load(state, "ring", s) \in LoadRecord /\ Load(state, "ring", s).rings = f
      /\ Load(state, "ring", s).registry = state.registry /\ Load(state, "ring", s).count = state.count
  BY <1>3, <1>4 DEF LoadRecord
<1>7. Load(state, "registry", s) = [state EXCEPT !.registry = registry]
  BY DEF Load
<1>8. /\ Load(state, "registry", s) \in LoadRecord /\ Load(state, "registry", s).rings = state.rings
      /\ Load(state, "registry", s).registry = registry /\ Load(state, "registry", s).count = state.count
  BY <1>1, <1>7 DEF LoadRecord
<1>9. Load(state, "count", s) = [state EXCEPT !.count = ringCount]
  BY DEF Load
<1>10. /\ Load(state, "count", s) \in LoadRecord /\ Load(state, "count", s).rings = state.rings
       /\ Load(state, "count", s).registry = state.registry /\ Load(state, "count", s).count = ringCount
  BY <1>1, <1>9 DEF LoadRecord
<1> QED
  BY Zenon, <1>5, <1>6, <1>8, <1>10

\* What every step of the reader has in common.
SnapStep ==
    /\ RingTypes /\ ReaderTypes /\ ProducerInv /\ CopiesInv
    /\ reader \in 1 .. 4 * Rings + 4 /\ reader' = reader + 1
    /\ UNCHANGED <<registry, ringCount, ring, prod, started, log>>

\* The first loads: nothing is copied yet.
LEMMA BeforeKeeps ==
  ASSUME SnapStep, reader <= Rings + 2, NEW what \in {"ring", "registry", "count"}, NEW s \in Slots,
         before' = Load(before, what, s), UNCHANGED <<copy, after, seen>>
  PROVE  ReaderTypes' /\ CopiesInv'
<1>1. Rings \in Nat \ {0} /\ reader \in Nat /\ registry \in Nat /\ before \in LoadRecord /\ before.registry <= registry
      /\ reader' = reader + 1 /\ ring' = ring /\ registry' = registry
  BY SMTT(30), RingAssumption DEF SnapStep, RingTypes, ReaderTypes, CopiesInv
<1>2. /\ before' \in LoadRecord /\ before'.registry \in {registry, before.registry}
      /\ \A x \in Slots : before'.rings[x] \in {ring[x].gen, before.rings[x]}
  <2>1. RingTypes
    BY DEF SnapStep
  <2>2. CASE what = "ring"
    <3>1. /\ before' \in LoadRecord /\ before'.registry = before.registry /\ before'.rings[s] = ring[s].gen
          /\ \A x \in Slots \ {s} : before'.rings[x] = before.rings[x]
      BY Zenon, <1>1, <2>1, <2>2, LoadFields
    <3> QED
      BY Zenon, <3>1
  <2>3. CASE what = "registry"
    BY Zenon, <1>1, <2>1, <2>3, LoadFields
  <2>4. CASE what = "count"
    BY Zenon, <1>1, <2>1, <2>4, LoadFields
  <2> QED
    BY Zenon, <2>2, <2>3, <2>4
<1>3. ReaderTypes'
  <2>1. reader' \in 1 .. 4 * Rings + 5
    BY <1>1, RingAssumption DEF SnapStep
  <2> QED
    BY Zenon, <1>1, <1>2, <2>1 DEF SnapStep, ReaderTypes
<1>4. ASSUME NEW step, step[1] # "before" PROVE ~Taken(step)'
  <2>1. ASSUME NEW j \in 1 .. reader PROVE ReaderSteps[j] # step
    BY SMTT(30), <1>1, <1>4, PhaseAt
  <2> QED
    BY <1>1, <2>1 DEF Taken
<1>5. ASSUME NEW x \in Slots PROVE CopyInv(x)'
  <2>1. ~Taken(<<"copy", "buf", x>>)' /\ ~Taken(<<"copy", "counters", x>>)' /\ ~Taken(<<"after", "ring", x>>)'
    BY <1>4
  <2>2. before.rings[x] <= ring[x].gen /\ ring[x].gen \in Nat
    BY Zenon DEF SnapStep, CopiesInv, CopyInv, RingTypes, RingRecord
  <2>3. before'.rings[x] <= ring'[x].gen
    BY SMTT(30), <1>1, <1>2, <2>2
  <2> QED
    BY Zenon, <2>1, <2>3 DEF CopyInv
<1>6. ASSUME NEW x \in Slots PROVE SeenInv(x)'
  <2>1. reader <= 3 * Rings + 3
    BY <1>1
  <2>2. seen[x] = <<>>
    BY Zenon, <2>1 DEF SnapStep, CopiesInv, SeenInv
  <2> QED
    BY Zenon, <2>2 DEF SeenInv
<1>7. before'.registry <= registry'
  BY <1>1, <1>2
<1> QED
  BY <1>3, <1>5, <1>6, <1>7 DEF CopiesInv

\* One copied range.
LEMMA RangeKeeps ==
  ASSUME SnapStep, Rings + 2 < reader, reader <= 3 * Rings + 2, NEW what \in {"buf", "counters"}, NEW s \in Slots,
         ReaderSteps[reader] = <<"copy", what, s>>,
         copy' = CopyRange(what, s), UNCHANGED <<before, after, seen>>
  PROVE  ReaderTypes' /\ CopiesInv'
<1>1. Rings \in Nat \ {0} /\ reader \in 1 .. 4 * Rings + 4 /\ reader' = reader + 1 /\ ring' = ring
      /\ registry' = registry /\ ringCount' = ringCount
  BY Zenon, RingAssumption DEF SnapStep
<1>2. copy \in [Slots -> RingRecord] /\ ring[s] \in RingRecord /\ copy[s] \in RingRecord
  BY Zenon DEF SnapStep, ReaderTypes, RingTypes
<1>3. PICK t \in RingRecord :
        /\ copy' = [copy EXCEPT ![s] = t]
        /\ what = "buf" => t.buf = ring[s].buf /\ t.idx = copy[s].idx /\ t.count = copy[s].count
        /\ what = "counters" => t.buf = copy[s].buf /\ t.idx = ring[s].idx /\ t.count = ring[s].count
  <2>1. CASE what = "buf"
    <3> DEFINE u == [copy[s] EXCEPT !.buf = ring[s].buf]
    <3>1. copy' = [copy EXCEPT ![s] = u]
      BY <2>1 DEF CopyRange
    <3>2. u \in RingRecord /\ u.buf = ring[s].buf /\ u.idx = copy[s].idx /\ u.count = copy[s].count
      BY Zenon, <1>2 DEF RingRecord
    <3> QED
      BY Zenon, <2>1, <3>1, <3>2
  <2>2. CASE what = "counters"
    <3> DEFINE u == [copy[s] EXCEPT !.idx = ring[s].idx, !.count = ring[s].count]
    <3>1. copy' = [copy EXCEPT ![s] = u]
      BY Zenon, <1>2, <2>2 DEF CopyRange
    <3>2. u \in RingRecord /\ u.buf = copy[s].buf /\ u.idx = ring[s].idx /\ u.count = ring[s].count
      BY Zenon, <1>2 DEF RingRecord
    <3> QED
      BY Zenon, <2>2, <3>1, <3>2
  <2> QED
    BY Zenon, <2>1, <2>2
<1>4. copy' \in [Slots -> RingRecord] /\ copy'[s] = t /\ \A x \in Slots \ {s} : copy'[x] = copy[x]
  BY Zenon, <1>2, <1>3
<1>5. ReaderTypes'
  <2>1. reader' \in 1 .. 4 * Rings + 5
    BY <1>1, RingAssumption DEF SnapStep
  <2> QED
    BY Zenon, <1>1, <1>4, <2>1 DEF SnapStep, ReaderTypes
<1>6. ASSUME NEW step PROVE Taken(step)' <=> Taken(step) \/ step = <<"copy", what, s>>
  BY Zenon, <1>1, TakenNext
<1>7. ~Taken(<<"after", "ring", s>>)'
  <2>1. ASSUME NEW j \in 1 .. reader PROVE ReaderSteps[j] # <<"after", "ring", s>>
    <3>1. j \in 1 .. 4 * Rings + 4 /\ j <= 3 * Rings + 2
      BY <1>1
    <3>2. ReaderSteps[j][1] \in {"before", "copy"}
      BY SMTT(30), <1>1, <3>1, PhaseAt
    <3> QED
      BY SMTT(30), <3>2
  <2> QED
    BY SMTT(30), <1>1, <2>1 DEF Taken
<1>8. CopyInv(s)'
  <2>1. CopyInv(s) /\ (Unmoved(s)' <=> Unmoved(s))
    BY Zenon, <1>1 DEF SnapStep, CopiesInv, Unmoved
  <2>2. CASE what = "buf"
    <3>1. Taken(<<"copy", "counters", s>>)' <=> Taken(<<"copy", "counters", s>>)
      BY <1>6, <2>2
    <3> QED
      BY Zenon, <1>1, <1>3, <1>4, <1>7, <2>1, <2>2, <3>1 DEF CopyInv
  <2>3. CASE what = "counters"
    <3>1. Taken(<<"copy", "buf", s>>)' <=> Taken(<<"copy", "buf", s>>)
      BY Zenon, <1>6, <2>3
    <3> QED
      BY Zenon, <1>1, <1>3, <1>4, <1>7, <2>1, <2>3, <3>1 DEF CopyInv
  <2> QED
    BY <2>2, <2>3
<1>9. ASSUME NEW x \in Slots, x # s PROVE CopyInv(x)'
  <2>1. CopyInv(x)
    BY Zenon DEF SnapStep, CopiesInv
  <2>2. /\ Taken(<<"copy", "buf", x>>)' <=> Taken(<<"copy", "buf", x>>)
        /\ Taken(<<"copy", "counters", x>>)' <=> Taken(<<"copy", "counters", x>>)
        /\ Taken(<<"after", "ring", x>>)' <=> Taken(<<"after", "ring", x>>)
    BY Zenon, <1>6, <1>9
  <2> QED
    BY Zenon, <1>1, <1>4, <1>9, <2>1, <2>2, CopyFrame
<1>10. ASSUME NEW x \in Slots PROVE SeenInv(x)'
  <2>1. seen[x] = <<>> /\ seen' = seen
    <3>1. reader <= 3 * Rings + 3
      BY <1>1
    <3>2. SeenInv(x) /\ seen' = seen
      BY Zenon DEF SnapStep, CopiesInv
    <3> QED
      BY Zenon, <3>1, <3>2 DEF SeenInv
  <2> QED
    BY Zenon, <2>1 DEF SeenInv
<1>11. before'.registry <= registry'
  BY Zenon, <1>1 DEF SnapStep, CopiesInv
<1> QED
  BY Zenon, <1>5, <1>8, <1>9, <1>10, <1>11 DEF CopiesInv

\* The second load of a ring's generation: the copy of a ring that did not
\* move is the whole ring, and a ring with breadcrumbs is published unless a
\* registrar is at work.
LEMMA AfterRingKeeps ==
  ASSUME SnapStep, 3 * Rings + 2 < reader, reader <= 4 * Rings + 2, NEW s \in Slots,
         ReaderSteps[reader] = <<"after", "ring", s>>,
         after' = Load(after, "ring", s), seen' = [seen EXCEPT ![s] = log[s]], UNCHANGED <<before, copy>>
  PROVE  ReaderTypes' /\ CopiesInv'
<1>1. Rings \in Nat \ {0} /\ reader \in 1 .. 4 * Rings + 4 /\ reader' = reader + 1 /\ ring' = ring
      /\ registry' = registry /\ ringCount' = ringCount /\ RingTypes /\ ReaderTypes /\ CopiesInv /\ ProducerInv
  BY Zenon, RingAssumption DEF SnapStep
<1>2. /\ after' \in LoadRecord /\ after'.rings[s] = ring[s].gen
      /\ \A x \in Slots \ {s} : after'.rings[x] = after.rings[x]
      /\ after'.registry = after.registry /\ after'.count = after.count
  BY ZenonT(30), <1>1, LoadFields DEF ReaderTypes
<1>3. seen' \in [Slots -> Seq(Nat)] /\ seen'[s] = log[s] /\ \A x \in Slots \ {s} : seen'[x] = seen[x]
  BY Zenon, <1>1 DEF ReaderTypes, RingTypes
<1>4. ReaderTypes'
  <2>1. reader' \in 1 .. 4 * Rings + 5
    BY Zenon, <1>1, SlotsAreNumbers
  <2> QED
    BY Zenon, <1>1, <1>2, <1>3, <2>1 DEF ReaderTypes
<1>5. ASSUME NEW step PROVE Taken(step)' <=> Taken(step) \/ step = <<"after", "ring", s>>
  BY Zenon, <1>1, TakenNext
<1>6. Taken(<<"copy", "buf", s>>) /\ Taken(<<"copy", "counters", s>>)
  <2>1. \A j \in 1 .. 3 * Rings + 2 : j \in 1 .. reader - 1
    BY SMTT(30), <1>1
  <2> QED
    BY Zenon, <2>1, StepsCover DEF Taken
<1>7. CopyInv(s)'
  <2>1. CopyInv(s) /\ (Unmoved(s)' <=> Unmoved(s))
    BY Zenon, <1>1 DEF CopiesInv, Unmoved
  <2>2. ASSUME Stable(before.rings[s], ring[s].gen) PROVE Holds(copy[s], log[s])
    <3>1. Unmoved(s) /\ Even(ring[s].gen)
      BY Zenon, <2>2 DEF Stable, Unmoved
    <3>2. copy[s].buf = ring[s].buf /\ copy[s].idx = ring[s].idx /\ copy[s].count = ring[s].count
      BY Zenon, <1>6, <2>1, <3>1 DEF CopyInv
    <3>3. Holds(ring[s], log[s])
      BY Zenon, <1>1, <3>1 DEF ProducerInv, RingInv
    <3> QED
      BY Zenon, <3>2, <3>3, HoldsContents
  <2> QED
    BY Zenon, <1>1, <1>2, <1>3, <1>6, <2>1, <2>2 DEF CopyInv
<1>8. ASSUME NEW x \in Slots, x # s PROVE CopyInv(x)'
  <2>1. CopyInv(x)
    BY Zenon, <1>1 DEF CopiesInv
  <2>2. /\ Taken(<<"copy", "buf", x>>)' <=> Taken(<<"copy", "buf", x>>)
        /\ Taken(<<"copy", "counters", x>>)' <=> Taken(<<"copy", "counters", x>>)
        /\ Taken(<<"after", "ring", x>>)' <=> Taken(<<"after", "ring", x>>)
    BY Zenon, <1>5, <1>8
  <2> QED
    BY Zenon, <1>1, <1>2, <1>3, <1>8, <2>1, <2>2, CopyFrame
<1>9. ~(reader' > 4 * Rings + 3) /\ ~(reader' > 4 * Rings + 4) /\ ~(reader' <= 3 * Rings + 3)
  BY SMTT(30), <1>1
<1>10. ASSUME RegistryUnmoved, log[s] # <<>> PROVE s < ringCount
  <2>1. Even(registry)
    BY Zenon, <1>10 DEF RegistryUnmoved
  <2>2. \A p \in Producers : prod[p].pc # "publish"
    BY Zenon, <1>1, <2>1 DEF ProducerInv, ThreadInv
  <2> QED
    BY Zenon, <1>1, <1>10, <2>2 DEF ProducerInv, Published
<1>11. ASSUME NEW x \in Slots PROVE SeenInv(x)'
  <2>1. RegistryUnmoved' <=> RegistryUnmoved
    BY Zenon, <1>1 DEF RegistryUnmoved
  <2>2. seen[x] # <<>> => (RegistryUnmoved => x < ringCount)
    BY Zenon, <1>1 DEF CopiesInv, SeenInv
  <2> QED
    BY Zenon, <1>1, <1>3, <1>9, <1>10, <2>1, <2>2 DEF SeenInv
<1>12. before'.registry <= registry'
  BY Zenon, <1>1 DEF CopiesInv
<1> QED
  BY Zenon, <1>4, <1>7, <1>8, <1>11, <1>12 DEF CopiesInv

\* The second loads of the registry and of the ring count.
LEMMA AfterRegistryKeeps ==
  ASSUME SnapStep, NEW what \in {"registry", "count"}, NEW s \in Slots,
         reader = (IF what = "registry" THEN 4 * Rings + 3 ELSE 4 * Rings + 4),
         ReaderSteps[reader] = <<"after", what, 0>>,
         after' = Load(after, what, s), UNCHANGED <<before, copy, seen>>
  PROVE  ReaderTypes' /\ CopiesInv'
<1>1. Rings \in Nat \ {0} /\ reader \in 1 .. 4 * Rings + 4 /\ reader' = reader + 1 /\ ring' = ring
      /\ registry' = registry /\ ringCount' = ringCount /\ RingTypes /\ ReaderTypes /\ CopiesInv /\ ProducerInv
  BY Zenon, RingAssumption DEF SnapStep
<1>2. /\ after' \in LoadRecord /\ after'.rings = after.rings
      /\ what = "registry" => after'.registry = registry
      /\ what = "count" => after'.registry = after.registry /\ after'.count = ringCount
  <2>1. after \in LoadRecord
    BY Zenon, <1>1 DEF ReaderTypes
  <2>2. CASE what = "registry"
    BY Zenon, <1>1, <2>1, <2>2, LoadFields
  <2>3. CASE what = "count"
    BY Zenon, <1>1, <2>1, <2>3, LoadFields
  <2> QED
    BY Zenon, <2>2, <2>3
<1>3. ReaderTypes'
  <2>1. reader' \in 1 .. 4 * Rings + 5
    BY <1>1, RingAssumption DEF SnapStep
  <2> QED
    BY Zenon, <1>1, <1>2, <2>1 DEF ReaderTypes
<1>4. ASSUME NEW x \in Slots PROVE CopyInv(x)'
  <2>1. CopyInv(x)
    BY Zenon, <1>1 DEF CopiesInv
  <2>2. /\ Taken(<<"copy", "buf", x>>)' <=> Taken(<<"copy", "buf", x>>)
        /\ Taken(<<"copy", "counters", x>>)' <=> Taken(<<"copy", "counters", x>>)
        /\ Taken(<<"after", "ring", x>>)' <=> Taken(<<"after", "ring", x>>)
    <3>1. ASSUME NEW step PROVE Taken(step)' <=> Taken(step) \/ step = <<"after", what, 0>>
      BY Zenon, <1>1, TakenNext
    <3>2. \A y : <<"after", what, 0>> \notin {<<"copy", "buf", y>>, <<"copy", "counters", y>>, <<"after", "ring", y>>}
      OBVIOUS
    <3> QED
      BY Zenon, <3>1, <3>2
  <2> QED
    BY Zenon, <1>1, <1>2, <2>1, <2>2, CopyFrame
<1>5. ASSUME NEW x \in Slots PROVE SeenInv(x)'
  <2>1. SeenInv(x) /\ (RegistryUnmoved' <=> RegistryUnmoved)
    BY Zenon, <1>1 DEF CopiesInv, RegistryUnmoved
  <2>2. CASE what = "registry"
    <3>1. ~(reader' > 4 * Rings + 4) /\ ~(reader' <= 3 * Rings + 3)
      BY SMTT(30), <1>1, <2>2
    <3>2. Stable(before.registry, registry) => RegistryUnmoved
      BY Zenon DEF Stable, RegistryUnmoved
    <3> QED
      BY Zenon, <1>1, <1>2, <2>1, <2>2, <3>1, <3>2 DEF SeenInv
  <2>3. CASE what = "count"
    <3>1. reader > 4 * Rings + 3 /\ ~(reader' <= 3 * Rings + 3)
      BY SMTT(30), <1>1, <2>3
    <3> QED
      BY Zenon, <1>1, <1>2, <2>1, <2>3, <3>1 DEF SeenInv
  <2> QED
    BY Zenon, <2>2, <2>3
<1>6. before'.registry <= registry'
  BY Zenon, <1>1 DEF CopiesInv
<1> QED
  BY Zenon, <1>3, <1>4, <1>5, <1>6 DEF CopiesInv

\* A step of the reader, by the entry of ReaderSteps it takes.
LEMMA EntryTaken ==
  ASSUME SnapshotStep, NEW phase, NEW what, NEW s, ReaderSteps[reader] = <<phase, what, s>>
  PROVE  /\ before' = IF phase = "before" THEN Load(before, what, s) ELSE before
         /\ copy' = IF phase = "copy" THEN CopyRange(what, s) ELSE copy
         /\ after' = IF phase = "after" THEN Load(after, what, s) ELSE after
         /\ seen' = IF phase = "after" /\ what = "ring" THEN [seen EXCEPT ![s] = log[s]] ELSE seen
<1>1. ReaderSteps[reader][1] = phase /\ ReaderSteps[reader][2] = what /\ ReaderSteps[reader][3] = s
  OBVIOUS
<1> QED
  BY Zenon, <1>1 DEF SnapshotStep

\* Every step of the reader.
LEMMA SnapshotKeeps ==
  ASSUME RingTypes, ReaderTypes, ProducerInv, CountInv, CopiesInv, SnapshotStep
  PROVE  Inv'
<1>1. Rings \in Nat \ {0} /\ 0 \in Slots /\ UNCHANGED <<registry, ringCount, ring, prod, started, log>>
  <2>1. Rings \in Nat \ {0} /\ 0 \in Slots
    BY RingAssumption DEF Slots
  <2> QED
    BY Zenon, <2>1 DEF SnapshotStep
<1>2. reader \in 1 .. 4 * Rings + 4 /\ reader' = reader + 1
  <2>1. ~(reader > 4 * Rings + 4) /\ reader' = reader + 1 /\ reader \in 1 .. 4 * Rings + 5
    BY Zenon, ReaderOrder DEF SnapshotStep, Done, ReaderTypes
  <2> QED
    BY <1>1, <2>1
<1>3. SnapStep
  BY <1>1, <1>2 DEF SnapStep
<1>4. RingTypes' /\ ProducerInv' /\ CountInv'
  BY <1>1, ProducerFrame
<1>5. ReaderTypes' /\ CopiesInv'
  <2>1. ASSUME NEW what \in {"ring", "registry", "count"}, NEW s \in Slots,
               ReaderSteps[reader] = <<"before", what, s>>, reader <= Rings + 2
        PROVE  ReaderTypes' /\ CopiesInv'
    <3>1. before' = Load(before, what, s) /\ UNCHANGED <<copy, after, seen>>
      BY Zenon, <2>1, EntryTaken
    <3> QED
      BY Zenon, <1>3, <2>1, <3>1, BeforeKeeps
  <2>2. ASSUME NEW what \in {"buf", "counters"}, NEW s \in Slots, ReaderSteps[reader] = <<"copy", what, s>>,
               Rings + 2 < reader, reader <= 3 * Rings + 2
        PROVE  ReaderTypes' /\ CopiesInv'
    <3>1. copy' = CopyRange(what, s) /\ UNCHANGED <<before, after, seen>>
      BY Zenon, <2>2, EntryTaken
    <3> QED
      BY Zenon, <1>3, <2>2, <3>1, RangeKeeps
  <2>3. ASSUME NEW s \in Slots, ReaderSteps[reader] = <<"after", "ring", s>>,
               3 * Rings + 2 < reader, reader <= 4 * Rings + 2
        PROVE  ReaderTypes' /\ CopiesInv'
    <3>1. after' = Load(after, "ring", s) /\ seen' = [seen EXCEPT ![s] = log[s]] /\ UNCHANGED <<before, copy>>
      BY Zenon, <2>3, EntryTaken
    <3> QED
      BY Zenon, <1>3, <2>3, <3>1, AfterRingKeeps
  <2>4. ASSUME NEW what \in {"registry", "count"}, ReaderSteps[reader] = <<"after", what, 0>>,
               reader = (IF what = "registry" THEN 4 * Rings + 3 ELSE 4 * Rings + 4)
        PROVE  ReaderTypes' /\ CopiesInv'
    <3>1. after' = Load(after, what, 0) /\ UNCHANGED <<before, copy, seen>>
      BY Zenon, <2>4, EntryTaken
    <3> QED
      BY Zenon, <1>1, <1>3, <2>4, <3>1, AfterRegistryKeeps
  <2>5. CASE \E s \in Slots : ReaderSteps[reader] = <<"before", "ring", s>> /\ reader <= Rings + 2
    BY <2>1, <2>5
  <2>6. CASE \E s \in Slots : /\ ReaderSteps[reader] \in {<<"copy", "buf", s>>, <<"copy", "counters", s>>}
                              /\ Rings + 2 < reader /\ reader <= 3 * Rings + 2
    BY <2>2, <2>6
  <2>7. CASE \E s \in Slots : ReaderSteps[reader] = <<"after", "ring", s>> /\ 3 * Rings + 2 < reader /\ reader <= 4 * Rings + 2
    BY <2>3, <2>7
  <2>8. CASE ReaderSteps[reader] = <<"before", "registry", 0>> /\ reader <= Rings + 2
    BY <1>1, <2>1, <2>8
  <2>9. CASE ReaderSteps[reader] = <<"before", "count", 0>> /\ reader <= Rings + 2
    BY <1>1, <2>1, <2>9
  <2>10. CASE ReaderSteps[reader] = <<"after", "registry", 0>> /\ reader = 4 * Rings + 3
    BY <2>4, <2>10
  <2>11. CASE ReaderSteps[reader] = <<"after", "count", 0>> /\ reader = 4 * Rings + 4
    BY <2>4, <2>11
  <2> QED
    BY <1>2, <2>5, <2>6, <2>7, <2>8, <2>9, <2>10, <2>11, StepAt, Zenon
<1> QED
  BY <1>4, <1>5 DEF Inv

\* The producer's and the reader's steps keep the invariant.
LEMMA StepInv ==
  ASSUME Inv, [Next]_vars
  PROVE  Inv'
<1>1. RingTypes /\ ReaderTypes /\ ProducerInv /\ CountInv /\ CopiesInv
  BY DEF Inv
<1>2. ASSUME NEW p \in Producers, ProducerStep(p) PROVE Inv'
  <2>1. Keeps
    BY <1>1, <1>2, ProducerKeeps, Zenon
  <2>2. ReaderTypes' /\ CopiesInv'
    BY <1>1, <2>1, GrowsKeepsCopies, Zenon DEF Keeps
  <2> QED
    BY <2>1, <2>2 DEF Inv, Keeps
<1>3. CASE SnapshotStep
  BY <1>1, <1>3, SnapshotKeeps
<1>4. CASE UNCHANGED vars
  <2>1. UNCHANGED <<registry, ringCount, ring, prod, started, log>> /\ UNCHANGED readerVars
    BY <1>4 DEF vars, readerVars
  <2>2. RingTypes' /\ ProducerInv' /\ CountInv'
    BY <1>1, <2>1, ProducerFrame
  <2>3. Grows
    BY SMTT(30), <1>1, <2>1, RingAssumption DEF Grows, RingTypes, RingRecord
  <2>4. ReaderTypes' /\ CopiesInv'
    BY <1>1, <2>1, <2>2, <2>3, GrowsKeepsCopies
  <2> QED
    BY <2>2, <2>4 DEF Inv
<1> QED
  BY <1>2, <1>3, <1>4 DEF Next

-----------------------------------------------------------------------------
(* Counting the threads, and the theorems.                                 *)

Sets == INSTANCE FiniteSetTheorems

\* The finite sets of those theorems are those of this module.
LEMMA SameSets ==
  ASSUME NEW S
  PROVE  /\ Sets!Cardinality(S) = Cardinality(S)
         /\ Sets!IsFiniteSet(S) <=> IsFiniteSet(S)
<1>1. Sets!Cardinality(S) = Cardinality(S)
  BY DEF Sets!Cardinality, Cardinality
<1>2. Sets!IsFiniteSet(S) <=> IsFiniteSet(S)
  BY DEF Sets!IsFiniteSet, IsFiniteSet
<1> QED
  BY <1>1, <1>2

\* The threads of the producer are finitely many, so their calls can be counted.
LEMMA CallsCanBeCounted == Counting
<1>1. ASSUME NEW S \in SUBSET Producers PROVE IsFiniteSet(S) /\ Cardinality(S) \in Nat
  BY RingAssumption, SameSets, Sets!FS_Subset, Sets!FS_CardinalityType
<1>2. ASSUME NEW S \in SUBSET Producers, NEW T \in SUBSET Producers, T \subseteq S
      PROVE  Cardinality(T) <= Cardinality(S)
  BY <1>1, <1>2, SameSets, Sets!FS_Subset
<1>3. ASSUME NEW S \in SUBSET Producers, NEW T \in SUBSET Producers, T \subseteq S, NEW p \in S \ T
      PROVE  Cardinality(T) + 1 <= Cardinality(S)
  <2>1. T \subseteq S \ {p} /\ S \ {p} \in SUBSET Producers
    BY <1>3
  <2>2. IsFiniteSet(S) /\ Cardinality(S \ {p}) = Cardinality(S) - 1
    BY <1>1, <1>3, SameSets, Sets!FS_RemoveElement
  <2>3. Cardinality(T) <= Cardinality(S \ {p})
    BY <1>2, <2>1
  <2>4. Cardinality(T) \in Nat /\ Cardinality(S) \in Nat
    BY <1>1
  <2> QED
    BY <2>2, <2>3, <2>4
<1>4. ASSUME NEW S \in SUBSET Producers, NEW T \in SUBSET Producers, NEW p \in Producers, T \subseteq S \cup {p}
      PROVE  Cardinality(T) <= Cardinality(S) + 1
  <2>1. Cardinality(S \cup {p}) = Cardinality(S) \/ Cardinality(S \cup {p}) = Cardinality(S) + 1
    BY <1>1, SameSets, Sets!FS_AddElement
  <2>2. S \cup {p} \in SUBSET Producers
    OBVIOUS
  <2>3. Cardinality(T) <= Cardinality(S \cup {p})
    BY <1>2, <1>4, <2>2
  <2>4. Cardinality(T) \in Nat /\ Cardinality(S) \in Nat
    BY <1>1
  <2> QED
    BY <2>1, <2>3, <2>4
<1>5. Cardinality({}) = 0
  BY SameSets, Sets!FS_EmptySet
<1> QED
  BY <1>1, <1>2, <1>3, <1>4, <1>5, Zenon DEF Counting

\* A new region.
LEMMA InitInv == Init => Inv
<1> SUFFICES ASSUME Init PROVE Inv
  OBVIOUS
<1>1. Rings \in Nat \ {0} /\ Capacity \in Nat \ {0} /\ Crumbs \in Nat /\ 0 \in Slots
  BY RingAssumption, CrumbsAssumption DEF Slots
<1>2. EmptyRing \in RingRecord /\ EmptyRing.gen = 0 /\ EmptyRing.count = 0
  BY <1>1 DEF EmptyRing, RingRecord, Empty
<1>3. Idle \in ProducerRecord
  BY <1>1, Zenon DEF Idle, ProducerRecord, ProducerPcs
<1>4. NoState \in LoadRecord /\ NoState.registry = 0 /\ \A s \in Slots : NoState.rings[s] = 0
  BY DEF NoState, LoadRecord
<1>5. RingTypes
  BY <1>1, <1>2, <1>3 DEF Init, RingTypes
<1>6. ReaderTypes
  BY <1>1, <1>2, <1>4 DEF Init, ReaderTypes
<1>7. \A s \in Slots : ring[s] = EmptyRing /\ log[s] = <<>> /\ seen[s] = <<>>
  BY DEF Init
<1>8. \A p \in Producers : prod[p] = Idle
  BY DEF Init
<1>9. ASSUME NEW s \in Slots PROVE RingInv(s) /\ Published(s)
  <2>1. Holds(EmptyRing, <<>>)
    <3>1. Least(0, Capacity) = 0
      BY <1>1 DEF Least
    <3> QED
      BY <1>2, <3>1 DEF Holds, Entries
  <2> QED
    BY <1>2, <1>7, <2>1 DEF RingInv, Published
<1>10. ASSUME NEW p \in Producers PROVE ThreadInv(p) /\ ~Registrar(p) /\ \A s \in Slots : ~Owns(p, s) /\ OwnerInv(p, s)
  <2>1. prod[p].pc = "idle" /\ prod[p].registryOdd = 0 /\ prod[p].known = 0
    BY Zenon, <1>8, IdleFields
  <2>2. ringCount = 0 /\ 0 <= 0
    BY DEF Init
  <2>3. ThreadInv(p) /\ ~Registrar(p)
    BY Zenon, <2>1, <2>2 DEF ThreadInv, Registrar, InRing, Filling
  <2>4. \A s \in Slots : ~Owns(p, s) /\ OwnerInv(p, s)
    BY Zenon, <2>1 DEF Owns, OwnerInv, Filling
  <2> QED
    BY Zenon, <2>3, <2>4
<1>11. ProducerInv
  BY <1>9, <1>10 DEF ProducerInv
<1>12. Pending = {} /\ Registering = {}
  <2>1. \A p \in Producers : prod[p].pc = "idle"
    BY Zenon, <1>8, IdleFields
  <2>2. Pending = {}
    BY Zenon, <2>1 DEF Pending, InRing, Filling
  <2>3. Registering = {}
    BY Zenon, <2>1 DEF Registering
  <2> QED
    BY Zenon, <2>2, <2>3
<1>13. CountInv
  <2>1. Cardinality(Pending) = 0 /\ Cardinality(Registering) = 0
    BY Zenon, <1>12, CallsCanBeCounted DEF Counting
  <2>2. registry = 0 /\ started = 0 /\ \A s \in Slots : Len(log[s]) = 0
    BY <1>7 DEF Init
  <2> QED
    BY <2>1, <2>2, CallsCanBeCounted DEF CountInv
<1>14. ASSUME NEW step PROVE ~Taken(step)
  BY DEF Taken, Init
<1>15. ASSUME NEW s \in Slots PROVE CopyInv(s) /\ SeenInv(s)
  <2>1. before = NoState
    BY Zenon DEF Init
  <2>2. before.rings[s] = 0 /\ ring[s].gen = 0 /\ seen[s] = <<>>
    BY Zenon, <1>2, <1>4, <1>7, <2>1
  <2>3. before.rings[s] <= ring[s].gen
    BY Zenon, <2>2, NextNumber
  <2>4. CopyInv(s)
    BY Zenon, <1>14, <2>3 DEF CopyInv
  <2>5. SeenInv(s)
    BY Zenon, <2>2 DEF SeenInv
  <2> QED
    BY Zenon, <2>4, <2>5
<1>16. CopiesInv
  <2>1. before.registry = 0 /\ registry = 0
    BY Zenon, <1>4 DEF Init
  <2>2. before.registry <= registry
    BY <2>1
  <2> QED
    BY Zenon, <1>15, <2>2 DEF CopiesInv
<1> QED
  BY <1>5, <1>6, <1>11, <1>13, <1>16 DEF Inv

(***************************************************************************)
(* The invariant of the rings: for any number of threads and rings, a      *)
(* claimed ring and the registry have one owner each, generations count    *)
(* the completed updates without wrapping, and a copy made while a         *)
(* generation stood still is the live ring's.                              *)
(***************************************************************************)
THEOREM RingInvariant == Spec => []Inv
<1>1. Inv /\ [Next]_vars => Inv'
  BY StepInv
<1> QED
  BY <1>1, InitInv, PTL DEF Spec

(***************************************************************************)
(* sanitize_breadcrumbs and read_breadcrumbs: what the reader accepts is   *)
(* what the producer published, and an accepted registry reaches every     *)
(* ring that has breadcrumbs.                                              *)
(***************************************************************************)
THEOREM AcceptedRingsArePublished == Spec => []AcceptedIsPublished
<1>1. Inv => AcceptedIsPublished
  <2> SUFFICES ASSUME Inv, Done PROVE AcceptedIsPublished
    BY Zenon DEF AcceptedIsPublished
  <2>1. Rings \in Nat \ {0} /\ reader = 4 * Rings + 5 /\ ReaderTypes /\ CopiesInv
    <3>1. Rings \in Nat \ {0} /\ ReaderTypes /\ CopiesInv /\ reader \in 1 .. 4 * Rings + 5
      BY RingAssumption DEF Inv, ReaderTypes
    <3>2. reader > 4 * Rings + 4
      BY ReaderOrder, Zenon DEF Done
    <3> QED
      BY <3>1, <3>2
  <2>2. ASSUME NEW s \in Slots, Accepted(s) PROVE ReadRing(copy[s]) = Newest(seen[s])
    <3>1. Taken(<<"after", "ring", s>>)
      <4>1. \A i \in 1 .. 4 * Rings + 2 : i \in 1 .. reader - 1
        BY <2>1
      <4> QED
        BY <4>1, StepsCover, Zenon DEF Taken
    <3>2. Holds(copy[s], seen[s])
      BY Zenon, <2>1, <2>2, <3>1 DEF CopiesInv, CopyInv, Accepted
    <3>3. copy[s] \in RingRecord /\ seen[s] \in Seq(Nat)
      BY <2>1 DEF ReaderTypes
    <3> QED
      BY <3>2, <3>3, ReadNewest, Zenon
  <2>3. ASSUME RegistryStable, NEW s \in Slots, seen[s] # <<>> PROVE s < after.count
    <3>1. reader > 4 * Rings + 4
      BY <2>1
    <3> QED
      BY Zenon, <2>1, <2>3, <3>1 DEF CopiesInv, SeenInv, RegistryStable
  <2> QED
    BY <2>2, <2>3, Zenon DEF AcceptedIsPublished
<1> QED
  BY <1>1, RingInvariant, PTL

=============================================================================
