------------------------- MODULE ShmSections_proofs --------------------------
(***************************************************************************)
(* The sections of the shared memory, for any number of threads, slots and *)
(* entries: what the sanitized copy keeps was whole and current.           *)
(***************************************************************************)
EXTENDS ShmSections, TLAPS

-----------------------------------------------------------------------------
(* The sections.                                                           *)

WriterPcs == {"idle", "claim", "head", "body", "release"}
WriterRecord == [pc : WriterPcs, at : Units, value : Nat, stamp : Stamps \cup {NoStamp},
                 observed : Nat, odd : Nat]

\* The thread is between a successful claim and its release of the unit.
Owns(w, u) == writer[w].pc \in {"head", "body", "release"} /\ writer[w].at = u

\* The counted entries of a list are the completed ones.
Entries(u, n) == \A i \in 1 .. n : unit[u].body[i] = complete[u][i]
ListWhole(u) == unit[u].head = Len(complete[u]) /\ Entries(u, unit[u].head)
UnitWhole(u) ==
    IF u \in Shots THEN unit[u].gen # 0 => <<unit[u].head, unit[u].body>> = complete[u]
    ELSE ListWhole(u)

\* A copied or live unit: a screenshot slot or a list.
SlotRecord == [gen : Nat, head : Stamps \cup {NoStamp}, body : Nat]
ListRecord == [gen : Nat, head : 0 .. ListMax, body : [1 .. ListMax -> Nat]]
UnitsTyped(f) ==
    /\ f = [u \in Units |-> f[u]]
    /\ \A u \in Shots : f[u] \in SlotRecord
    /\ \A u \in Lists : f[u] \in ListRecord

SectionTypes ==
    /\ UnitsTyped(unit) /\ UnitsTyped(owned)
    /\ writer \in [Writers -> WriterRecord]
    /\ issued \in 0 .. Updates
    /\ opening \in [Units -> Nat] /\ closing \in [Units -> Nat]
    /\ complete = [u \in Units |-> complete[u]] /\ witnessed = [u \in Units |-> witnessed[u]]
    /\ \A u \in Lists : complete[u] \in Seq(Nat) /\ witnessed[u] \in Seq(Nat)

\* Where the owner of a list has got to.
ListProgress(w) ==
    LET u == writer[w].at
        n == Len(complete[u])
        counted == unit[u].head = n + 1 /\ Entries(u, n) IN
    /\ writer[w].pc = "head" => writer[w].value # 0 /\ ListWhole(u)
    /\ writer[w].pc = "body" => writer[w].value # 0 /\ counted
    /\ writer[w].pc = "release" =>
          IF writer[w].value = 0 THEN ListWhole(u)
          ELSE counted /\ unit[u].body[n + 1] = writer[w].value

\* Where the owner of a screenshot slot has got to.
ShotProgress(w) ==
    LET u == writer[w].at IN
    /\ writer[w].pc \in {"head", "release"} => unit[u].body = writer[w].value
    /\ writer[w].pc = "release" => unit[u].head = writer[w].stamp

\* A thread that loaded an even generation has not yet been counted in it.
ClaimBound(w) ==
    writer[w].pc = "claim" =>
        /\ writer[w].value \in 1 .. issued
        /\ writer[w].observed <= 2 * (writer[w].value - 1)
        /\ Even(writer[w].observed)

OwnerInv(w, u) ==
    Owns(w, u) =>
        /\ unit[u].gen = writer[w].odd
        /\ ~Even(unit[u].gen)
        /\ IF u \in Shots THEN ShotProgress(w) ELSE ListProgress(w)

\* A unit nobody writes is whole, and its generation counts its updates.
Quiet(u) == unit[u].gen <= 2 * issued /\ (Even(unit[u].gen) => UnitWhole(u))

WriterInv ==
    /\ \A w \in Writers : ClaimBound(w) /\ \A u \in Units : OwnerInv(w, u)
    /\ \A w, v \in Writers : \A u \in Units : Owns(w, u) /\ Owns(v, u) => w = v
    /\ \A u \in Units : Quiet(u)

\* The last opening load and the last copied range.
LastOpening == Len(ShotSeq) + 3
LastCopy == 3 * Len(ShotSeq) + 9

Taken(phase, u) == \E j \in 1 .. look - 1 : SectionSteps[j] = <<phase, u>>

\* The generation has not moved since the opening load.
Unmoved(u) == Even(opening[u]) /\ unit[u].gen = opening[u]

\* The copy of u is the value completed when the closing load was made.
CopyWhole(u) ==
    IF u \in Shots THEN opening[u] # 0 => <<owned[u].head, owned[u].body>> = witnessed[u]
    ELSE /\ owned[u].head = Len(witnessed[u])
         /\ \A i \in 1 .. owned[u].head : owned[u].body[i] = witnessed[u][i]

ReaderUnit(u) ==
    /\ opening[u] <= unit[u].gen
    /\ Allowed(u) =>
          /\ Taken("head", u) /\ Unmoved(u) => owned[u].head = unit[u].head
          /\ Taken("body", u) /\ Unmoved(u) => owned[u].body = unit[u].body
          /\ Taken("closing", u) /\ Stable(opening[u], closing[u]) => CopyWhole(u)

ReaderInv ==
    /\ look \in 1 .. Len(SectionSteps) + 1
    /\ \A u \in Units : ReaderUnit(u)

SectionInv ==
    /\ SectionTypes
    /\ WriterInv
    /\ outcome = "none" => ReaderInv
    /\ SectionsAreWholeOrEmpty

-----------------------------------------------------------------------------
(* Lemmas about the operators.                                             *)

\* A generation below the modulus minus one is followed by the next number.
LEMMA FollowingIsNext ==
  ASSUME NEW g \in Nat, g + 1 < Modulus
  PROVE  Following(g) = g + 1
BY ModulusAssumption DEF Following

\* The updates a snapshot can meet do not make a generation wrap.
LEMMA UpdatesDoNotWrap ==
  2 * Updates + 1 < Modulus
BY ModulusAssumption, SectionAssumption

\* Every list and every slot is a unit, and no unit is both.
LEMMA UnitKinds ==
  \A u \in Units : u \in Lists <=> u \notin Shots
BY SectionAssumption DEF Units

\* The elements of a concatenation, by position.
LEMMA ConcatAt ==
  ASSUME NEW S, NEW s \in Seq(S), NEW t \in Seq(S)
  PROVE  /\ s \o t \in Seq(S)
         /\ Len(s \o t) = Len(s) + Len(t)
         /\ \A i \in 1 .. Len(s) : (s \o t)[i] = s[i]
OBVIOUS

\* The elements of the second part of a concatenation.
LEMMA ConcatRight ==
  ASSUME NEW S, NEW s \in Seq(S), NEW t \in Seq(S), NEW i \in 1 .. Len(t)
  PROVE  (s \o t)[Len(s) + i] = t[i]
<1>1. s \o t \in Seq(S) /\ Len(s \o t) = Len(s) + Len(t) /\ Len(s) \in Nat /\ Len(t) \in Nat
  OBVIOUS
<1>2. Len(s) + i \in 1 .. Len(s) + Len(t) /\ ~(Len(s) + i <= Len(s)) /\ (Len(s) + i) - Len(s) = i
  BY <1>1
<1> QED
  BY <1>1, <1>2

\* load_publication_state visits every unit.
LEMMA GenerationsCover ==
  /\ ShotSeq \o ListSeq \in Seq(Units)
  /\ Len(ShotSeq \o ListSeq) = LastOpening
  /\ \A u \in Units : \E i \in 1 .. LastOpening : (ShotSeq \o ListSeq)[i] = u
<1>1. ShotSeq \in Seq(Units) /\ ListSeq \in Seq(Units) /\ Len(ShotSeq) \in Nat
  BY SectionAssumption DEF Units, Lists, ListSeq
<1>2. Len(ListSeq) = 3
  BY DEF ListSeq
<1>3. /\ ShotSeq \o ListSeq \in Seq(Units)
      /\ Len(ShotSeq \o ListSeq) = Len(ShotSeq) + Len(ListSeq)
      /\ \A i \in 1 .. Len(ShotSeq) : (ShotSeq \o ListSeq)[i] = ShotSeq[i]
  BY <1>1, ConcatAt, Zenon
<1>4. ASSUME NEW i \in 1 .. Len(ListSeq) PROVE (ShotSeq \o ListSeq)[Len(ShotSeq) + i] = ListSeq[i]
  BY <1>1, ConcatRight, Zenon
<1>5. ASSUME NEW u \in Shots PROVE \E i \in 1 .. LastOpening : (ShotSeq \o ListSeq)[i] = u
  <2>1. PICK i \in 1 .. Len(ShotSeq) : ShotSeq[i] = u
    BY DEF Shots
  <2>2. i \in 1 .. LastOpening
    BY <1>1 DEF LastOpening
  <2> QED
    BY <1>3, <2>1, <2>2, Zenon
<1>6. ASSUME NEW u \in Lists PROVE \E i \in 1 .. LastOpening : (ShotSeq \o ListSeq)[i] = u
  <2>1. PICK i \in 1 .. 3 : ListSeq[i] = u
    BY DEF Lists, ListSeq
  <2>2. Len(ShotSeq) + i \in 1 .. LastOpening
    BY <1>1 DEF LastOpening
  <2> QED
    BY <1>2, <1>4, <2>1, <2>2, Zenon
<1> QED
  BY <1>2, <1>3, <1>5, <1>6, Zenon DEF Units, LastOpening

\* Arithmetic the writers' steps need, stated apart from their states.
LEMMA NextNumber ==
  \A n \in Nat : n + 1 \in Nat /\ n <= n /\ n <= n + 1 /\ n + 1 # n
  OBVIOUS

\* An odd generation below twice a count leaves room for the even one after it.
LEMMA OddBelow ==
  \A n, count \in Nat : ~Even(n) /\ n <= 2 * count => n + 1 <= 2 * count
BY DEF Even

\* Positions up to one that was passed are positions already taken.
LEMMA Passed ==
  ASSUME NEW top \in Nat, NEW at \in Nat, top < at \/ at > top
  PROVE  \A i \in 1 .. top : i \in 1 .. at - 1
  OBVIOUS

\* The entries of a list after one was added.
LEMMA Appended ==
  ASSUME NEW list \in Seq(Nat), NEW value \in Nat
  PROVE  /\ Len(list) \in Nat /\ Len(Append(list, value)) = Len(list) + 1
         /\ Append(list, value)[Len(list) + 1] = value
         /\ \A i \in 1 .. Len(list) : Append(list, value)[i] = list[i]
  OBVIOUS

\* A list without entries.
LEMMA NoEntries ==
  Len(<<>>) = 0 /\ \A i : i \notin 1 .. 0
  OBVIOUS

\* snapshot_owned_until_with_policy in terms of positions: the opening loads,
\* then every head and body, then the closing loads.
LEMMA StepOrder ==
  /\ Len(SectionSteps) = LastCopy + LastOpening
  /\ LastOpening \in Nat /\ LastCopy \in Nat /\ LastOpening < LastCopy
  /\ \A i \in 1 .. LastCopy + LastOpening :
        /\ SectionSteps[i][2] \in Units
        /\ SectionSteps[i] = <<SectionSteps[i][1], SectionSteps[i][2]>>
        /\ i <= LastOpening => SectionSteps[i][1] = "opening"
        /\ LastOpening < i /\ i <= LastCopy => SectionSteps[i][1] \in {"head", "body"}
        /\ LastCopy < i => SectionSteps[i][1] = "closing"
  /\ \A u \in Units :
        /\ \E i \in 1 .. LastCopy : SectionSteps[i] = <<"head", u>>
        /\ \E i \in 1 .. LastCopy : SectionSteps[i] = <<"body", u>>
        /\ \E i \in 1 .. LastCopy + LastOpening : SectionSteps[i] = <<"closing", u>>
<1> DEFINE n == Len(ShotSeq)
           G == ShotSeq \o ListSeq
           A == Phase("opening", G)
           B == << <<"head", "context">>, <<"body", "context">>, <<"head", "settings">>, <<"body", "settings">>,
                   <<"head", "attachments">>, <<"body", "attachments">> >>
           C == Phase("head", ShotSeq)
           D == Phase("body", ShotSeq)
           E == Phase("closing", G)
           P == {"opening", "head", "body", "closing"} \X Units
<1>1. n \in Nat /\ ShotSeq \in Seq(Units) /\ G \in Seq(Units) /\ Len(G) = n + 3
  BY GenerationsCover, SectionAssumption DEF Units, LastOpening
<1>2. A \in Seq(P) /\ Len(A) = n + 3 /\ \A i \in 1 .. n + 3 : A[i] = <<"opening", G[i]>>
  BY <1>1 DEF Phase
<1>3. B \in Seq(P) /\ Len(B) = 6
  BY DEF Units, Lists
<1>4. C \in Seq(P) /\ Len(C) = n /\ \A i \in 1 .. n : C[i] = <<"head", ShotSeq[i]>>
  BY <1>1 DEF Phase
<1>5. D \in Seq(P) /\ Len(D) = n /\ \A i \in 1 .. n : D[i] = <<"body", ShotSeq[i]>>
  BY <1>1 DEF Phase
<1>6. E \in Seq(P) /\ Len(E) = n + 3 /\ \A i \in 1 .. n + 3 : E[i] = <<"closing", G[i]>>
  BY <1>1 DEF Phase
<1>7. SectionSteps = (((A \o B) \o C) \o D) \o E
  BY DEF SectionSteps
<1> DEFINE AB == A \o B
           ABC == AB \o C
           ABCD == ABC \o D
<1> HIDE DEF A, B, C, D, E, G, P, n
<1>8. /\ AB \in Seq(P) /\ Len(AB) = n + 9
      /\ \A i \in 1 .. n + 3 : AB[i] = A[i]
      /\ \A i \in 1 .. 6 : AB[n + 3 + i] = B[i]
  <2>1. (n + 3) + 6 = n + 9
    BY <1>1
  <2>4. A \in Seq(P) /\ B \in Seq(P)
    BY <1>2, <1>3, Zenon
  <2>3. /\ AB \in Seq(P) /\ Len(AB) = Len(A) + Len(B)
        /\ \A i \in 1 .. Len(A) : AB[i] = A[i]
        /\ \A i \in 1 .. Len(B) : AB[Len(A) + i] = B[i]
    <3>1. /\ AB \in Seq(P) /\ Len(AB) = Len(A) + Len(B)
          /\ \A i \in 1 .. Len(A) : AB[i] = A[i]
      BY <2>4, ConcatAt, Zenon
    <3>2. ASSUME NEW i \in 1 .. Len(B) PROVE AB[Len(A) + i] = B[i]
      BY <2>4, ConcatRight, Zenon
    <3> QED
      BY <3>1, <3>2, Zenon
  <2> HIDE DEF AB
  <2> QED
    BY <2>1, <2>3, <1>2, <1>3, Zenon
<1> HIDE DEF AB
<1>9. /\ ABC \in Seq(P) /\ Len(ABC) = 2 * n + 9
      /\ \A i \in 1 .. n + 9 : ABC[i] = AB[i]
      /\ \A i \in 1 .. n : ABC[n + 9 + i] = C[i]
  <2>1. (n + 9) + n = 2 * n + 9
    BY <1>1
  <2>4. AB \in Seq(P) /\ C \in Seq(P)
    BY <1>4, <1>8, Zenon
  <2>3. /\ ABC \in Seq(P) /\ Len(ABC) = Len(AB) + Len(C)
        /\ \A i \in 1 .. Len(AB) : ABC[i] = AB[i]
        /\ \A i \in 1 .. Len(C) : ABC[Len(AB) + i] = C[i]
    <3>1. /\ ABC \in Seq(P) /\ Len(ABC) = Len(AB) + Len(C)
          /\ \A i \in 1 .. Len(AB) : ABC[i] = AB[i]
      BY <2>4, ConcatAt, Zenon
    <3>2. ASSUME NEW i \in 1 .. Len(C) PROVE ABC[Len(AB) + i] = C[i]
      BY <2>4, ConcatRight, Zenon
    <3> QED
      BY <3>1, <3>2, Zenon
  <2> HIDE DEF ABC
  <2> QED
    BY <2>1, <2>3, <1>4, <1>8, Zenon
<1> HIDE DEF ABC
<1>10. /\ ABCD \in Seq(P) /\ Len(ABCD) = 3 * n + 9
       /\ \A i \in 1 .. 2 * n + 9 : ABCD[i] = ABC[i]
       /\ \A i \in 1 .. n : ABCD[2 * n + 9 + i] = D[i]
  <2>1. (2 * n + 9) + n = 3 * n + 9
    BY <1>1
  <2>4. ABC \in Seq(P) /\ D \in Seq(P)
    BY <1>5, <1>9, Zenon
  <2>3. /\ ABCD \in Seq(P) /\ Len(ABCD) = Len(ABC) + Len(D)
        /\ \A i \in 1 .. Len(ABC) : ABCD[i] = ABC[i]
        /\ \A i \in 1 .. Len(D) : ABCD[Len(ABC) + i] = D[i]
    <3>1. /\ ABCD \in Seq(P) /\ Len(ABCD) = Len(ABC) + Len(D)
          /\ \A i \in 1 .. Len(ABC) : ABCD[i] = ABC[i]
      BY <2>4, ConcatAt, Zenon
    <3>2. ASSUME NEW i \in 1 .. Len(D) PROVE ABCD[Len(ABC) + i] = D[i]
      BY <2>4, ConcatRight, Zenon
    <3> QED
      BY <3>1, <3>2, Zenon
  <2> HIDE DEF ABCD
  <2> QED
    BY <2>1, <2>3, <1>5, <1>9, Zenon
<1>11. /\ SectionSteps \in Seq(P) /\ Len(SectionSteps) = 4 * n + 12
       /\ \A i \in 1 .. 3 * n + 9 : SectionSteps[i] = ABCD[i]
       /\ \A i \in 1 .. n + 3 : SectionSteps[3 * n + 9 + i] = E[i]
  <2>1. (3 * n + 9) + (n + 3) = 4 * n + 12
    BY <1>1
  <2>2. SectionSteps = ABCD \o E
    BY <1>7 DEF ABC, AB
  <2> HIDE DEF ABCD
  <2>4. ABCD \in Seq(P) /\ E \in Seq(P)
    BY <1>6, <1>10, Zenon
  <2>3. /\ SectionSteps \in Seq(P) /\ Len(SectionSteps) = Len(ABCD) + Len(E)
        /\ \A i \in 1 .. Len(ABCD) : SectionSteps[i] = ABCD[i]
        /\ \A i \in 1 .. Len(E) : SectionSteps[Len(ABCD) + i] = E[i]
    <3>1. /\ SectionSteps \in Seq(P) /\ Len(SectionSteps) = Len(ABCD) + Len(E)
          /\ \A i \in 1 .. Len(ABCD) : SectionSteps[i] = ABCD[i]
      BY <2>2, <2>4, ConcatAt, Zenon
    <3>2. ASSUME NEW i \in 1 .. Len(E) PROVE SectionSteps[Len(ABCD) + i] = E[i]
      BY <2>2, <2>4, ConcatRight, Zenon
    <3> QED
      BY <3>1, <3>2, Zenon
  <2> HIDE DEF ABCD
  <2> QED
    BY <2>1, <2>3, <2>2, <1>6, <1>10, Zenon
<1> HIDE DEF ABCD
<1>12. /\ \A i \in 1 .. n + 3 : SectionSteps[i] = <<"opening", G[i]>>
       /\ \A i \in 1 .. 6 : SectionSteps[n + 3 + i] = B[i]
       /\ \A i \in 1 .. n : SectionSteps[n + 9 + i] = <<"head", ShotSeq[i]>>
       /\ \A i \in 1 .. n : SectionSteps[2 * n + 9 + i] = <<"body", ShotSeq[i]>>
       /\ \A i \in 1 .. n + 3 : SectionSteps[3 * n + 9 + i] = <<"closing", G[i]>>
  <2>1. ASSUME NEW i \in 1 .. n + 3 PROVE SectionSteps[i] = <<"opening", G[i]>>
    <3>1. i \in 1 .. n + 9 /\ i \in 1 .. 2 * n + 9 /\ i \in 1 .. 3 * n + 9
      BY <1>1
    <3>2. SectionSteps[i] = ABCD[i] /\ ABCD[i] = ABC[i] /\ ABC[i] = AB[i] /\ AB[i] = A[i]
      BY <3>1, <1>8, <1>9, <1>10, <1>11, Zenon
    <3> QED
      BY <3>2, <1>2, Zenon
  <2>2. ASSUME NEW i \in 1 .. 6 PROVE SectionSteps[n + 3 + i] = B[i]
    <3>1. n + 3 + i \in 1 .. n + 9 /\ n + 3 + i \in 1 .. 2 * n + 9 /\ n + 3 + i \in 1 .. 3 * n + 9
      BY <1>1
    <3> DEFINE k == n + 3 + i
    <3>2. SectionSteps[k] = ABCD[k] /\ ABCD[k] = ABC[k] /\ ABC[k] = AB[k]
      <4> HIDE DEF k
      <4> QED
        BY <3>1, <1>9, <1>10, <1>11, Zenon DEF k
    <3> QED
      BY <3>2, <1>8, Zenon
  <2>3. ASSUME NEW i \in 1 .. n PROVE SectionSteps[n + 9 + i] = <<"head", ShotSeq[i]>>
    <3>1. n + 9 + i \in 1 .. 2 * n + 9 /\ n + 9 + i \in 1 .. 3 * n + 9
      BY <1>1
    <3>2. SectionSteps[n + 9 + i] = ABCD[n + 9 + i] /\ ABCD[n + 9 + i] = ABC[n + 9 + i]
      BY <3>1, <1>10, <1>11, Zenon
    <3> QED
      BY <3>2, <1>4, <1>9, Zenon
  <2>4. ASSUME NEW i \in 1 .. n PROVE SectionSteps[2 * n + 9 + i] = <<"body", ShotSeq[i]>>
    <3>1. 2 * n + 9 + i \in 1 .. 3 * n + 9
      BY <1>1
    <3> QED
      BY <3>1, <1>5, <1>10, <1>11, Zenon
  <2>5. \A i \in 1 .. n + 3 : SectionSteps[3 * n + 9 + i] = <<"closing", G[i]>>
    BY <1>6, <1>11, Zenon
  <2> QED
    BY <2>1, <2>2, <2>3, <2>4, <2>5, Zenon
<1>13. \A i \in 1 .. 4 * n + 12 : SectionSteps[i] \in P
  BY <1>11
<1>14. /\ LastOpening = n + 3 /\ LastCopy = 3 * n + 9
  BY DEF LastOpening, LastCopy, n
<1>15. ASSUME NEW i \in 1 .. 4 * n + 12
       PROVE  /\ SectionSteps[i][2] \in Units
              /\ SectionSteps[i] = <<SectionSteps[i][1], SectionSteps[i][2]>>
  BY <1>13 DEF P
<1>16. ASSUME NEW i \in 1 .. n + 3 PROVE SectionSteps[i][1] = "opening"
  BY <1>12
<1>17. ASSUME NEW i \in (n + 4) .. (3 * n + 9) PROVE SectionSteps[i][1] \in {"head", "body"}
  <2>1. CASE i <= n + 9
    <3>1. i - (n + 3) \in 1 .. 6 /\ n + 3 + (i - (n + 3)) = i
      BY <1>1, <2>1
    <3> QED
      BY <1>12, <3>1 DEF B
  <2>2. CASE n + 9 < i /\ i <= 2 * n + 9
    <3>1. i - (n + 9) \in 1 .. n /\ n + 9 + (i - (n + 9)) = i
      BY <1>1, <2>2
    <3> QED
      <4>1. SectionSteps[i] = <<"head", ShotSeq[i - (n + 9)]>>
        BY <1>12, <3>1, Zenon
      <4> QED
        BY <4>1
  <2>3. CASE 2 * n + 9 < i
    <3>1. i - (2 * n + 9) \in 1 .. n /\ 2 * n + 9 + (i - (2 * n + 9)) = i
      BY <1>1, <2>3
    <3> QED
      <4>1. SectionSteps[i] = <<"body", ShotSeq[i - (2 * n + 9)]>>
        BY <1>12, <3>1, Zenon
      <4> QED
        BY <4>1
  <2> QED
    BY <1>1, <2>1, <2>2, <2>3
<1>18. ASSUME NEW i \in (3 * n + 10) .. (4 * n + 12) PROVE SectionSteps[i][1] = "closing"
  <2>1. i - (3 * n + 9) \in 1 .. n + 3 /\ 3 * n + 9 + (i - (3 * n + 9)) = i
    BY <1>1
  <2>2. SectionSteps[i] = <<"closing", G[i - (3 * n + 9)]>>
    BY <1>12, <2>1, Zenon
  <2> QED
    BY <2>2
<1>19. ASSUME NEW u \in Shots
       PROVE  /\ \E i \in 1 .. 3 * n + 9 : SectionSteps[i] = <<"head", u>>
              /\ \E i \in 1 .. 3 * n + 9 : SectionSteps[i] = <<"body", u>>
  <2>1. PICK i \in 1 .. n : ShotSeq[i] = u
    BY <1>1, SectionAssumption DEF Shots, n
  <2>2. n + 9 + i \in 1 .. 3 * n + 9 /\ 2 * n + 9 + i \in 1 .. 3 * n + 9
    BY <1>1
  <2> QED
    BY <1>12, <2>1, <2>2
<1>20. ASSUME NEW u \in Lists
       PROVE  /\ \E i \in 1 .. 3 * n + 9 : SectionSteps[i] = <<"head", u>>
              /\ \E i \in 1 .. 3 * n + 9 : SectionSteps[i] = <<"body", u>>
  <2>1. PICK i \in 1 .. 6, j \in 1 .. 6 : B[i] = <<"head", u>> /\ B[j] = <<"body", u>>
    <3>1. u = "context" \/ u = "settings" \/ u = "attachments"
      BY DEF Lists
    <3>2. /\ B[1] = <<"head", "context">> /\ B[2] = <<"body", "context">>
          /\ B[3] = <<"head", "settings">> /\ B[4] = <<"body", "settings">>
          /\ B[5] = <<"head", "attachments">> /\ B[6] = <<"body", "attachments">>
      BY DEF B
    <3> QED
      BY <3>1, <3>2
  <2>2. n + 3 + i \in 1 .. 3 * n + 9 /\ n + 3 + j \in 1 .. 3 * n + 9
    BY <1>1
  <2> QED
    BY <1>12, <2>1, <2>2
<1>21. ASSUME NEW u \in Units
       PROVE  \E i \in 1 .. 4 * n + 12 : SectionSteps[i] = <<"closing", u>>
  <2>1. PICK i \in 1 .. n + 3 : G[i] = u
    BY Zenon, GenerationsCover, <1>14 DEF G
  <2>2. 3 * n + 9 + i \in 1 .. 4 * n + 12
    BY <1>1
  <2> QED
    BY <1>12, <2>1, <2>2
<1>22. LastCopy + LastOpening = 4 * n + 12 /\ LastOpening < LastCopy /\ LastOpening \in Nat /\ LastCopy \in Nat
  BY <1>1, <1>14
<1>23. ASSUME NEW i \in 1 .. LastCopy + LastOpening
       PROVE  /\ i <= LastOpening => SectionSteps[i][1] = "opening"
              /\ LastOpening < i /\ i <= LastCopy => SectionSteps[i][1] \in {"head", "body"}
              /\ LastCopy < i => SectionSteps[i][1] = "closing"
  BY <1>1, <1>14, <1>16, <1>17, <1>18, <1>22
<1>24. ASSUME NEW u \in Units
       PROVE  /\ \E i \in 1 .. LastCopy : SectionSteps[i] = <<"head", u>>
              /\ \E i \in 1 .. LastCopy : SectionSteps[i] = <<"body", u>>
  BY <1>14, <1>19, <1>20, Zenon DEF Units
<1> QED
  BY <1>11, <1>15, <1>21, <1>22, <1>23, <1>24, Zenon

-----------------------------------------------------------------------------
(* One field of one unit.                                                  *)

WithGen(f, u, g) == [f EXCEPT ![u].gen = g]
WithHead(f, u, h) == [f EXCEPT ![u].head = h]
WithBody(f, u, b) == [f EXCEPT ![u].body = b]

\* r is f with these fields in unit u.
Changed(f, r, u, gen, head, body) ==
    /\ UnitsTyped(r)
    /\ r[u].gen = gen /\ r[u].head = head /\ r[u].body = body
    /\ \A x \in Units \ {u} : r[x] = f[x]

\* Setting the generation of a unit leaves the rest of the units.
LEMMA SetGen ==
  ASSUME NEW f, UnitsTyped(f), NEW u \in Units, NEW g \in Nat,
         NEW r, r = WithGen(f, u, g)
  PROVE  Changed(f, r, u, g, f[u].head, f[u].body)
<1>1. u \in Shots <=> u \notin Lists
  BY UnitKinds
<1>2. r = [x \in Units |-> IF x = u THEN [f[u] EXCEPT !.gen = g] ELSE f[x]]
  BY DEF UnitsTyped, WithGen
<1>3. CASE u \in Shots
  <2>1. f[u] \in SlotRecord
    BY <1>3 DEF UnitsTyped
  <2>2. [f[u] EXCEPT !.gen = g] \in SlotRecord
    BY <2>1 DEF SlotRecord
  <2> QED
    BY Zenon, <1>1, <1>2, <1>3, <2>1, <2>2 DEF Changed, UnitsTyped, SlotRecord, Units
<1>4. CASE u \in Lists
  <2>1. f[u] \in ListRecord
    BY <1>4 DEF UnitsTyped
  <2>2. [f[u] EXCEPT !.gen = g] \in ListRecord
    BY <2>1 DEF ListRecord
  <2> QED
    BY Zenon, <1>1, <1>2, <1>4, <2>1, <2>2 DEF Changed, UnitsTyped, ListRecord, Units
<1> QED
  BY <1>3, <1>4 DEF Units

\* Setting the head of a unit leaves the rest of the units.
LEMMA SetHead ==
  ASSUME NEW f, UnitsTyped(f), NEW u \in Units, NEW h,
         h \in IF u \in Shots THEN Stamps \cup {NoStamp} ELSE 0 .. ListMax,
         NEW r, r = WithHead(f, u, h)
  PROVE  Changed(f, r, u, f[u].gen, h, f[u].body)
<1>1. u \in Shots <=> u \notin Lists
  BY UnitKinds
<1>2. r = [x \in Units |-> IF x = u THEN [f[u] EXCEPT !.head = h] ELSE f[x]]
  BY DEF UnitsTyped, WithHead
<1>3. CASE u \in Shots
  <2>1. f[u] \in SlotRecord
    BY <1>3 DEF UnitsTyped
  <2>2. [f[u] EXCEPT !.head = h] \in SlotRecord
    BY <1>3, <2>1 DEF SlotRecord
  <2> QED
    BY Zenon, <1>1, <1>2, <1>3, <2>1, <2>2 DEF Changed, UnitsTyped, SlotRecord, Units
<1>4. CASE u \in Lists
  <2>1. f[u] \in ListRecord
    BY <1>4 DEF UnitsTyped
  <2>2. [f[u] EXCEPT !.head = h] \in ListRecord
    BY <1>1, <1>4, <2>1 DEF ListRecord
  <2> QED
    BY Zenon, <1>1, <1>2, <1>4, <2>1, <2>2 DEF Changed, UnitsTyped, ListRecord, Units
<1> QED
  BY <1>3, <1>4 DEF Units

\* Setting the body of a unit leaves the rest of the units.
LEMMA SetBody ==
  ASSUME NEW f, UnitsTyped(f), NEW u \in Units, NEW b,
         b \in IF u \in Shots THEN Nat ELSE [1 .. ListMax -> Nat],
         NEW r, r = WithBody(f, u, b)
  PROVE  Changed(f, r, u, f[u].gen, f[u].head, b)
<1>1. u \in Shots <=> u \notin Lists
  BY UnitKinds
<1>2. r = [x \in Units |-> IF x = u THEN [f[u] EXCEPT !.body = b] ELSE f[x]]
  BY DEF UnitsTyped, WithBody
<1>3. CASE u \in Shots
  <2>1. f[u] \in SlotRecord
    BY <1>3 DEF UnitsTyped
  <2>2. [f[u] EXCEPT !.body = b] \in SlotRecord
    BY <1>3, <2>1 DEF SlotRecord
  <2> QED
    BY Zenon, <1>1, <1>2, <1>3, <2>1, <2>2 DEF Changed, UnitsTyped, SlotRecord, Units
<1>4. CASE u \in Lists
  <2>1. f[u] \in ListRecord
    BY <1>4 DEF UnitsTyped
  <2>2. [f[u] EXCEPT !.body = b] \in ListRecord
    BY <1>1, <1>4, <2>1 DEF ListRecord
  <2> QED
    BY Zenon, <1>1, <1>2, <1>4, <2>1, <2>2 DEF Changed, UnitsTyped, ListRecord, Units
<1> QED
  BY <1>3, <1>4 DEF Units

\* The fields of a unit have the types of its kind.
LEMMA UnitFields ==
  ASSUME NEW f, UnitsTyped(f), NEW u \in Units
  PROVE  /\ f[u].gen \in Nat
         /\ u \in Shots => f[u].head \in Stamps \cup {NoStamp} /\ f[u].body \in Nat
         /\ u \notin Shots => f[u].head \in 0 .. ListMax /\ f[u].body \in [1 .. ListMax -> Nat]
BY UnitKinds DEF UnitsTyped, SlotRecord, ListRecord, Units

-----------------------------------------------------------------------------
(* Steps of the writers.                                                   *)

\* What a step of w has to show: the others are undisturbed when no unit they
\* own is touched.
LEMMA LocalStep ==
  ASSUME SectionTypes, WriterInv, NEW w \in Writers,
         issued' \in Nat, issued <= issued',
         \A v \in Writers \ {w} : writer'[v] = writer[v],
         \A v \in Writers \ {w} : \A x \in Units :
            Owns(v, x) => unit'[x] = unit[x] /\ complete'[x] = complete[x] /\ ~Owns(w, x)',
         ClaimBound(w)', \A x \in Units : OwnerInv(w, x)', \A x \in Units : Quiet(x)'
  PROVE  WriterInv'
<1>1. ASSUME NEW v \in Writers \ {w} PROVE ClaimBound(v)'
  <2>1. ClaimBound(v)
    BY DEF WriterInv
  <2>2. writer'[v] = writer[v]
    OBVIOUS
  <2>3. writer[v] \in WriterRecord /\ issued \in Nat
    BY SectionAssumption DEF SectionTypes
  <2> QED
    BY <2>1, <2>2, <2>3 DEF ClaimBound, WriterRecord
<1>2. ASSUME NEW v \in Writers \ {w}, NEW x \in Units PROVE Owns(v, x)' <=> Owns(v, x)
  BY DEF Owns
<1>3. ASSUME NEW v \in Writers \ {w}, NEW x \in Units PROVE OwnerInv(v, x)'
  <2> SUFFICES ASSUME Owns(v, x)' PROVE OwnerInv(v, x)'
    BY DEF OwnerInv
  <2>1. Owns(v, x) /\ OwnerInv(v, x) /\ writer[v].at = x
    BY <1>2 DEF WriterInv, Owns
  <2>2. writer'[v] = writer[v] /\ unit'[x] = unit[x] /\ complete'[x] = complete[x]
    BY <2>1
  <2>3. ShotProgress(v)' <=> ShotProgress(v)
    BY Zenon, <2>1, <2>2 DEF ShotProgress
  <2>4. (ListWhole(x)' <=> ListWhole(x)) /\ \A n : Entries(x, n)' <=> Entries(x, n)
    BY Zenon, <2>2 DEF ListWhole, Entries
  <2>5. ListProgress(v)' <=> ListProgress(v)
    BY Zenon, <2>1, <2>2, <2>4 DEF ListProgress
  <2> QED
    BY Zenon, <2>1, <2>2, <2>3, <2>5 DEF OwnerInv
<1>4. ASSUME NEW v \in Writers, NEW y \in Writers, NEW x \in Units, Owns(v, x)', Owns(y, x)'
      PROVE  v = y
  <2>1. CASE v = w \/ y = w
    BY <1>2, <1>4, <2>1
  <2>2. CASE v # w /\ y # w
    BY <1>2, <1>4, <2>2 DEF WriterInv
  <2> QED
    BY <2>1, <2>2
<1> QED
  BY <1>1, <1>3, <1>4 DEF WriterInv

\* An untouched unit stays as it was.
LEMMA QuietFrame ==
  ASSUME NEW x \in Units, Quiet(x), unit'[x] = unit[x], complete'[x] = complete[x], issued' = issued
  PROVE  Quiet(x)'
<1>1. UnitWhole(x)' <=> UnitWhole(x)
  BY Zenon DEF UnitWhole, ListWhole, Entries
<1> QED
  BY Zenon, <1>1 DEF Quiet

\* What a writer does to the units, as a reader can tell.
Grows ==
    \A u \in Units :
        /\ unit'[u].gen \in Nat /\ unit[u].gen <= unit'[u].gen
        /\ Even(unit[u].gen) /\ unit'[u].gen = unit[u].gen =>
              unit'[u].head = unit[u].head /\ unit'[u].body = unit[u].body

\* While generations only grow, and a unit changes only at an odd one, what
\* the reader has copied stays what it can vouch for.
LEMMA WriterKeepsReader ==
  ASSUME SectionTypes, ReaderInv, UNCHANGED copyVars,
         Grows
  PROVE  ReaderInv'
<1>1. look' = look /\ opening' = opening /\ closing' = closing /\ owned' = owned /\ witnessed' = witnessed /\ policy' = policy
  BY DEF copyVars
<1>2. ASSUME NEW u \in Units PROVE opening'[u] <= unit'[u].gen /\ (Unmoved(u)' => Unmoved(u) /\ unit'[u].gen = unit[u].gen)
  <2>1. opening[u] \in Nat /\ unit[u].gen \in Nat /\ opening[u] <= unit[u].gen
    BY UnitFields DEF SectionTypes, ReaderInv, ReaderUnit
  <2> QED
    BY <1>1, <2>1 DEF Unmoved, Grows
<1>3. ASSUME NEW u \in Units PROVE Unmoved(u)' => unit'[u].head = unit[u].head /\ unit'[u].body = unit[u].body
  BY <1>2 DEF Unmoved, Grows
<1>4. ASSUME NEW u \in Units, NEW phase PROVE Taken(phase, u)' <=> Taken(phase, u)
  BY <1>1 DEF Taken
<1>5. ASSUME NEW u \in Units PROVE (Allowed(u)' <=> Allowed(u)) /\ (CopyWhole(u)' <=> CopyWhole(u))
  BY <1>1 DEF Allowed, CopyWhole
<1> QED
  BY <1>1, <1>2, <1>3, <1>4, <1>5 DEF ReaderInv, ReaderUnit

\* Write moves one thread.
Moved(w, from, next) ==
    /\ writer' \in [Writers -> WriterRecord]
    /\ writer'[w] = IF next.pc = "idle" THEN Resting ELSE next
    /\ \A v \in Writers \ {w} : writer'[v] = writer[v]
    /\ writer[w].pc = from
    /\ UNCHANGED copyVars

\* What Write does when its guard holds.
LEMMA WriteMoves ==
  ASSUME writer \in [Writers -> WriterRecord], NEW w \in Writers, NEW from, NEW next \in WriterRecord,
         Write(w, from, next)
  PROVE  Moved(w, from, next)
<1>1. Resting \in WriterRecord
  BY DEF Resting, WriterRecord, WriterPcs, Units, Lists
<1> QED
  BY <1>1 DEF Write, Moved

\* The load of the generation.
LEMMA BeginKeeps ==
  ASSUME SectionTypes, WriterInv, NEW w \in Writers, NEW u \in Units, BeginUpdate(w, u)
  PROVE  SectionTypes' /\ WriterInv' /\ Grows /\ UNCHANGED copyVars
<1>1. PICK stamp \in IF u \in Shots THEN Stamps ELSE {NoStamp} :
        Write(w, "idle", [pc |-> IF Even(unit[u].gen) THEN "claim" ELSE "idle", at |-> u,
                          value |-> issued + 1, stamp |-> stamp, observed |-> unit[u].gen, odd |-> 0])
  BY DEF BeginUpdate
<1> DEFINE next == [pc |-> IF Even(unit[u].gen) THEN "claim" ELSE "idle", at |-> u, value |-> issued + 1,
                    stamp |-> stamp, observed |-> unit[u].gen, odd |-> 0]
<1>2. issued \in Nat /\ issued' = issued + 1 /\ issued' \in 0 .. Updates /\ unit' = unit /\ complete' = complete
  BY SectionAssumption DEF SectionTypes, BeginUpdate
<1>3. unit[u].gen \in Nat
  BY UnitFields DEF SectionTypes
<1>4. next \in WriterRecord /\ next.pc = (IF Even(unit[u].gen) THEN "claim" ELSE "idle")
  BY <1>2, <1>3 DEF WriterRecord, WriterPcs
<1>5. Write(w, "idle", next)
  BY <1>1
<1>6. /\ writer' \in [Writers -> WriterRecord]
      /\ writer'[w] = IF next.pc = "idle" THEN Resting ELSE next
      /\ \A v \in Writers \ {w} : writer'[v] = writer[v]
      /\ UNCHANGED copyVars
  <2> HIDE DEF next
  <2> QED
    BY <1>4, <1>5, WriteMoves DEF Moved, SectionTypes
<1>7. SectionTypes'
  BY Zenon, <1>2, <1>6 DEF SectionTypes, copyVars, UnitsTyped
<1>8. \A x \in Units : ~Owns(w, x)'
  <2> HIDE DEF next
  <2>1. Resting.pc = "idle"
    BY Zenon DEF Resting
  <2>2. writer'[w].pc \in {"idle", "claim"}
    BY Zenon, <1>4, <1>6, <2>1
  <2> QED
    BY Zenon, <2>2 DEF Owns
<1>9. Quiet(u)
  BY DEF WriterInv
<1>10. ClaimBound(w)'
  BY SMTT(30), <1>2, <1>3, <1>6, <1>9 DEF ClaimBound, Resting, Quiet
<1>11. \A x \in Units : OwnerInv(w, x)'
  BY <1>8 DEF OwnerInv
<1>12. ASSUME NEW x \in Units PROVE Quiet(x)'
  <2>1. Quiet(x) /\ unit[x].gen \in Nat
    BY UnitFields DEF WriterInv, SectionTypes
  <2> QED
    BY SMTT(30), <1>2, <2>1 DEF Quiet, UnitWhole, ListWhole, Entries
<1>13. WriterInv'
  <2>1. issued' \in Nat /\ issued <= issued'
    BY Zenon, <1>2, NextNumber
  <2>2. \A v \in Writers \ {w} : \A x \in Units :
          Owns(v, x) => unit'[x] = unit[x] /\ complete'[x] = complete[x] /\ ~Owns(w, x)'
    BY Zenon, <1>2, <1>8
  <2> QED
    BY Zenon, <1>6, <1>8, <1>10, <1>11, <1>12, <2>1, <2>2, LocalStep
<1>14. Grows
  BY <1>2, UnitFields DEF Grows, SectionTypes
<1> QED
  BY <1>6, <1>7, <1>13, <1>14

\* The compare-exchange: it succeeds only at an even generation, where the
\* unit has no owner.
LEMMA ClaimKeeps ==
  ASSUME SectionTypes, WriterInv, NEW w \in Writers, ClaimUnit(w)
  PROVE  SectionTypes' /\ WriterInv' /\ Grows /\ UNCHANGED copyVars
<1>1. /\ writer \in [Writers -> WriterRecord] /\ writer[w] \in WriterRecord
      /\ issued \in Nat /\ issued' = issued /\ complete' = complete /\ issued \in 0 .. Updates
  BY SectionAssumption DEF SectionTypes, ClaimUnit, WriterRecord
<1>6. PICK u \in Units : writer[w].at = u
  BY <1>1 DEF WriterRecord
<1>2. \A x \in Units : unit[x].gen \in Nat
  BY UnitFields DEF SectionTypes
<1>3. writer[w].pc = "claim"
  BY DEF ClaimUnit, Write
<1>4. CASE unit[u].gen # writer[w].observed
  <2>1. Write(w, "claim", [writer[w] EXCEPT !.pc = "idle"]) /\ unit' = unit
    BY <1>4, <1>6 DEF ClaimUnit
  <2> DEFINE next == [writer[w] EXCEPT !.pc = "idle"]
  <2>2. next \in WriterRecord /\ next.pc = "idle" /\ Write(w, "claim", next)
    BY <1>1, <2>1 DEF WriterRecord, WriterPcs
  <2> HIDE DEF next
  <2>3. /\ writer' \in [Writers -> WriterRecord] /\ writer'[w] = Resting
        /\ \A v \in Writers \ {w} : writer'[v] = writer[v]
        /\ UNCHANGED copyVars
    BY <1>1, <2>2, WriteMoves DEF Moved
  <2>4. SectionTypes'
    BY Zenon, <1>1, <2>1, <2>3 DEF SectionTypes, copyVars, UnitsTyped
  <2>5. ClaimBound(w)' /\ \A x \in Units : ~Owns(w, x)' /\ OwnerInv(w, x)'
    BY <2>3 DEF ClaimBound, OwnerInv, Owns, Resting
  <2>6. ASSUME NEW x \in Units PROVE Quiet(x)'
    BY <1>1, <2>1 DEF WriterInv, Quiet, UnitWhole, ListWhole, Entries
  <2>7. WriterInv'
    BY <1>1, <2>1, <2>3, <2>5, <2>6, LocalStep
  <2>8. Grows
    BY <1>2, <2>1 DEF Grows
  <2> QED
    BY <2>3, <2>4, <2>7, <2>8
<1>5. CASE unit[u].gen = writer[w].observed
  <2>23. PICK g \in Nat : unit[u].gen = g
    BY <1>2
  <2> DEFINE next == [writer[w] EXCEPT !.pc = IF u \in Shots THEN "body" ELSE "head",
                                       !.odd = Following(g), !.observed = 0]
  <2>1. /\ writer[w].value \in 1 .. issued /\ writer[w].value \in Nat
        /\ g <= 2 * (writer[w].value - 1) /\ Even(g)
    BY Zenon, <1>1, <1>3, <1>5, <2>23 DEF WriterInv, ClaimBound, WriterRecord
  <2>21. Write(w, "claim", next) /\ unit' = [unit EXCEPT ![u].gen = Following(g)]
    BY Zenon, <1>5, <1>6, <2>23 DEF ClaimUnit
  <2>2. Following(g) = g + 1 /\ g + 1 <= 2 * issued /\ g + 1 \in Nat /\ ~Even(g + 1)
    <3>1. g + 1 <= 2 * issued /\ g + 1 \in Nat /\ g + 1 < Modulus
      <4>1. Updates \in Nat /\ Modulus \in Nat /\ 2 * Updates + 1 < Modulus
        BY UpdatesDoNotWrap, SectionAssumption, ModulusAssumption
      <4> QED
        BY <1>1, <2>1, <4>1
    <3>2. ~Even(g + 1)
      BY <2>1 DEF Even
    <3> QED
      BY <2>1, <3>1, <3>2, FollowingIsNext
  <2>3. Write(w, "claim", next) /\ unit' = [unit EXCEPT ![u].gen = g + 1]
    BY <2>21, <2>2
  <2>4. /\ next \in WriterRecord /\ next.pc = (IF u \in Shots THEN "body" ELSE "head") /\ next.pc # "idle"
        /\ next.at = u /\ next.odd = g + 1 /\ next.value = writer[w].value
    BY Zenon, <1>1, <1>6, <2>2 DEF WriterRecord, WriterPcs
  <2> HIDE DEF next
  <2>5. /\ writer' \in [Writers -> WriterRecord] /\ writer'[w] = next
        /\ \A v \in Writers \ {w} : writer'[v] = writer[v]
        /\ UNCHANGED copyVars
    BY <1>1, <2>3, <2>4, WriteMoves DEF Moved
  <2>6. /\ UnitsTyped(unit') /\ unit'[u].gen = g + 1 /\ unit'[u].head = unit[u].head /\ unit'[u].body = unit[u].body
        /\ \A x \in Units \ {u} : unit'[x] = unit[x]
    <3>1. UnitsTyped(unit)
      BY DEF SectionTypes
    <3>2. PICK h \in Nat : h = g + 1
      BY <2>2
    <3>3. unit' = WithGen(unit, u, h)
      BY <2>3, <3>2 DEF WithGen
    <3>4. /\ UnitsTyped(unit') /\ unit'[u].gen = h /\ unit'[u].head = unit[u].head /\ unit'[u].body = unit[u].body
          /\ \A x \in Units \ {u} : unit'[x] = unit[x]
      <4>5. Changed(unit, unit', u, h, unit[u].head, unit[u].body)
        BY Zenon, <1>6, <3>1, <3>2, <3>3, SetGen
      <4> QED
        BY Zenon, <4>5 DEF Changed
    <3> QED
      BY <3>2, <3>4
  <2>7. SectionTypes'
    BY Zenon, <1>1, <2>5, <2>6 DEF SectionTypes, copyVars, UnitsTyped
  <2>8. \A v \in Writers : ~Owns(v, u)
    BY Zenon, <2>1, <2>23 DEF WriterInv, OwnerInv
  <2>9. ASSUME NEW x \in Units, Owns(w, x)' PROVE x = u
    BY <2>4, <2>5, <2>9 DEF Owns
  <2>10. UnitWhole(u) /\ complete'[u] = complete[u]
    BY Zenon, <1>1, <2>1, <2>23 DEF WriterInv, Quiet
  <2>11. OwnerInv(w, u)'
    <3>1. writer'[w].odd = g + 1 /\ ~Even(unit'[u].gen)
      BY <2>2, <2>4, <2>5, <2>6
    <3>2. CASE u \in Shots
      BY Zenon, <2>4, <2>5, <2>6, <3>1, <3>2 DEF OwnerInv, ShotProgress
    <3>3. CASE u \notin Shots
      <4>1. writer'[w].at = u /\ writer'[w].pc = "head" /\ writer'[w].value # 0
        BY <2>1, <2>4, <2>5, <3>3
      <4>2. ListWhole(u)'
        BY Zenon, <2>6, <2>10, <3>3 DEF UnitWhole, ListWhole, Entries
      <4>3. ListProgress(w)'
        BY <4>1, <4>2 DEF ListProgress
      <4> QED
        BY Zenon, <2>6, <3>1, <3>3, <4>3 DEF OwnerInv
    <3> QED
      BY <3>2, <3>3
  <2>12. \A x \in Units : OwnerInv(w, x)'
    <3> SUFFICES ASSUME NEW x \in Units PROVE OwnerInv(w, x)'
      OBVIOUS
    <3>1. CASE Owns(w, x)'
      BY <2>9, <2>11, <3>1
    <3>2. CASE ~Owns(w, x)'
      BY <3>2 DEF OwnerInv
    <3> QED
      BY <3>1, <3>2
  <2>13. ClaimBound(w)'
    BY Zenon, <2>4, <2>5 DEF ClaimBound
  <2>14. ASSUME NEW x \in Units PROVE Quiet(x)'
    <3>1. CASE x = u
      BY <1>1, <2>2, <2>6, <3>1 DEF Quiet
    <3>2. CASE x # u
      BY Zenon, <1>1, <2>6, <3>2 DEF WriterInv, Quiet, UnitWhole, ListWhole, Entries
    <3> QED
      BY <3>1, <3>2
  <2>15. \A v \in Writers \ {w} : \A x \in Units :
            Owns(v, x) => unit'[x] = unit[x] /\ complete'[x] = complete[x] /\ ~Owns(w, x)'
    BY Zenon, <1>1, <2>6, <2>8, <2>9
  <2>16. WriterInv'
    <3>1. issued' \in Nat /\ issued <= issued'
      BY <1>1
    <3> QED
      BY Zenon, <3>1, <2>5, <2>12, <2>13, <2>14, <2>15, LocalStep
  <2>17. Grows
    BY SMTT(30), <1>2, <2>2, <2>6, <2>23 DEF Grows
  <2> QED
    BY <2>5, <2>7, <2>16, <2>17
<1> QED
  BY <1>4, <1>5

\* The facts about the owner of a unit that the steps of an update use.
LEMMA OwnerFacts ==
  ASSUME SectionTypes, WriterInv, NEW w \in Writers, writer[w].pc \in {"head", "body", "release"},
         NEW u \in Units, writer[w].at = u
  PROVE  /\ writer \in [Writers -> WriterRecord] /\ writer[w] \in WriterRecord
         /\ UnitsTyped(unit) /\ \A x \in Units : unit[x].gen \in Nat
         /\ issued \in Nat /\ issued \in 0 .. Updates
         /\ Owns(w, u) /\ OwnerInv(w, u)
         /\ unit[u].gen = writer[w].odd /\ ~Even(unit[u].gen) /\ unit[u].gen <= 2 * issued
         /\ \A v \in Writers \ {w} : ~Owns(v, u)
<1>1. writer \in [Writers -> WriterRecord] /\ UnitsTyped(unit) /\ issued \in Nat /\ issued \in 0 .. Updates
  BY SectionAssumption DEF SectionTypes
<1>2. Owns(w, u)
  BY DEF Owns
<1>3. OwnerInv(w, u) /\ Quiet(u) /\ \A v \in Writers \ {w} : ~Owns(v, u)
  BY <1>2 DEF WriterInv
<1> QED
  BY Zenon, <1>1, <1>2, <1>3, UnitFields DEF OwnerInv, Quiet

\* A step of the owner that leaves the generation odd.
LEMMA OwnerStep ==
  ASSUME SectionTypes, WriterInv, NEW w \in Writers, writer[w].pc \in {"head", "body", "release"},
         NEW u \in Units, writer[w].at = u,
         NEW from, NEW next \in WriterRecord, Write(w, from, next),
         next.pc \in {"head", "body", "release"}, next.at = u, next.odd = writer[w].odd,
         issued' = issued, complete' = complete,
         UnitsTyped(unit'), unit'[u].gen = unit[u].gen, \A x \in Units \ {u} : unit'[x] = unit[x],
         writer'[w] = next => IF u \in Shots THEN ShotProgress(w)' ELSE ListProgress(w)'
  PROVE  SectionTypes' /\ WriterInv' /\ Grows /\ UNCHANGED copyVars
<1>1. /\ writer \in [Writers -> WriterRecord] /\ writer[w] \in WriterRecord
      /\ UnitsTyped(unit) /\ \A x \in Units : unit[x].gen \in Nat
      /\ issued \in Nat /\ issued \in 0 .. Updates
      /\ unit[u].gen = writer[w].odd /\ ~Even(unit[u].gen) /\ unit[u].gen <= 2 * issued
      /\ \A v \in Writers \ {w} : ~Owns(v, u)
  BY OwnerFacts, Zenon
<1>2. /\ writer' \in [Writers -> WriterRecord] /\ writer'[w] = next
      /\ \A v \in Writers \ {w} : writer'[v] = writer[v]
      /\ UNCHANGED copyVars
  <2>1. Moved(w, from, next)
    BY Zenon, <1>1, WriteMoves
  <2> QED
    BY Zenon, <2>1 DEF Moved
<1>3. SectionTypes'
  BY Zenon, <1>1, <1>2 DEF SectionTypes, copyVars, UnitsTyped
<1>4. ASSUME NEW x \in Units, Owns(w, x)' PROVE x = u
  BY Zenon, <1>2, <1>4 DEF Owns
<1>5. OwnerInv(w, u)'
  BY Zenon, <1>1, <1>2 DEF OwnerInv
<1>6. ASSUME NEW x \in Units PROVE OwnerInv(w, x)'
  <2>1. CASE Owns(w, x)'
    BY Zenon, <1>4, <1>5, <2>1
  <2>2. CASE ~Owns(w, x)'
    BY Zenon, <2>2 DEF OwnerInv
  <2> QED
    BY Zenon, <2>1, <2>2
<1>7. ClaimBound(w)'
  BY Zenon, <1>2 DEF ClaimBound
<1>8. ASSUME NEW x \in Units PROVE Quiet(x)'
  <2>1. CASE x = u
    BY <1>1, <2>1, Zenon DEF Quiet
  <2>2. CASE x # u
    BY ZenonT(30), <1>1, <2>2 DEF WriterInv, Quiet, UnitWhole, ListWhole, Entries
  <2> QED
    BY Zenon, <2>1, <2>2
<1>9. \A v \in Writers \ {w} : \A x \in Units :
        Owns(v, x) => unit'[x] = unit[x] /\ complete'[x] = complete[x] /\ ~Owns(w, x)'
  BY Zenon, <1>1, <1>4
<1>10. issued' \in Nat /\ issued <= issued'
  BY Zenon, <1>1, NextNumber
<1>11. WriterInv'
  BY Zenon, <1>2, <1>6, <1>7, <1>8, <1>9, <1>10, LocalStep
<1>12. Grows
  <2> SUFFICES ASSUME NEW x \in Units
               PROVE  /\ unit'[x].gen \in Nat /\ unit[x].gen <= unit'[x].gen
                      /\ Even(unit[x].gen) /\ unit'[x].gen = unit[x].gen =>
                            unit'[x].head = unit[x].head /\ unit'[x].body = unit[x].body
    BY Zenon DEF Grows
  <2>1. CASE x = u
    BY Zenon, <1>1, <2>1, NextNumber
  <2>2. CASE x # u
    BY Zenon, <1>1, <2>2, NextNumber
  <2> QED
    BY Zenon, <2>1, <2>2
<1> QED
  BY Zenon, <1>2, <1>3, <1>11, <1>12

\* The head: the stamp of a screenshot, or the count of a list, which a full
\* list keeps.
LEMMA WriteHeadKeeps ==
  ASSUME SectionTypes, WriterInv, NEW w \in Writers, WriteHead(w)
  PROVE  SectionTypes' /\ WriterInv' /\ Grows /\ UNCHANGED copyVars
<1>1. writer[w].pc = "head" /\ issued' = issued /\ complete' = complete
  BY DEF WriteHead, Write
<1>2. writer[w] \in WriterRecord
  BY DEF SectionTypes
<1>3. PICK u \in Units : writer[w].at = u
  BY <1>2 DEF WriterRecord
<1>4. UnitsTyped(unit) /\ Owns(w, u) /\ OwnerInv(w, u)
  BY Zenon, <1>1, <1>3, OwnerFacts
<1>5. CASE u \in Shots
  <2> DEFINE next == [writer[w] EXCEPT !.pc = "release"]
  <2>1. Write(w, "head", next) /\ unit' = [unit EXCEPT ![u].head = writer[w].stamp]
    BY <1>3, <1>5 DEF WriteHead
  <2>2. /\ next \in WriterRecord /\ next.pc = "release" /\ next.at = u /\ next.odd = writer[w].odd
        /\ next.value = writer[w].value /\ next.stamp = writer[w].stamp
    BY <1>2, <1>3 DEF WriterRecord, WriterPcs
  <2> HIDE DEF next
  <2>3. PICK h \in Stamps \cup {NoStamp} : h = writer[w].stamp
    BY <1>2 DEF WriterRecord
  <2>4. /\ UnitsTyped(unit') /\ unit'[u].gen = unit[u].gen /\ unit'[u].head = h /\ unit'[u].body = unit[u].body
        /\ \A x \in Units \ {u} : unit'[x] = unit[x]
    <3>1. unit' = WithHead(unit, u, h) /\ h \in IF u \in Shots THEN Stamps \cup {NoStamp} ELSE 0 .. ListMax
      BY <1>5, <2>1, <2>3 DEF WithHead
    <3>5. Changed(unit, unit', u, unit[u].gen, h, unit[u].body)
      BY Zenon, <1>3, <1>4, <3>1, SetHead
    <3> QED
      BY Zenon, <3>5 DEF Changed
  <2>5. unit[u].body = writer[w].value
    BY Zenon, <1>1, <1>3, <1>4, <1>5 DEF OwnerInv, ShotProgress
  <2>6. writer'[w] = next => ShotProgress(w)'
    BY <2>2, <2>3, <2>4, <2>5, Zenon DEF ShotProgress
  <2> QED
    BY Zenon, <1>1, <1>3, <1>5, <2>1, <2>2, <2>4, <2>6, OwnerStep
<1>6. CASE u \notin Shots
  <2>1. /\ ListWhole(u) /\ writer[w].value # 0
        /\ unit[u].head \in 0 .. ListMax /\ unit[u].body \in [1 .. ListMax -> Nat]
    BY Zenon, <1>1, <1>3, <1>4, <1>6, UnitFields DEF OwnerInv, ListProgress
  <2>2. CASE unit[u].head >= ListMax
    <3> DEFINE next == [writer[w] EXCEPT !.pc = "release", !.value = 0]
    <3>1. Write(w, "head", next) /\ unit' = unit
      BY <1>3, <1>6, <2>2 DEF WriteHead
    <3>2. /\ next \in WriterRecord /\ next.pc = "release" /\ next.at = u /\ next.odd = writer[w].odd
          /\ next.value = 0
      BY Zenon, <1>2, <1>3 DEF WriterRecord, WriterPcs
    <3> HIDE DEF next
    <3>3. ListWhole(u)'
      BY Zenon, <1>1, <2>1, <3>1 DEF ListWhole, Entries
    <3>4. writer'[w] = next => ListProgress(w)'
      BY Zenon, <3>2, <3>3 DEF ListProgress
    <3>5. UnitsTyped(unit') /\ unit'[u].gen = unit[u].gen /\ \A x \in Units \ {u} : unit'[x] = unit[x]
      BY <1>4, <3>1
    <3> QED
      BY Zenon, <1>1, <1>3, <1>6, <3>1, <3>2, <3>4, <3>5, OwnerStep
  <2>3. CASE ~(unit[u].head >= ListMax)
    <3> DEFINE next == [writer[w] EXCEPT !.pc = "body"]
    <3>1. Write(w, "head", next) /\ unit' = [unit EXCEPT ![u].head = unit[u].head + 1]
      BY <1>3, <1>6, <2>3 DEF WriteHead
    <3>2. /\ next \in WriterRecord /\ next.pc = "body" /\ next.at = u /\ next.odd = writer[w].odd
          /\ next.value = writer[w].value
      BY <1>2, <1>3 DEF WriterRecord, WriterPcs
    <3> HIDE DEF next
    <3>3. PICK h \in 0 .. ListMax : h = unit[u].head + 1
      BY SMTT(30), <2>1, <2>3, SectionAssumption
    <3>4. /\ UnitsTyped(unit') /\ unit'[u].gen = unit[u].gen /\ unit'[u].head = h /\ unit'[u].body = unit[u].body
          /\ \A x \in Units \ {u} : unit'[x] = unit[x]
      <4>1. unit' = WithHead(unit, u, h) /\ h \in IF u \in Shots THEN Stamps \cup {NoStamp} ELSE 0 .. ListMax
        BY <1>6, <3>1, <3>3 DEF WithHead
      <4>5. Changed(unit, unit', u, unit[u].gen, h, unit[u].body)
        BY Zenon, <1>3, <1>4, <4>1, SetHead
      <4> QED
        BY Zenon, <4>5 DEF Changed
    <3>5. unit'[u].head = Len(complete'[u]) + 1 /\ \A i \in 1 .. Len(complete'[u]) : unit'[u].body[i] = complete'[u][i]
      BY Zenon, <1>1, <2>1, <3>3, <3>4 DEF ListWhole, Entries
    <3>6. writer'[w] = next => ListProgress(w)'
      BY Zenon, <2>1, <3>2, <3>5 DEF ListProgress, Entries
    <3> QED
      BY Zenon, <1>1, <1>3, <1>6, <3>1, <3>2, <3>4, <3>6, OwnerStep
  <2> QED
    BY <2>2, <2>3
<1> QED
  BY <1>5, <1>6

\* The body: the pixels of a screenshot, or the counted entry of a list.
LEMMA WriteBodyKeeps ==
  ASSUME SectionTypes, WriterInv, NEW w \in Writers, WriteBody(w)
  PROVE  SectionTypes' /\ WriterInv' /\ Grows /\ UNCHANGED copyVars
<1>1. writer[w].pc = "body" /\ issued' = issued /\ complete' = complete
  BY DEF WriteBody, Write
<1>2. writer[w] \in WriterRecord
  BY DEF SectionTypes
<1>3. PICK u \in Units : writer[w].at = u
  BY <1>2 DEF WriterRecord
<1>4. UnitsTyped(unit) /\ Owns(w, u) /\ OwnerInv(w, u)
  BY Zenon, <1>1, <1>3, OwnerFacts
<1>7. PICK value \in Nat : writer[w].value = value
  BY <1>2 DEF WriterRecord
<1>5. CASE u \in Shots
  <2> DEFINE next == [writer[w] EXCEPT !.pc = "head"]
  <2>1. Write(w, "body", next) /\ unit' = [unit EXCEPT ![u].body = value]
    BY <1>3, <1>5, <1>7 DEF WriteBody
  <2>2. /\ next \in WriterRecord /\ next.pc = "head" /\ next.at = u /\ next.odd = writer[w].odd
        /\ next.value = value
    BY <1>2, <1>3, <1>7 DEF WriterRecord, WriterPcs
  <2> HIDE DEF next
  <2>3. /\ UnitsTyped(unit') /\ unit'[u].gen = unit[u].gen /\ unit'[u].body = value
        /\ \A x \in Units \ {u} : unit'[x] = unit[x]
    <3>1. value \in IF u \in Shots THEN Nat ELSE [1 .. ListMax -> Nat]
      BY Zenon, <1>5, <1>7
    <3>2. unit' = WithBody(unit, u, value)
      BY <2>1 DEF WithBody
    <3>5. Changed(unit, unit', u, unit[u].gen, unit[u].head, value)
      BY Zenon, <1>3, <1>4, <3>1, <3>2, SetBody
    <3> QED
      BY Zenon, <3>5 DEF Changed
  <2>4. writer'[w] = next => ShotProgress(w)'
    BY Zenon, <2>2, <2>3 DEF ShotProgress
  <2> QED
    BY Zenon, <1>1, <1>3, <1>5, <2>1, <2>2, <2>3, <2>4, OwnerStep
<1>6. CASE u \notin Shots
  <2> DEFINE next == [writer[w] EXCEPT !.pc = "release"]
  <2>1. Write(w, "body", next) /\ unit' = [unit EXCEPT ![u].body[unit[u].head] = value]
    BY <1>3, <1>6, <1>7 DEF WriteBody
  <2>2. /\ next \in WriterRecord /\ next.pc = "release" /\ next.at = u /\ next.odd = writer[w].odd
        /\ next.value = value
    BY <1>2, <1>3, <1>7 DEF WriterRecord, WriterPcs
  <2> HIDE DEF next
  <2>3. /\ value # 0 /\ unit[u].head = Len(complete[u]) + 1 /\ Entries(u, Len(complete[u]))
        /\ unit[u].head \in 0 .. ListMax /\ unit[u].body \in [1 .. ListMax -> Nat]
    BY Zenon, <1>1, <1>3, <1>4, <1>6, <1>7, UnitFields DEF OwnerInv, ListProgress
  <2>4. complete[u] \in Seq(Nat) /\ Len(complete[u]) \in Nat
    <3>1. u \in Lists
      BY <1>3, <1>6, UnitKinds
    <3>2. complete[u] \in Seq(Nat)
      BY Zenon, <3>1 DEF SectionTypes
    <3> QED
      BY <3>2
  <2>5. PICK b \in [1 .. ListMax -> Nat] : b = [unit[u].body EXCEPT ![unit[u].head] = value]
    BY Zenon, <1>7, <2>3
  <2>6. unit[u].head \in 1 .. ListMax
    BY SMTT(30), <2>3, <2>4, SectionAssumption
  <2>7. /\ UnitsTyped(unit') /\ unit'[u].gen = unit[u].gen /\ unit'[u].head = unit[u].head /\ unit'[u].body = b
        /\ \A x \in Units \ {u} : unit'[x] = unit[x]
    <3>1. unit' = WithBody(unit, u, b)
      BY <1>3, <1>4, <2>1, <2>5 DEF UnitsTyped, WithBody
    <3>2. b \in IF u \in Shots THEN Nat ELSE [1 .. ListMax -> Nat]
      BY Zenon, <1>6, <2>5
    <3>5. Changed(unit, unit', u, unit[u].gen, unit[u].head, b)
      BY Zenon, <1>3, <1>4, <3>1, <3>2, SetBody
    <3> QED
      BY Zenon, <3>5 DEF Changed
  <2>8. /\ unit'[u].head = Len(complete'[u]) + 1
        /\ \A i \in 1 .. Len(complete'[u]) : unit'[u].body[i] = complete'[u][i]
        /\ unit'[u].body[Len(complete'[u]) + 1] = value
    <3>1. PICK n \in Nat : n = Len(complete[u])
      BY <2>4
    <3>2. unit[u].head = n + 1 /\ \A i \in 1 .. n : unit[u].body[i] = complete[u][i]
      BY Zenon, <2>3, <3>1 DEF Entries
    <3>3. b[n + 1] = value /\ \A i \in 1 .. n : b[i] = unit[u].body[i]
      <4>1. PICK body \in [1 .. ListMax -> Nat] : body = unit[u].body
        BY <2>3
      <4>2. n + 1 \in 1 .. ListMax /\ b = [body EXCEPT ![n + 1] = value]
        BY <2>5, <2>6, <3>2, <4>1
      <4>3. b[n + 1] = value
        BY Zenon, <4>1, <4>2
      <4>4. ASSUME NEW i \in 1 .. n PROVE b[i] = body[i]
        <5>1. i \in 1 .. ListMax /\ i # n + 1
          BY SMTT(30), <3>1, <4>2, SectionAssumption
        <5> QED
          BY <4>1, <4>2, <5>1
      <4> QED
        BY <4>1, <4>3, <4>4
    <3> QED
      BY Zenon, <1>1, <2>7, <3>1, <3>2, <3>3
  <2>9. writer'[w] = next => ListProgress(w)'
    BY Zenon, <2>2, <2>3, <2>8 DEF ListProgress, Entries
  <2> QED
    BY Zenon, <1>1, <1>3, <1>6, <2>1, <2>2, <2>7, <2>9, OwnerStep
<1> QED
  BY <1>5, <1>6

\* The release: the unit is whole again, with what the owner wrote.
LEMMA EndKeeps ==
  ASSUME SectionTypes, WriterInv, NEW w \in Writers, EndUpdate(w)
  PROVE  SectionTypes' /\ WriterInv' /\ Grows /\ UNCHANGED copyVars
<1>1. writer[w].pc = "release" /\ issued' = issued
  BY DEF EndUpdate, Write
<1>2. writer[w] \in WriterRecord
  BY DEF SectionTypes
<1>3. PICK u \in Units : writer[w].at = u
  BY <1>2 DEF WriterRecord
<1>4. /\ writer \in [Writers -> WriterRecord] /\ UnitsTyped(unit) /\ \A x \in Units : unit[x].gen \in Nat
      /\ issued \in Nat /\ issued \in 0 .. Updates /\ Owns(w, u) /\ OwnerInv(w, u)
      /\ unit[u].gen = writer[w].odd /\ ~Even(unit[u].gen) /\ unit[u].gen <= 2 * issued
      /\ \A v \in Writers \ {w} : ~Owns(v, u)
  BY <1>1, <1>3, OwnerFacts, Zenon
<1>5. PICK value \in Nat : writer[w].value = value
  BY <1>2 DEF WriterRecord
<1>6. PICK stamp \in Stamps \cup {NoStamp} : writer[w].stamp = stamp
  BY <1>2 DEF WriterRecord
<1>7. PICK g \in Nat : unit[u].gen = g
  BY Zenon, <1>4
<1>8. Following(g) = g + 1 /\ g + 1 <= 2 * issued /\ g + 1 \in Nat
  <2>1. Updates \in Nat /\ Modulus \in Nat /\ 2 * Updates + 1 < Modulus
    BY UpdatesDoNotWrap, SectionAssumption, ModulusAssumption
  <2>2. g + 1 <= 2 * issued
    BY Zenon, <1>4, <1>7, OddBelow
  <2>3. issued \in 0 .. Updates
    BY Zenon, <1>4
  <2> QED
    BY SMTT(30), <2>1, <2>2, <2>3, FollowingIsNext
<1>9. /\ Write(w, "release", [writer[w] EXCEPT !.pc = "idle"])
      /\ unit' = [unit EXCEPT ![u].gen = g + 1]
      /\ complete' = [complete EXCEPT ![u] = IF u \in Shots THEN <<stamp, value>>
                                            ELSE IF value = 0 THEN complete[u] ELSE Append(complete[u], value)]
  BY <1>3, <1>4, <1>5, <1>6, <1>7, <1>8 DEF EndUpdate
<1>10. /\ writer' \in [Writers -> WriterRecord] /\ writer'[w] = Resting
       /\ \A v \in Writers \ {w} : writer'[v] = writer[v]
       /\ UNCHANGED copyVars
  <2> DEFINE next == [writer[w] EXCEPT !.pc = "idle"]
  <2>1. next \in WriterRecord /\ next.pc = "idle" /\ Write(w, "release", next)
    BY <1>2, <1>9 DEF WriterRecord, WriterPcs
  <2> HIDE DEF next
  <2> QED
    <3>1. writer \in [Writers -> WriterRecord]
      BY Zenon DEF SectionTypes
    <3> QED
      <4>1. Moved(w, "release", next)
        BY Zenon, <2>1, <3>1, WriteMoves
      <4> QED
        BY Zenon, <2>1, <4>1 DEF Moved
<1>11. /\ UnitsTyped(unit') /\ unit'[u].gen = g + 1 /\ unit'[u].head = unit[u].head /\ unit'[u].body = unit[u].body
       /\ \A x \in Units \ {u} : unit'[x] = unit[x]
  <2>1. PICK h \in Nat : h = g + 1
    BY <1>8
  <2>2. unit' = WithGen(unit, u, h)
    BY <1>9, <2>1 DEF WithGen
  <2>5. UnitsTyped(unit)
    BY Zenon, <1>4
  <2>3. Changed(unit, unit', u, h, unit[u].head, unit[u].body)
    BY Zenon, <1>3, <2>5, <2>1, <2>2, SetGen
  <2> QED
    BY Zenon, <2>1, <2>3 DEF Changed
<1>12. complete = [x \in Units |-> complete[x]] /\ \A x \in Lists : complete[x] \in Seq(Nat)
  BY Zenon DEF SectionTypes
<1>13. /\ complete'[u] = (IF u \in Shots THEN <<stamp, value>>
                         ELSE IF value = 0 THEN complete[u] ELSE Append(complete[u], value))
       /\ \A x \in Units \ {u} : complete'[x] = complete[x]
       /\ complete' = [x \in Units |-> complete'[x]]
  BY Zenon, <1>3, <1>9, <1>12
<1>14. ASSUME NEW x \in Lists PROVE complete'[x] \in Seq(Nat)
  <2>1. x \in Units /\ x \notin Shots
    BY UnitKinds DEF Units
  <2>2. CASE x = u
    <3>3. PICK list \in Seq(Nat) : list = complete[u]
      BY Zenon, <1>12, <2>2
    <3>4. Append(list, value) \in Seq(Nat)
      BY <1>5, <3>3
    <3>1. complete[u] \in Seq(Nat) /\ Append(complete[u], value) \in Seq(Nat)
      BY <3>3, <3>4
    <3>2. complete'[u] = IF value = 0 THEN complete[u] ELSE Append(complete[u], value)
      BY <1>13, <2>1, <2>2
    <3> QED
      BY <2>2, <3>1, <3>2
  <2>3. CASE x # u
    BY Zenon, <1>12, <1>13, <2>1, <2>3
  <2> QED
    BY <2>2, <2>3
<1>15. SectionTypes'
  BY Zenon, <1>1, <1>4, <1>10, <1>11, <1>13, <1>14 DEF SectionTypes, copyVars, UnitsTyped
<1>16. ClaimBound(w)' /\ \A x \in Units : ~Owns(w, x)' /\ OwnerInv(w, x)'
  <2>1. writer'[w].pc = "idle"
    <3>1. Resting.pc = "idle"
      BY DEF Resting
    <3> QED
      BY Zenon, <1>10, <3>1
  <2> QED
    BY Zenon, <2>1 DEF ClaimBound, OwnerInv, Owns
<1>17. UnitWhole(u)'
  <2>1. CASE u \in Shots
    <3>1. unit[u].body = value /\ unit[u].head = stamp
      BY Zenon, <1>1, <1>3, <1>4, <1>5, <1>6, <2>1 DEF OwnerInv, ShotProgress
    <3> QED
      BY <1>11, <1>13, <2>1, <3>1 DEF UnitWhole
  <2>2. CASE u \notin Shots /\ value = 0
    <3>1. ListWhole(u)
      BY Zenon, <1>1, <1>3, <1>4, <1>5, <2>2 DEF OwnerInv, ListProgress
    <3> QED
      BY <1>11, <1>13, <2>2, <3>1 DEF UnitWhole, ListWhole, Entries
  <2>3. CASE u \notin Shots /\ value # 0
    <3>1. PICK list \in Seq(Nat) : list = complete[u]
      BY Zenon, <1>3, <1>12, <2>3, UnitKinds
    <3>2. /\ unit[u].head = Len(list) + 1 /\ unit[u].body[Len(list) + 1] = value
          /\ \A i \in 1 .. Len(list) : unit[u].body[i] = list[i]
      BY Zenon, <1>1, <1>3, <1>4, <1>5, <2>3, <3>1 DEF OwnerInv, ListProgress, Entries
    <3>3. complete'[u] = Append(list, value)
      BY <1>13, <2>3, <3>1
    <3>4. /\ Len(list) \in Nat /\ Len(Append(list, value)) = Len(list) + 1
          /\ Append(list, value)[Len(list) + 1] = value
          /\ \A i \in 1 .. Len(list) : Append(list, value)[i] = list[i]
      BY Zenon, <1>5, <3>1, Appended
    <3>5. ASSUME NEW i \in 1 .. Len(list) + 1 PROVE unit[u].body[i] = Append(list, value)[i]
      <4>1. i \in 1 .. Len(list) \/ i = Len(list) + 1
        BY <3>4
      <4> QED
        BY Zenon, <3>2, <3>4, <4>1
    <3> QED
      BY ZenonT(30), <1>11, <2>3, <3>2, <3>3, <3>4, <3>5 DEF UnitWhole, ListWhole, Entries
  <2> QED
    BY <2>1, <2>2, <2>3
<1>18. ASSUME NEW x \in Units PROVE Quiet(x)'
  <2>1. CASE x = u
    BY <1>1, <1>8, <1>11, <1>17, <2>1 DEF Quiet
  <2>2. CASE x # u
    <3>1. unit'[x] = unit[x] /\ complete'[x] = complete[x]
      BY Zenon, <1>11, <1>13, <2>2
    <3>2. issued' = issued /\ Quiet(x)
      BY Zenon, <1>1, <1>4 DEF WriterInv
    <3> QED
      BY Zenon, <3>1, <3>2, QuietFrame
  <2> QED
    BY <2>1, <2>2
<1>19. \A v \in Writers \ {w} : \A x \in Units :
         Owns(v, x) => unit'[x] = unit[x] /\ complete'[x] = complete[x] /\ ~Owns(w, x)'
  BY <1>4, <1>11, <1>13, <1>16
<1>20. issued' \in Nat /\ issued <= issued'
  BY Zenon, <1>1, <1>4, NextNumber
<1>21. WriterInv'
  BY Zenon, <1>10, <1>16, <1>18, <1>19, <1>20, LocalStep
<1>22. Grows
  <2> SUFFICES ASSUME NEW x \in Units
               PROVE  /\ unit'[x].gen \in Nat /\ unit[x].gen <= unit'[x].gen
                      /\ Even(unit[x].gen) /\ unit'[x].gen = unit[x].gen =>
                            unit'[x].head = unit[x].head /\ unit'[x].body = unit[x].body
    BY Zenon DEF Grows
  <2>1. CASE x = u
    <3>1. unit[x].gen = g /\ unit'[x].gen = g + 1
      BY Zenon, <1>7, <1>11, <2>1
    <3> QED
      BY Zenon, <3>1, NextNumber
  <2>2. CASE x # u
    <3>1. unit'[x] = unit[x] /\ unit[x].gen \in Nat
      BY Zenon, <1>4, <1>11, <2>2
    <3> QED
      BY Zenon, <3>1, NextNumber
  <2> QED
    BY Zenon, <2>1, <2>2
<1> QED
  BY <1>10, <1>15, <1>21, <1>22

-----------------------------------------------------------------------------
(* Steps of the reader.                                                    *)

\* The units of a new region.
LEMMA BlankTyped == UnitsTyped(Blank)
<1>1. 0 \in 0 .. ListMax /\ [i \in 1 .. ListMax |-> 0] \in [1 .. ListMax -> Nat]
  BY SectionAssumption
<1>2. Blank = [u \in Units |-> Blank[u]]
  BY Zenon DEF Blank
<1>3. ASSUME NEW u \in Shots PROVE Blank[u] \in SlotRecord
  BY Zenon DEF Blank, SlotRecord, Units
<1>4. ASSUME NEW u \in Lists PROVE Blank[u] \in ListRecord
  <2>1. u \in Units /\ u \notin Shots
    BY UnitKinds DEF Units
  <2> QED
    BY Zenon, <1>1, <2>1 DEF Blank, ListRecord
<1> QED
  BY <1>2, <1>3, <1>4 DEF UnitsTyped

\* The initial region.
LEMMA SectionInitInv ==
  SectionInit => SectionInv
<1> SUFFICES ASSUME SectionInit PROVE SectionInv
  OBVIOUS
<1>1. 0 \in 0 .. ListMax /\ [i \in 1 .. ListMax |-> 0] \in [1 .. ListMax -> Nat] /\ 0 \in 0 .. Updates /\ Updates \in Nat
  BY SectionAssumption
<1>2. UnitsTyped(Blank)
  BY BlankTyped
<1>3. Resting \in WriterRecord
  BY DEF Resting, WriterRecord, WriterPcs, Units, Lists
<1>4. \A u \in Units : /\ unit[u].gen = 0 /\ opening[u] = 0 /\ complete[u] = <<>>
                       /\ u \notin Shots => unit[u].head = 0
  BY Zenon DEF SectionInit, Blank
<1>5. SectionTypes
  <2>1. UnitsTyped(unit) /\ UnitsTyped(owned)
    BY <1>2 DEF SectionInit
  <2>2. writer \in [Writers -> WriterRecord] /\ issued \in 0 .. Updates
    BY <1>1, <1>3 DEF SectionInit
  <2>3. opening \in [Units -> Nat] /\ closing \in [Units -> Nat]
    BY DEF SectionInit
  <2>4. /\ complete = [u \in Units |-> complete[u]] /\ witnessed = [u \in Units |-> witnessed[u]]
        /\ \A u \in Lists : complete[u] \in Seq(Nat) /\ witnessed[u] \in Seq(Nat)
    BY DEF SectionInit, Units
  <2> QED
    BY Zenon, <2>1, <2>2, <2>3, <2>4 DEF SectionTypes
<1>6. WriterInv
  <2>1. ASSUME NEW w \in Writers PROVE ClaimBound(w) /\ \A u \in Units : ~Owns(w, u) /\ OwnerInv(w, u)
    BY Zenon DEF SectionInit, Resting, ClaimBound, OwnerInv, Owns
  <2>2. ASSUME NEW u \in Units PROVE Quiet(u)
    <3>1. unit[u].gen <= 2 * issued
      BY SMTT(30), <1>4 DEF SectionInit
    <3>2. UnitWhole(u)
      <4>1. CASE u \in Shots
        BY Zenon, <1>4, <4>1 DEF UnitWhole
      <4>2. CASE u \notin Shots
        BY Zenon, <1>4, <4>2, NoEntries DEF UnitWhole, ListWhole, Entries
      <4> QED
        BY Zenon, <4>1, <4>2
    <3> QED
      BY <3>1, <3>2 DEF Quiet
  <2> QED
    BY <2>1, <2>2 DEF WriterInv
<1>7. look = 1 /\ outcome = "none"
  BY DEF SectionInit
<1>8. ReaderInv
  <2>1. \A u \in Units : \A phase : ~Taken(phase, u)
    <3>1. \A j \in 1 .. look - 1 : FALSE
      BY <1>7
    <3> QED
      BY Zenon, <3>1 DEF Taken
  <2>2. look \in 1 .. Len(SectionSteps) + 1
    BY SMTT(30), <1>7, StepOrder
  <2>3. ASSUME NEW u \in Units PROVE opening[u] <= unit[u].gen
    <3>1. opening[u] = 0 /\ unit[u].gen = 0
      BY Zenon, <1>4
    <3> QED
      BY <3>1
  <2> QED
    BY Zenon, <2>1, <2>2, <2>3 DEF ReaderInv, ReaderUnit
<1> QED
  BY Zenon, <1>5, <1>6, <1>7, <1>8 DEF SectionInv, SectionsAreWholeOrEmpty

\* A step of the copy adds one element to the steps taken.
LEMMA TakenNext ==
  ASSUME look \in Nat \ {0}, look' = look + 1, NEW phase, NEW u
  PROVE  Taken(phase, u)' <=> Taken(phase, u) \/ SectionSteps[look] = <<phase, u>>
<1>1. 1 .. look' - 1 = (1 .. look - 1) \cup {look}
  OBVIOUS
<1> QED
  BY Zenon, <1>1 DEF Taken

\* The reader's steps leave the writers.
LEMMA WriterFrame ==
  ASSUME WriterInv, UNCHANGED <<unit, writer, issued, complete>>
  PROVE  WriterInv'
<1>1. ASSUME NEW w \in Writers PROVE ClaimBound(w)' <=> ClaimBound(w)
  BY DEF ClaimBound
<1>2. ASSUME NEW w \in Writers, NEW u \in Units PROVE (Owns(w, u)' <=> Owns(w, u)) /\ (OwnerInv(w, u)' <=> OwnerInv(w, u))
  <2>1. Owns(w, u)' <=> Owns(w, u)
    BY DEF Owns
  <2>2. ShotProgress(w)' <=> ShotProgress(w)
    BY DEF ShotProgress
  <2>3. ListProgress(w)' <=> ListProgress(w)
    BY Zenon DEF ListProgress, ListWhole, Entries
  <2> QED
    BY Zenon, <2>1, <2>2, <2>3 DEF OwnerInv
<1>3. ASSUME NEW u \in Units PROVE Quiet(u)' <=> Quiet(u)
  BY Zenon DEF Quiet, UnitWhole, ListWhole, Entries
<1> QED
  BY <1>1, <1>2, <1>3 DEF WriterInv

\* One load or one copied range.
LEMMA CopyKeeps ==
  ASSUME SectionTypes, WriterInv, ReaderInv, CopySection
  PROVE  SectionTypes' /\ WriterInv' /\ ReaderInv'
<1> DEFINE N == Len(SectionSteps)
<1>1. /\ look \in 1 .. N /\ N \in Nat /\ look' = look + 1 /\ look \in Nat \ {0} /\ look' \in 1 .. N + 1
  BY SMTT(30), StepOrder DEF ReaderInv, CopySection
<1>2. unit' = unit /\ writer' = writer /\ issued' = issued /\ policy' = policy /\ complete' = complete
  BY DEF CopySection
<1>3. PICK u \in Units, phase \in {"opening", "head", "body", "closing"} :
        /\ SectionSteps[look] = <<phase, u>>
        /\ phase = "opening" => look <= LastOpening
        /\ phase \in {"head", "body"} => LastOpening < look /\ look <= LastCopy
        /\ phase = "closing" => LastCopy < look
  <2>1. look \in 1 .. LastCopy + LastOpening /\ LastCopy \in Nat /\ LastOpening \in Nat
    BY <1>1, StepOrder
  <2>2. SectionSteps[look][2] \in Units /\ SectionSteps[look] = <<SectionSteps[look][1], SectionSteps[look][2]>>
    BY <2>1, StepOrder
  <2>3. /\ look <= LastOpening => SectionSteps[look][1] = "opening"
        /\ LastOpening < look /\ look <= LastCopy => SectionSteps[look][1] \in {"head", "body"}
        /\ LastCopy < look => SectionSteps[look][1] = "closing"
    BY <2>1, StepOrder
  <2> QED
    BY <2>1, <2>2, <2>3
<1>4. WriterInv'
  BY <1>2, WriterFrame
<1>5. ASSUME NEW x \in Units, NEW ph
      PROVE  Taken(ph, x)' <=> Taken(ph, x) \/ (ph = phase /\ x = u)
  BY <1>1, <1>3, TakenNext
<1>6. UnitsTyped(unit) /\ UnitsTyped(owned)
  BY DEF SectionTypes
<1>7. /\ opening \in [Units -> Nat] /\ closing \in [Units -> Nat]
      /\ witnessed = [x \in Units |-> witnessed[x]]
      /\ \A x \in Lists : complete[x] \in Seq(Nat) /\ witnessed[x] \in Seq(Nat)
  BY Zenon DEF SectionTypes
<1>8. unit[u].gen \in Nat
  BY Zenon, <1>3, <1>6, UnitFields
<1>9. \A x \in Units : Allowed(x)' <=> Allowed(x)
  BY <1>2 DEF Allowed
<1>10. ASSUME NEW x \in Units, ~Taken("head", x)' \/ Taken("head", x), ~Taken("body", x)' \/ Taken("body", x),
              ~Taken("closing", x)' \/ Taken("closing", x),
              opening'[x] = opening[x], closing'[x] = closing[x], owned'[x] = owned[x], witnessed'[x] = witnessed[x]
       PROVE  ReaderUnit(x)'
  <2>1. ReaderUnit(x)
    BY DEF ReaderInv
  <2>2. (Unmoved(x)' <=> Unmoved(x)) /\ (CopyWhole(x)' <=> CopyWhole(x))
    BY Zenon, <1>2, <1>10 DEF Unmoved, CopyWhole
  <2> QED
    BY Zenon, <1>2, <1>9, <1>10, <2>1, <2>2 DEF ReaderUnit
<1>11. CASE ~Allowed(u)
  <2>1. opening' = opening /\ owned' = owned /\ closing' = closing /\ witnessed' = witnessed
    BY <1>3, <1>11 DEF CopySection
  <2>2. SectionTypes'
    BY Zenon, <1>2, <2>1 DEF SectionTypes, UnitsTyped
  <2>3. ASSUME NEW x \in Units, x # u PROVE ReaderUnit(x)'
    BY <1>5, <1>10, <2>1, <2>3
  <2>4. ReaderUnit(u)'
    BY Zenon, <1>2, <1>3, <1>9, <1>11, <2>1 DEF ReaderInv, ReaderUnit
  <2> QED
    BY <1>1, <1>4, <2>2, <2>3, <2>4 DEF ReaderInv
<1>12. CASE Allowed(u) /\ phase = "opening"
  <2>1. opening' = [opening EXCEPT ![u] = unit[u].gen] /\ owned' = owned /\ closing' = closing /\ witnessed' = witnessed
    BY <1>3, <1>12 DEF CopySection
  <2>2. /\ opening' \in [Units -> Nat] /\ opening'[u] = unit[u].gen
        /\ \A x \in Units \ {u} : opening'[x] = opening[x]
    BY <1>3, <1>7, <1>8, <2>1
  <2>3. SectionTypes'
    BY Zenon, <1>2, <2>1, <2>2 DEF SectionTypes, UnitsTyped
  <2>4. ASSUME NEW x \in Units, x # u PROVE ReaderUnit(x)'
    BY Zenon, <1>5, <1>10, <2>1, <2>2, <2>4
  <2>5. ~Taken("head", u)' /\ ~Taken("body", u)' /\ ~Taken("closing", u)'
    <3>1. ASSUME NEW j \in 1 .. look PROVE SectionSteps[j][1] = "opening"
      BY <1>1, <1>3, <1>12, StepOrder
    <3> QED
      BY <1>1, <3>1 DEF Taken
  <2>6. ReaderUnit(u)'
    <3>1. opening'[u] <= unit'[u].gen
      BY <1>2, <1>8, <2>2
    <3> QED
      BY Zenon, <2>5, <3>1 DEF ReaderUnit
  <2> QED
    BY <1>1, <1>4, <2>3, <2>4, <2>6 DEF ReaderInv
<1>13. ASSUME phase \in {"head", "body"} PROVE ~Taken("closing", u)'
  <2>1. ASSUME NEW j \in 1 .. look PROVE SectionSteps[j][1] # "closing"
    <3>1. j \in 1 .. LastCopy + LastOpening /\ j <= LastCopy
      BY <1>1, <1>3, <1>13, StepOrder
    <3>2. j <= LastOpening => SectionSteps[j][1] = "opening"
      BY Zenon, <3>1, StepOrder
    <3>3. LastOpening < j /\ j <= LastCopy => SectionSteps[j][1] \in {"head", "body"}
      BY <3>1, StepOrder
    <3> QED
      BY SMTT(30), <3>1, <3>2, <3>3, StepOrder
  <2> QED
    BY <1>1, <2>1 DEF Taken
<1>14. CASE Allowed(u) /\ phase = "head"
  <2>1. opening' = opening /\ owned' = [owned EXCEPT ![u].head = unit[u].head] /\ closing' = closing /\ witnessed' = witnessed
    BY <1>3, <1>14 DEF CopySection
  <2>2. PICK h : h = unit[u].head
    OBVIOUS
  <2>3. h \in IF u \in Shots THEN Stamps \cup {NoStamp} ELSE 0 .. ListMax
    BY Zenon, <1>3, <1>6, <2>2, UnitFields
  <2>4. owned' = WithHead(owned, u, h)
    BY <2>1, <2>2 DEF WithHead
  <2>10. Changed(owned, owned', u, owned[u].gen, h, owned[u].body)
    BY Zenon, <1>3, <1>6, <2>3, <2>4, SetHead
  <2>5. UnitsTyped(owned')
    BY Zenon, <2>10 DEF Changed
  <2>6. /\ owned'[u].head = h /\ owned'[u].body = owned[u].body
        /\ \A x \in Units \ {u} : owned'[x] = owned[x]
    BY Zenon, <2>10 DEF Changed
  <2>7. SectionTypes'
    BY Zenon, <1>2, <2>1, <2>5 DEF SectionTypes, UnitsTyped
  <2>8. ASSUME NEW x \in Units, x # u PROVE ReaderUnit(x)'
    BY <1>5, <1>10, <2>1, <2>6, <2>8
  <2>9. ReaderUnit(u)'
    <3>1. ReaderUnit(u) /\ (Taken("body", u)' <=> Taken("body", u)) /\ (Unmoved(u)' <=> Unmoved(u))
      BY <1>2, <1>3, <1>5, <1>14, <2>1 DEF ReaderInv, Unmoved
    <3> QED
      BY <1>2, <1>9, <1>13, <1>14, <2>1, <2>2, <2>6, <3>1 DEF ReaderUnit
  <2> QED
    BY <1>1, <1>4, <2>7, <2>8, <2>9 DEF ReaderInv
<1>15. CASE Allowed(u) /\ phase = "body"
  <2>1. opening' = opening /\ owned' = [owned EXCEPT ![u].body = unit[u].body] /\ closing' = closing /\ witnessed' = witnessed
    BY <1>3, <1>15 DEF CopySection
  <2>2. PICK b : b = unit[u].body
    OBVIOUS
  <2>3. b \in IF u \in Shots THEN Nat ELSE [1 .. ListMax -> Nat]
    BY <1>3, <1>6, <2>2, UnitFields
  <2>4. owned' = WithBody(owned, u, b)
    BY <2>1, <2>2 DEF WithBody
  <2>10. Changed(owned, owned', u, owned[u].gen, owned[u].head, b)
    BY Zenon, <1>3, <1>6, <2>3, <2>4, SetBody
  <2>5. UnitsTyped(owned')
    BY Zenon, <2>10 DEF Changed
  <2>6. /\ owned'[u].head = owned[u].head /\ owned'[u].body = b
        /\ \A x \in Units \ {u} : owned'[x] = owned[x]
    BY Zenon, <2>10 DEF Changed
  <2>7. SectionTypes'
    BY Zenon, <1>2, <2>1, <2>5 DEF SectionTypes, UnitsTyped
  <2>8. ASSUME NEW x \in Units, x # u PROVE ReaderUnit(x)'
    BY <1>5, <1>10, <2>1, <2>6, <2>8
  <2>9. ReaderUnit(u)'
    <3>1. ReaderUnit(u) /\ (Taken("head", u)' <=> Taken("head", u)) /\ (Unmoved(u)' <=> Unmoved(u))
      BY <1>2, <1>3, <1>5, <1>15, <2>1 DEF ReaderInv, Unmoved
    <3> QED
      BY <1>2, <1>9, <1>13, <1>15, <2>1, <2>2, <2>6, <3>1 DEF ReaderUnit
  <2> QED
    BY <1>1, <1>4, <2>7, <2>8, <2>9 DEF ReaderInv
<1>16. CASE Allowed(u) /\ phase = "closing"
  <2>1. /\ opening' = opening /\ owned' = owned
        /\ closing' = [closing EXCEPT ![u] = unit[u].gen] /\ witnessed' = [witnessed EXCEPT ![u] = complete[u]]
    BY <1>3, <1>16 DEF CopySection
  <2>2. /\ closing' \in [Units -> Nat] /\ closing'[u] = unit[u].gen
        /\ \A x \in Units \ {u} : closing'[x] = closing[x]
    BY <1>3, <1>7, <1>8, <2>1
  <2>3. /\ witnessed' = [x \in Units |-> witnessed'[x]] /\ witnessed'[u] = complete[u]
        /\ \A x \in Units \ {u} : witnessed'[x] = witnessed[x]
    BY Zenon, <1>3, <1>7, <2>1
  <2>4. \A x \in Lists : witnessed'[x] \in Seq(Nat)
    BY Zenon, <1>7, <2>3 DEF Units
  <2>5. SectionTypes'
    BY Zenon, <1>2, <2>1, <2>2, <2>3, <2>4 DEF SectionTypes, UnitsTyped
  <2>6. ASSUME NEW x \in Units, x # u PROVE ReaderUnit(x)'
    BY <1>5, <1>10, <2>1, <2>2, <2>3, <2>6
  <2>7. Taken("head", u) /\ Taken("body", u)
    <3>1. \A j \in 1 .. LastCopy : j \in 1 .. look - 1
      <4>1. LastCopy < look /\ look \in Nat
        BY Zenon, <1>1, <1>3, <1>16
      <4> QED
        BY Zenon, <4>1, StepOrder, Passed
    <3> QED
      BY Zenon, <1>3, <3>1, StepOrder DEF Taken
  <2>8. ReaderUnit(u) /\ (Taken("head", u)' <=> Taken("head", u)) /\ (Taken("body", u)' <=> Taken("body", u))
        /\ (Unmoved(u)' <=> Unmoved(u))
    <3>1. ReaderUnit(u)
      BY Zenon, <1>3 DEF ReaderInv
    <3>2. (Taken("head", u)' <=> Taken("head", u)) /\ (Taken("body", u)' <=> Taken("body", u))
      <4>1. "head" # phase /\ "body" # phase
        BY Zenon, <1>16
      <4> QED
        BY Zenon, <1>3, <1>5, <4>1
    <3>3. Unmoved(u)' <=> Unmoved(u)
      BY Zenon, <1>2, <2>1 DEF Unmoved
    <3> QED
      BY Zenon, <3>1, <3>2, <3>3
  <2>9. ASSUME Stable(opening[u], unit[u].gen) PROVE CopyWhole(u)'
    <3>1. Unmoved(u) /\ Even(unit[u].gen)
      BY <2>9 DEF Stable, Unmoved
    <3>2. owned[u].head = unit[u].head /\ owned[u].body = unit[u].body
      BY Zenon, <1>16, <2>7, <2>8, <3>1 DEF ReaderUnit
    <3>3. UnitWhole(u)
      BY Zenon, <1>3, <3>1 DEF WriterInv, Quiet
    <3> QED
      BY Zenon, <2>1, <2>3, <3>1, <3>2, <3>3 DEF CopyWhole, UnitWhole, ListWhole, Entries, Unmoved
  <2>10. ReaderUnit(u)'
    BY Zenon, <1>2, <1>9, <1>16, <2>1, <2>2, <2>8, <2>9 DEF ReaderUnit
  <2> QED
    BY <1>1, <1>4, <2>5, <2>6, <2>10 DEF ReaderInv
<1> QED
  BY Zenon, <1>3, <1>11, <1>12, <1>14, <1>15, <1>16

\* What the sanitized copy of a unit is: the copy, or the zeroed unit.
LEMMA SanitizedFacts ==
  ASSUME SectionTypes, NEW u \in Units
  PROVE  /\ Allowed(u) /\ Stable(opening[u], closing[u]) =>
               /\ Sanitized(u).gen = closing[u]
               /\ Sanitized(u).head = owned[u].head /\ Sanitized(u).body = owned[u].body
         /\ ~(Allowed(u) /\ Stable(opening[u], closing[u])) =>
               /\ Sanitized(u).gen = 0
               /\ u \in Lists => Sanitized(u).head = 0
         /\ u \in Shots => Sanitized(u) \in SlotRecord
         /\ u \in Lists => Sanitized(u) \in ListRecord
<1>1. /\ u \in Shots => owned[u] \in SlotRecord
      /\ u \in Lists => owned[u] \in ListRecord
      /\ u \in Lists <=> u \notin Shots
      /\ closing[u] \in Nat
  BY Zenon, UnitKinds DEF SectionTypes, UnitsTyped
<1>2. CASE Allowed(u) /\ Stable(opening[u], closing[u])
  <2>1. Sanitized(u) = [owned[u] EXCEPT !.gen = closing[u]]
    BY <1>2 DEF Sanitized
  <2>2. CASE u \in Shots
    BY <1>1, <1>2, <2>1, <2>2 DEF SlotRecord
  <2>3. CASE u \in Lists
    BY <1>1, <1>2, <2>1, <2>3 DEF ListRecord
  <2> QED
    BY Zenon, <1>1, <2>2, <2>3
<1>3. CASE ~(Allowed(u) /\ Stable(opening[u], closing[u]))
  <2>1. Sanitized(u) = Blank[u]
    BY <1>3 DEF Sanitized
  <2>4. Blank[u].gen = 0 /\ (u \notin Shots => Blank[u].head = 0)
    BY Zenon DEF Blank
  <2>2. CASE u \in Shots
    BY Zenon, <1>1, <1>3, <2>1, <2>2, <2>4, BlankTyped DEF UnitsTyped
  <2>3. CASE u \in Lists
    BY Zenon, <1>1, <1>3, <2>1, <2>3, <2>4, BlankTyped DEF UnitsTyped
  <2> QED
    BY Zenon, <1>1, <2>2, <2>3
<1> QED
  BY Zenon, <1>2, <1>3

\* FinishSnapshot: every closing generation was loaded, so a unit that stays
\* is the one CopyWhole speaks of.
LEMMA FinishKeeps ==
  ASSUME SectionInv, FinishSnapshot
  PROVE  SectionInv'
<1>1. SectionTypes /\ ReaderInv /\ WriterInv
  BY DEF SectionInv, FinishSnapshot
<1>2. /\ UNCHANGED <<unit, writer, issued, policy, look, opening, closing, complete, witnessed>>
      /\ owned' = [u \in Units |-> Sanitized(u)] /\ outcome' # "none" /\ look > Len(SectionSteps)
  BY DEF FinishSnapshot
<1>3. WriterInv'
  BY <1>1, <1>2, WriterFrame
<1>4. \A u \in Units : owned'[u] = Sanitized(u)
  BY <1>2
<1>5. UnitsTyped(owned')
  BY Zenon, <1>1, <1>2, <1>4, SanitizedFacts DEF UnitsTyped, Units
<1>6. SectionTypes'
  BY Zenon, <1>1, <1>2, <1>5 DEF SectionTypes, UnitsTyped
<1>7. ASSUME NEW u \in Units, Allowed(u), Stable(opening[u], closing[u]) PROVE CopyWhole(u)
  <2>1. Taken("closing", u)
    <3>1. PICK i \in 1 .. LastCopy + LastOpening : SectionSteps[i] = <<"closing", u>>
      BY Zenon, StepOrder
    <3>2. i \in 1 .. look - 1
      <4>1. look \in Nat
        BY <1>1, StepOrder DEF ReaderInv
      <4>2. LastCopy + LastOpening \in Nat
        BY StepOrder
      <4>3. look > LastCopy + LastOpening
        BY Zenon, <1>2, StepOrder
      <4> QED
        BY Zenon, <3>1, <4>1, <4>2, <4>3, Passed
    <3> QED
      BY <3>1, <3>2 DEF Taken
  <2> QED
    BY Zenon, <1>1, <1>7, <2>1 DEF ReaderInv, ReaderUnit
<1>8. ASSUME NEW u \in Lists PROVE ReadList(u)' \in {<<>>, IF Allowed(u) THEN witnessed[u] ELSE <<>>}
  <2>0. u \in Units /\ u \notin Shots
    BY UnitKinds DEF Units
  <2>1. CASE Allowed(u) /\ Stable(opening[u], closing[u])
    <3>1. CopyWhole(u)
      BY Zenon, <1>7, <2>0, <2>1
    <3>2. PICK list \in Seq(Nat) : list = witnessed[u]
      BY Zenon, <1>1 DEF SectionTypes
    <3>3. owned'[u].head = Len(list) /\ \A i \in 1 .. Len(list) : owned'[u].body[i] = list[i]
      <4>1. owned'[u].head = owned[u].head /\ owned'[u].body = owned[u].body
        BY Zenon, <1>1, <1>4, <2>0, <2>1, SanitizedFacts
      <4>2. owned[u].head = Len(list) /\ \A i \in 1 .. Len(list) : owned[u].body[i] = list[i]
        BY Zenon, <2>0, <3>1, <3>2 DEF CopyWhole
      <4> QED
        BY Zenon, <4>1, <4>2
    <3>4. [i \in 1 .. Len(list) |-> owned'[u].body[i]] = list
      BY <3>3
    <3> QED
      BY Zenon, <1>2, <2>1, <3>2, <3>3, <3>4 DEF ReadList
  <2>2. CASE ~(Allowed(u) /\ Stable(opening[u], closing[u]))
    <3>1. owned'[u].head = 0
      BY Zenon, <1>1, <1>4, <2>0, <2>2, SanitizedFacts
    <3>2. [i \in 1 .. 0 |-> owned'[u].body[i]] = <<>>
      OBVIOUS
    <3> QED
      BY Zenon, <3>1, <3>2, SectionAssumption DEF ReadList
  <2> QED
    BY Zenon, <2>1, <2>2
<1>9. ASSUME NEW i \in 1 .. Len(ShotSeq), owned'[ShotSeq[i]].gen # 0
      PROVE  Allowed(ShotSeq[i]) /\ <<owned'[ShotSeq[i]].head, owned'[ShotSeq[i]].body>> = witnessed[ShotSeq[i]]
  <2>1. PICK u \in Shots : u = ShotSeq[i]
    BY DEF Shots
  <2>2. u \in Units
    BY <2>1 DEF Units
  <2>3. Allowed(u) /\ Stable(opening[u], closing[u])
    BY Zenon, <1>1, <1>4, <1>9, <2>1, <2>2, SanitizedFacts
  <2>4. /\ owned'[u].gen = closing[u]
        /\ owned'[u].head = owned[u].head /\ owned'[u].body = owned[u].body
    BY Zenon, <1>1, <1>4, <2>2, <2>3, SanitizedFacts
  <2>5. opening[u] # 0
    BY <1>9, <2>1, <2>3, <2>4 DEF Stable
  <2> QED
    BY Zenon, <1>7, <2>1, <2>2, <2>3, <2>4, <2>5 DEF CopyWhole
<1>10. SectionsAreWholeOrEmpty'
  <2>1. \A u \in Units : Allowed(u)' <=> Allowed(u)
    BY <1>2 DEF Allowed
  <2>2. \A u \in Lists : (ReadList(u) \in {<<>>, IF Allowed(u) THEN witnessed[u] ELSE <<>>})'
    BY <1>2, <1>8, <2>1, Zenon DEF Units
  <2>3. ASSUME NEW i \in Candidates'
        PROVE (Allowed(ShotSeq[i]) /\ <<owned[ShotSeq[i]].head, owned[ShotSeq[i]].body>> = witnessed[ShotSeq[i]])'
    BY Zenon, <1>2, <1>9, <2>3 DEF Candidates, Allowed
  <2> QED
    BY <2>2, <2>3 DEF SectionsAreWholeOrEmpty
<1> QED
  BY <1>2, <1>3, <1>6, <1>10 DEF SectionInv

\* SnapshotDeadline drops the copy.
LEMMA DeadlineKeeps ==
  ASSUME SectionInv, SnapshotDeadline
  PROVE  SectionInv'
<1>1. /\ UNCHANGED <<unit, writer, issued, complete, witnessed>>
      /\ owned' = Blank /\ opening' = [u \in Units |-> 0] /\ closing' = [u \in Units |-> 0]
      /\ outcome' = "deadline"
  BY DEF SnapshotDeadline
<1>2. WriterInv'
  BY <1>1, WriterFrame DEF SectionInv
<1>3. UnitsTyped(Blank)
  BY BlankTyped
<1>4. opening' \in [Units -> Nat] /\ closing' \in [Units -> Nat]
  BY <1>1
<1>5. SectionTypes'
  BY Zenon, <1>1, <1>3, <1>4 DEF SectionInv, SectionTypes, UnitsTyped
<1> QED
  BY Zenon, <1>1, <1>2, <1>5 DEF SectionInv, SectionsAreWholeOrEmpty

\* The reader's and the writers' steps keep the invariant.
LEMMA SectionStepInv ==
  ASSUME SectionInv, [SectionNext]_sectionVars
  PROVE  SectionInv'
<1>1. ASSUME NEW w \in Writers, outcome = "none", WriterStep(w) PROVE SectionInv'
  <2>1. SectionTypes /\ WriterInv /\ ReaderInv
    BY <1>1 DEF SectionInv
  <2>2. SectionTypes' /\ WriterInv' /\ Grows /\ UNCHANGED copyVars
    BY <1>1, <2>1, BeginKeeps, ClaimKeeps, WriteHeadKeeps, WriteBodyKeeps, EndKeeps, Zenon DEF WriterStep
  <2>3. ReaderInv'
    BY <2>1, <2>2, WriterKeepsReader, Zenon
  <2>4. outcome' = "none"
    BY <1>1, <2>2 DEF copyVars
  <2> QED
    BY Zenon, <2>2, <2>3, <2>4 DEF SectionInv, SectionsAreWholeOrEmpty
<1>3. ASSUME CopySection PROVE SectionInv'
  <2>1. SectionTypes /\ WriterInv /\ ReaderInv /\ outcome' = "none"
    BY <1>3 DEF SectionInv, CopySection
  <2>2. SectionTypes' /\ WriterInv' /\ ReaderInv'
    BY <1>3, <2>1, CopyKeeps, Zenon
  <2> QED
    BY <2>1, <2>2, Zenon DEF SectionInv, SectionsAreWholeOrEmpty
<1>2. CASE UNCHANGED sectionVars
  <2>1. UNCHANGED <<unit, writer, issued, complete>>
    BY <1>2 DEF sectionVars
  <2>2. WriterInv'
    BY <2>1, WriterFrame DEF SectionInv
  <2>3. SectionTypes'
    BY Zenon, <1>2 DEF SectionInv, SectionTypes, UnitsTyped, sectionVars
  <2>4. ASSUME NEW u \in Units PROVE ReaderUnit(u)' <=> ReaderUnit(u)
    BY Zenon, <1>2 DEF ReaderUnit, Allowed, Taken, Unmoved, CopyWhole, sectionVars
  <2>5. (outcome = "none" => ReaderInv)'
    BY <1>2, <2>4 DEF SectionInv, ReaderInv, sectionVars
  <2>6. SectionsAreWholeOrEmpty'
    <3>1. UNCHANGED <<owned, outcome, witnessed, policy>>
      BY <1>2 DEF sectionVars
    <3>2. \A u \in Units : Allowed(u)' <=> Allowed(u)
      BY Zenon, <3>1 DEF Allowed
    <3>3. Candidates' = Candidates /\ \A u \in Units : ReadList(u)' = ReadList(u)
      BY Zenon, <3>1 DEF Candidates, ReadList
    <3>4. \A i \in Candidates : ShotSeq[i] \in Units
      BY SectionAssumption DEF Candidates, Units, Shots
    <3> QED
      BY Zenon, <3>1, <3>2, <3>3, <3>4 DEF SectionInv, SectionsAreWholeOrEmpty, Units
  <2> QED
    BY <2>2, <2>3, <2>5, <2>6 DEF SectionInv
<1> QED
  BY <1>1, <1>2, <1>3, FinishKeeps, DeadlineKeeps, Zenon DEF SectionNext

(***************************************************************************)
(* The invariant of the sections holds in every state: with any number of  *)
(* threads, slots and entries, a claimed unit has one owner, and a copy    *)
(* whose generation did not move is the live unit's.                       *)
(***************************************************************************)
THEOREM SectionInvariant == SectionSpec => []SectionInv
<1>1. SectionInit => SectionInv
  BY SectionInitInv
<1>2. SectionInv /\ [SectionNext]_sectionVars => SectionInv'
  BY SectionStepInv
<1> QED
  BY <1>1, <1>2, PTL DEF SectionSpec

(***************************************************************************)
(* sanitize_publications: what a finished snapshot holds of a section was  *)
(* complete when its closing generation was loaded, or is nothing.         *)
(***************************************************************************)
THEOREM SnapshotIsWholeOrEmpty == SectionSpec => []SectionsAreWholeOrEmpty
<1>1. SectionInv => SectionsAreWholeOrEmpty
  BY DEF SectionInv
<1> QED
  BY <1>1, SectionInvariant, PTL

=============================================================================
