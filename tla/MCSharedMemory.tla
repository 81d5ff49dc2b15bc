--------------------------- MODULE MCSharedMemory ---------------------------
(***************************************************************************)
(* One copy of a small region against the producer's threads.  The         *)
(* breadcrumbs and the other sections have no word in common, so the       *)
(* initial state chooses the part that is written and copied.  Ring 0      *)
(* takes every breadcrumb and wraps around; another ring takes at most one *)
(* (SecondRing), which registers it.  Threads are interchangeable.         *)
(***************************************************************************)
EXTENDS ShmScreenshots

VARIABLE area   \* "breadcrumbs" or "sections"

regionVars == <<area, vars, sectionVars>>

RegionInit ==
    /\ area \in {"breadcrumbs", "sections"}
    /\ Init /\ SectionInit
    /\ area = "breadcrumbs" => policy = {"context"}

\* Bound: the breadcrumbs under way to and completed in a ring other than 0.
SecondRing == 1
UnderWay(s) == {p \in Producers : prod[p].slot = s /\ prod[p].pc \notin {"idle", "publish", "endRegistry"}}
Bounded == \A s \in Slots \ {0} : Len(log[s]) + Cardinality(UnderWay(s)) <= SecondRing

Breadcrumbs == area = "breadcrumbs" /\ Next /\ Bounded' /\ UNCHANGED <<area, sectionVars>>
Sections == area = "sections" /\ SectionNext /\ UNCHANGED <<area, vars>>

RegionSpec == RegionInit /\ [][Breadcrumbs \/ Sections]_regionVars

MCShotSeq == <<"shot0", "shot1">>
MCStamps == {[tier |-> 0, timestamp |-> 1], [tier |-> 1, timestamp |-> 1], [tier |-> 1, timestamp |-> 2]}
MCPolicies == {{"context", "attachments", "screenshots"}, {"context"}, {"screenshots"}}

Interchangeable == Permutations(Producers)

=============================================================================
