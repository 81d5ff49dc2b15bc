----------------------------- MODULE ShmSections -----------------------------
(***************************************************************************)
(* The sections of the shared memory beside the breadcrumbs: the           *)
(* annotations of the context, the settings extension and the attachments, *)
(* each a list behind one generation, and the screenshot slots with a      *)
(* generation each.  The producer publishes them with                      *)
(* producer/crash_monitor_producer.h; the monitor copies the sections its  *)
(* policy allows, once (src/shm/reader.rs); ShmScreenshots selects among   *)
(* the frames it copied.  The generation protocol (Even, Following,        *)
(* Stable) is the one of ShmBreadcrumbs; the heartbeat, a single word      *)
(* without a generation, is part of Watchdog.                              *)
(***************************************************************************)
EXTENDS ShmBreadcrumbs

CONSTANTS
    Writers,     \* producer threads
    ShotSeq,     \* the screenshot slots, by index
    ListMax,     \* MAX_ANNOTATIONS and its siblings
    Stamps,      \* tiers and timestamps of the screenshots
    Policies,    \* the sections a configuration lets capture copy
    Updates      \* bound: publications the threads try

Shots == {ShotSeq[i] : i \in 1 .. Len(ShotSeq)}
Lists == {"context", "settings", "attachments"}

\* A generation takes 2^31 updates to return to a value the reader loaded.
ASSUME SectionAssumption ==
    /\ Updates \in Nat /\ Updates < Modulus \div 2
    /\ ListMax \in Nat \ {0}
    /\ ShotSeq \in Seq(Shots) /\ Shots \cap Lists = {}

Units == Lists \cup Shots

VARIABLES
    unit,       \* the live publication units: gen, head and body
    writer,     \* the threads: pc, unit, value, observed and odd generation
    issued,     \* publications started
    policy,     \* the sections capture may copy
    look,       \* the reader's position in SectionSteps
    opening, closing,  \* the generations before and after the copy
    owned,      \* the copied units
    outcome,    \* of the snapshot: "none", "ok", "deadline" or "invalid"
    complete,   \* history: the value last completed in each unit
    witnessed   \* history: complete when the closing generation was loaded

sectionVars == <<unit, writer, issued, policy, look, opening, closing,
                 owned, outcome, complete, witnessed>>
copyVars == <<policy, look, opening, closing, owned, outcome, witnessed>>

\* A screenshot's head is its tier and timestamp, a list's its entry count.
NoStamp == [tier |-> 0, timestamp |-> 0]
Blank == [u \in Units |->
            IF u \in Shots THEN [gen |-> 0, head |-> NoStamp, body |-> 0]
            ELSE [gen |-> 0, head |-> 0, body |-> [i \in 1 .. ListMax |-> 0]]]
Resting == [pc |-> "idle", at |-> "context", value |-> 0, stamp |-> NoStamp, observed |-> 0, odd |-> 0]

\* A created region is zero, with the schema version of the extension set.
SectionInit ==
    /\ unit = Blank /\ owned = Blank
    /\ writer = [w \in Writers |-> Resting]
    /\ issued = 0
    /\ policy \in Policies
    /\ look = 1
    /\ opening = [u \in Units |-> 0] /\ closing = [u \in Units |-> 0]
    /\ outcome = "none"
    /\ complete = [u \in Units |-> <<>>] /\ witnessed = [u \in Units |-> <<>>]

-----------------------------------------------------------------------------
(* The producer's calls.                                                   *)

Write(w, from, next) ==
    /\ writer[w].pc = from
    /\ writer' = [writer EXCEPT ![w] = IF next.pc = "idle" THEN Resting ELSE next]
    /\ UNCHANGED copyVars

\* sut_shm_seqlock_try_begin loads the generation; a unit being written is
\* skipped and the call returns 1.
BeginUpdate(w, u) ==
    /\ issued < Updates
    /\ \E stamp \in IF u \in Shots THEN Stamps ELSE {NoStamp} :
          Write(w, "idle", [pc |-> IF Even(unit[u].gen) THEN "claim" ELSE "idle", at |-> u,
                            value |-> issued + 1, stamp |-> stamp, observed |-> unit[u].gen, odd |-> 0])
    /\ issued' = issued + 1
    /\ UNCHANGED <<unit, complete>>

ClaimUnit(w) ==
    LET u == writer[w].at IN
    /\ IF unit[u].gen = writer[w].observed
       THEN /\ Write(w, "claim", [writer[w] EXCEPT !.pc = IF u \in Shots THEN "body" ELSE "head",
                                                   !.odd = Following(unit[u].gen), !.observed = 0])
            /\ unit' = [unit EXCEPT ![u].gen = Following(@)]
       ELSE Write(w, "claim", [writer[w] EXCEPT !.pc = "idle"]) /\ UNCHANGED unit
    /\ UNCHANGED <<issued, complete>>

\* A list counts the entry before it writes it, and a full list is released
\* unchanged; a screenshot is stamped after its pixels.
WriteHead(w) ==
    LET u == writer[w].at IN
    /\ IF u \in Shots
       THEN /\ Write(w, "head", [writer[w] EXCEPT !.pc = "release"])
            /\ unit' = [unit EXCEPT ![u].head = writer[w].stamp]
       ELSE IF unit[u].head >= ListMax
            THEN Write(w, "head", [writer[w] EXCEPT !.pc = "release", !.value = 0]) /\ UNCHANGED unit
            ELSE Write(w, "head", [writer[w] EXCEPT !.pc = "body"]) /\ unit' = [unit EXCEPT ![u].head = @ + 1]
    /\ UNCHANGED <<issued, complete>>

WriteBody(w) ==
    LET u == writer[w].at IN
    /\ IF u \in Shots
       THEN /\ Write(w, "body", [writer[w] EXCEPT !.pc = "head"])
            /\ unit' = [unit EXCEPT ![u].body = writer[w].value]
       ELSE /\ Write(w, "body", [writer[w] EXCEPT !.pc = "release"])
            /\ unit' = [unit EXCEPT ![u].body[unit[u].head] = writer[w].value]
    /\ UNCHANGED <<issued, complete>>

\* sut_shm_seqlock_end.
EndUpdate(w) ==
    LET u == writer[w].at
        value == writer[w].value IN
    /\ Write(w, "release", [writer[w] EXCEPT !.pc = "idle"])
    /\ unit' = [unit EXCEPT ![u].gen = Following(writer[w].odd)]
    /\ complete' = [complete EXCEPT ![u] =
          IF u \in Shots THEN <<writer[w].stamp, value>>
          ELSE IF value = 0 THEN @ ELSE Append(@, value)]
    /\ UNCHANGED issued

WriterStep(w) ==
    \/ \E u \in Units : BeginUpdate(w, u)
    \/ ClaimUnit(w) \/ WriteHead(w) \/ WriteBody(w) \/ EndUpdate(w)

-----------------------------------------------------------------------------
(* snapshot_owned_until_with_policy.                                       *)

\* allows_atomic and copy_selected_non_atomic_range.
SectionOf(u) == IF u \in Shots THEN "screenshots" ELSE IF u = "settings" THEN "context" ELSE u
Allowed(u) == SectionOf(u) \in policy

ListSeq == <<"context", "settings", "attachments">>
Phase(phase, units) == [i \in 1 .. Len(units) |-> <<phase, units[i]>>]

\* load_publication_state, the ranges in address order, then
\* load_publication_state again.
SectionSteps ==
    LET generations == ShotSeq \o ListSeq
    IN  Phase("opening", generations)
        \o << <<"head", "context">>, <<"body", "context">>, <<"head", "settings">>, <<"body", "settings">>,
              <<"head", "attachments">>, <<"body", "attachments">> >>
        \o Phase("head", ShotSeq) \o Phase("body", ShotSeq)
        \o Phase("closing", generations)

\* One load or one copied range.  A section the policy excludes is neither
\* loaded nor copied.
CopySection ==
    /\ outcome = "none"
    /\ look <= Len(SectionSteps)
    /\ LET u == SectionSteps[look][2]
           phase == IF Allowed(u) THEN SectionSteps[look][1] ELSE "skip" IN
       /\ opening' = IF phase = "opening" THEN [opening EXCEPT ![u] = unit[u].gen] ELSE opening
       /\ owned' = CASE phase = "head" -> [owned EXCEPT ![u].head = unit[u].head]
                     [] phase = "body" -> [owned EXCEPT ![u].body = unit[u].body]
                     [] OTHER -> owned
       /\ closing' = IF phase = "closing" THEN [closing EXCEPT ![u] = unit[u].gen] ELSE closing
       /\ witnessed' = IF phase = "closing" THEN [witnessed EXCEPT ![u] = complete[u]] ELSE witnessed
    /\ look' = look + 1
    /\ UNCHANGED <<unit, writer, issued, policy, outcome, complete>>

\* Mutation of Sanitized: an odd generation that did not move is accepted.
SanitizedOdd(u) ==
    IF ~Allowed(u) THEN Blank[u]
    ELSE IF opening[u] = closing[u] THEN [owned[u] EXCEPT !.gen = closing[u]]
    ELSE Blank[u]

\* sanitize_publications: a unit whose generation moved or is odd is zeroed,
\* the others keep the generation that approved them.
Sanitized(u) ==
    IF Allowed(u) /\ Stable(opening[u], closing[u])
    THEN [owned[u] EXCEPT !.gen = closing[u]]
    ELSE Blank[u]

\* The copy is sanitized, then its header and footer are validated.
FinishSnapshot ==
    /\ outcome = "none"
    /\ look > Len(SectionSteps)
    /\ owned' = [u \in Units |-> Sanitized(u)]
    /\ outcome' \in {"ok", "invalid"}
    /\ UNCHANGED <<unit, writer, issued, policy, look, opening, closing, complete, witnessed>>

\* check_snapshot_deadline, before any chunk: the copy is dropped.
SnapshotDeadline ==
    /\ outcome = "none"
    /\ outcome' = "deadline"
    /\ look' = 1 /\ owned' = Blank
    /\ opening' = [u \in Units |-> 0] /\ closing' = [u \in Units |-> 0]
    /\ UNCHANGED <<unit, writer, issued, policy, complete, witnessed>>

SectionNext ==
    \/ outcome = "none" /\ \E w \in Writers : WriterStep(w)
    \/ CopySection
    \/ FinishSnapshot
    \/ SnapshotDeadline

SectionSpec == SectionInit /\ [][SectionNext]_sectionVars

-----------------------------------------------------------------------------
(* What collectors read from the owned snapshot.                           *)

\* read_context, read_settings and read_attachments: the counted entries.
ReadList(u) ==
    IF owned[u].head > ListMax THEN <<>>
    ELSE [i \in 1 .. owned[u].head |-> owned[u].body[i]]

\* The slots read_screenshots_bounded considers.
Candidates == {i \in 1 .. Len(ShotSeq) : owned[ShotSeq[i]].gen # 0 /\ Even(owned[ShotSeq[i]].gen)}

-----------------------------------------------------------------------------
(* Properties.                                                             *)

(***************************************************************************)
(* A finished snapshot holds, for every section the policy allows, what    *)
(* the producer had completed when the closing generation was loaded or    *)
(* nothing at all, nothing of the sections it excludes, and never a torn   *)
(* list, a counted entry that was not written or a frame with another      *)
(* frame's pixels.                                                         *)
(***************************************************************************)
SectionsAreWholeOrEmpty ==
    outcome = "ok" =>
        /\ \A u \in Lists : ReadList(u) \in {<<>>, IF Allowed(u) THEN witnessed[u] ELSE <<>>}
        /\ \A i \in Candidates :
              Allowed(ShotSeq[i]) /\ <<owned[ShotSeq[i]].head, owned[ShotSeq[i]].body>> = witnessed[ShotSeq[i]]

=============================================================================
