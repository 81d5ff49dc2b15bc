--------------------------- MODULE ShmScreenshots ---------------------------
(***************************************************************************)
(* read_screenshots_bounded (src/shm/reader.rs): the frames a collector    *)
(* reads from an owned snapshot under its frame, byte and time budgets.    *)
(* "The fixed metadata prefix is always present; screenshot data may be a  *)
(* shorter prefix": the pixels of the first "payload" slots are there.     *)
(***************************************************************************)
EXTENDS ShmSections, SequencesExt

\* Mutation of Precedes: the older frame of a tier first.
PrecedesOldest(i, j) ==
    LET a == owned[ShotSeq[i]].head
        b == owned[ShotSeq[j]].head IN
    \/ a.tier < b.tier
    \/ a.tier = b.tier /\ a.timestamp < b.timestamp
    \/ a = b /\ i < j

\* Lower tier first, then the newer frame, then the lower slot.
Precedes(i, j) ==
    LET a == owned[ShotSeq[i]].head
        b == owned[ShotSeq[j]].head IN
    \/ a.tier < b.tier
    \/ a.tier = b.tier /\ a.timestamp > b.timestamp
    \/ a = b /\ i < j

\* Mutation of CopyFrame: a slot without its pixels is passed over.
CopyFrameSilent(read, i, limit) ==
    IF read.exhausted # "none" THEN read
    ELSE IF Len(read.frames) >= limit.frames THEN [read EXCEPT !.exhausted = "FrameLimit"]
    ELSE IF Len(read.frames) + 1 > limit.bytes THEN [read EXCEPT !.exhausted = "ByteLimit"]
    ELSE IF read.polls >= limit.polls THEN [read EXCEPT !.exhausted = "Deadline"]
    ELSE IF i > limit.payload THEN [read EXCEPT !.polls = @ + 1]
    ELSE [read EXCEPT !.polls = @ + 1, !.frames = Append(@, i)]

\* One pass of the copy loop: the first budget that does not cover the frame
\* ends it; a slot whose pixels are cut off is noted and passed over.  A frame
\* is one unit of the byte budget; should_continue answers true "polls" times.
CopyFrame(read, i, limit) ==
    IF read.exhausted # "none" THEN read
    ELSE IF Len(read.frames) >= limit.frames THEN [read EXCEPT !.exhausted = "FrameLimit"]
    ELSE IF Len(read.frames) + 1 > limit.bytes THEN [read EXCEPT !.exhausted = "ByteLimit"]
    ELSE IF read.polls >= limit.polls THEN [read EXCEPT !.exhausted = "Deadline"]
    ELSE IF i > limit.payload THEN [read EXCEPT !.polls = @ + 1, !.unreadable = @ \cup {i}]
    ELSE [read EXCEPT !.polls = @ + 1, !.frames = Append(@, i)]

\* read_screenshots_bounded over the published slots.
ReadScreenshots(limit) ==
    FoldLeft(LAMBDA read, i : CopyFrame(read, i, limit),
             [frames |-> <<>>, unreadable |-> {}, polls |-> 0, exhausted |-> "none"],
             SetToSortSeq(Candidates, Precedes))

-----------------------------------------------------------------------------

(***************************************************************************)
(* "Lower producer tiers win first, then newer timestamps and lower slot   *)
(* indices.  Budget exhaustion and published slots whose complete pixel    *)
(* payload is unavailable are reported independently" (reader.rs).  Under  *)
(* any budget and any cut of the payload, every published frame is read,   *)
(* named unreadable, or left out for a budget that is really used up, the  *)
(* one that is reported; and no frame is read before, or left out for, a   *)
(* less urgent one.                                                        *)
(***************************************************************************)
UrgentFramesFirst ==
    LET Stamp(i) == owned[ShotSeq[i]].head
        Lesser(j, i) ==
            \/ Stamp(j).tier > Stamp(i).tier
            \/ Stamp(j).tier = Stamp(i).tier /\ Stamp(j).timestamp < Stamp(i).timestamp
            \/ Stamp(j) = Stamp(i) /\ j > i
        Honest(read, left, limit) ==
            CASE read.exhausted = "none" -> left = {}
              [] read.exhausted = "FrameLimit" -> left # {} /\ Len(read.frames) = limit.frames
              [] read.exhausted = "ByteLimit" -> left # {} /\ Len(read.frames) = limit.bytes
              [] read.exhausted = "Deadline" ->
                    left # {} /\ Len(read.frames) + Cardinality(read.unreadable) = limit.polls
    IN  outcome = "ok" =>
            \A limit \in [frames : 0 .. Len(ShotSeq), bytes : 0 .. Len(ShotSeq),
                          polls : 0 .. Len(ShotSeq), payload : 0 .. Len(ShotSeq)] :
                LET read == ReadScreenshots(limit)
                    kept == Range(read.frames)
                    left == Candidates \ (kept \cup read.unreadable)
                IN  /\ kept \subseteq Candidates /\ \A i \in kept : i <= limit.payload
                    /\ \A i \in read.unreadable : i \in Candidates /\ i > limit.payload
                    /\ \A n, m \in DOMAIN read.frames : n < m => Lesser(read.frames[m], read.frames[n])
                    /\ \A i \in kept \cup read.unreadable, j \in left : Lesser(j, i)
                    /\ Honest(read, left, limit)

=============================================================================
