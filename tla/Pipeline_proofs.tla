-------------------------- MODULE Pipeline_proofs --------------------------
(***************************************************************************)
(* For every set of screenshots and every configuration whose steps keep   *)
(* the order of OrderAssumption: the staging directory is exact, what is   *)
(* named exists, and raw evidence is the fallback and only the fallback.   *)
(***************************************************************************)
EXTENDS Pipeline, TLAPS

\* The transaction was thrown away, and its directory with it.
Dead == report \in {"rejected", "duplicate", "lost"}

\* Only steps of a rank from n on are left.
Ahead(n) == \A i \in 1 .. Len(todo) : Rank(todo[i]) >= n

\* The steps left are in order; the commit is among them until it has run.
OrderInv ==
    /\ enabled \in {Closed(on) : on \in Configurations}
    /\ todo \in Seq(STRING) /\ Orderly(todo)
    /\ report \in {"none", "staging", "rejected", "duplicate", "published", "prepared", "lost"}
    /\ jsonPath \in {"none", "report.json", "report.zip"}
    /\ report \in {"none", "staging"} /\ todo # <<>> =>
          \E i \in 1 .. Len(todo) : todo[i] = "Commit"
    /\ Dead \/ report = "prepared" => todo = <<>>
    /\ todo = <<>> => op = "start"
    /\ report = "published" => Ahead(6)
    /\ kind = "none" =>
          /\ todo = <<>> /\ report = "none" /\ jsonPath = "none" /\ written = {}
          /\ archived = {} /\ refs = {} /\ ok = {} /\ notified = {} /\ disk = {} /\ registry = {}

\* The directory and the registry agree but for the file that a plugin has
\* published or removed and not yet told of, unless a fault was noted.
FileInv ==
    /\ disk \cap Raw \subseteq registry /\ registry \subseteq disk \cup half
    /\ ~fault => disk \subseteq registry \cup half
    /\ op \in {"start", "publish", "remove"} => half = {}
    /\ op \in {"start", "publish", "remove", "register", "unregister"}
    /\ op = "register" => half \subseteq disk /\ half \cap Raw = {}
    /\ op = "unregister" => half \cap disk = {}

\* What the plugins work on while they run.
Running(p) == Runs(p) /\ op # "start"

CopierInv ==
    Running("AttachmentCopier") => work \subseteq {Attachment} /\ op \in {"publish", "register"}

CleanupInv ==
    Running("RawCleanup") =>
        /\ work \subseteq Raw /\ op \in {"remove", "unregister"}
        /\ jsonPath # "none" /\ disk \cap Raw \subseteq work

ConverterInv ==
    Running("PNGConverter") =>
        /\ jsonPath = "report.json" /\ work \subseteq Rgba
        /\ op \in {"remove", "unregister"} => work \cap refs = {}

ArchiverInv ==
    Running("ZIPArchiver") =>
        /\ work \subseteq archived /\ Archive \notin work
        /\ op = "register" => /\ half = {Archive} /\ jsonPath = "report.json"
                              /\ archived = registry
        /\ op # "register" => jsonPath = "report.zip"

WorkInv == CopierInv /\ CleanupInv /\ ConverterInv /\ ArchiverInv

\* The archive, report.json and what it names.
ReportInv ==
    /\ refs \cap Raw = {}
    /\ jsonPath # "none" => Ahead(2)
    /\ Archive \in disk \/ archived # {} \/ jsonPath = "report.zip" => Ahead(4) \/ Running("ZIPArchiver")
    /\ jsonPath = "report.json" /\ ~Dead => refs \cup {Json} \subseteq disk \cap registry
    /\ jsonPath = "report.zip" => refs \cup {Json} \subseteq archived
    /\ jsonPath = "report.zip" /\ ~Dead => Archive \in disk

\* Raw evidence is there until there is a report, and not after its cleanup.
RawInv ==
    /\ written \subseteq Raw
    /\ jsonPath = "none" /\ ~Dead => written \subseteq disk \cap registry
    /\ "RawCleanup" \in ok => Ahead(2)
    /\ "RawCleanup" \in ok /\ jsonPath # "none" /\ ~Dead => Raw \cap (disk \cup archived) = {}

\* A path that was handed out stays good.
NotifyInv ==
    \A path \in notified : report = "published" /\ path.root = root /\ path.file \in disk

PipelineInv == OrderInv /\ FileInv /\ WorkInv /\ ReportInv /\ RawInv /\ NotifyInv

-----------------------------------------------------------------------------
(* Lemmas about the operators.                                             *)

\* Files with different names are different files.
LEMMA FilesDiffer ==
  /\ Json \notin Raw \cup Rgba \cup {Attachment, Archive, Stray}
  /\ Raw \cap ({Json, Attachment, Archive, Stray} \cup Rgba) = {}
  /\ Archive \notin Rgba \cup {Attachment, Stray}
<1>1. Json \notin Raw \cup Rgba \cup {Attachment, Archive, Stray}
  BY Zenon DEF Json, Raw, Breadcrumbs, Context, Threads, Attachment, Archive, Stray, Rgba, File
<1>2. ASSUME NEW f \in Raw
      PROVE  f \notin {Json, Attachment, Archive, Stray} \cup Rgba
  BY <1>2 DEF Json, Raw, Breadcrumbs, Context, Threads, Attachment, Archive, Stray, Rgba, File
<1>3. Archive \notin Rgba \cup {Attachment, Stray}
  BY Zenon DEF Archive, Attachment, Stray, Rgba, File
<1>q. QED
  BY <1>1, <1>2, <1>3

\* The PNG of a screenshot is none of the other files.
LEMMA PngsDiffer ==
  ASSUME NEW shots \in SUBSET Rgba
  PROVE  /\ Png(shots) \cap (Raw \cup Rgba \cup {Json, Attachment, Archive, Stray}) = {}
BY DEF Png, Json, Raw, Breadcrumbs, Context, Threads, Attachment, Archive, Stray, Rgba, File

\* What a result names is the report or the archive.
LEMMA NamedFile == File("report.json", 0) = Json /\ File("report.zip", 0) = Archive
BY DEF Json, Archive

\* The notifiers.
LEMMA TheNotifiers == Range(Notifiers) = {"ConsoleNotifier", "SystemNotification"}
BY DEF Range, Notifiers

\* The filters.
LEMMA TheFilters == Range(Filters) = {"DiskSpaceFilter", "RateLimiter"}
BY DEF Range, Filters

\* A rank is a number.
LEMMA RankType == \A step : Rank(step) \in 0 .. 6
BY DEF Rank

\* The ranks of the steps.
LEMMA Ranks ==
  /\ \A step \in {"Begin", "Stage1Raw", "Stage1Shm", "Fingerprinter", "DuplicateDetector", "DuplicateCheck",
                  "AttachmentCopier", "DiskSpaceFilter", "RateLimiter"} : Rank(step) = 0
  /\ Rank("Stage2Json") = 1
  /\ \A step \in {"RawCleanup", "PNGConverter", "FeedbackDialog"} : Rank(step) = 2
  /\ Rank("ZIPArchiver") = 3 /\ Rank("MoveToSent") = 4 /\ Rank("Commit") = 5
  /\ \A step \in {"ConsoleNotifier", "SystemNotification"} : Rank(step) = 6
BY TheNotifiers DEF Rank

\* The step at hand is over: the steps left are in order, of the rank of this
\* one or later ones, and the commit is still to come if it was.
LEMMA ContinueStep ==
  ASSUME todo \in Seq(STRING), Orderly(todo), NEW step, Runs(step), Continue
  PROVE  /\ todo' \in Seq(STRING) /\ Orderly(todo)'
         /\ \A n \in 0 .. 6 : Ahead(n) => Rank(step) >= n /\ Ahead(n)'
         /\ Ahead(Rank(step))'
         /\ Rank(step) \in {1, 3, 5} => Ahead(Rank(step) + 1)'
         /\ (\E i \in 1 .. Len(todo) : todo[i] = "Commit") =>
               /\ Rank(step) <= 5
               /\ step = "Commit" \/ \E i \in 1 .. Len(todo') : todo'[i] = "Commit"
<1>1. /\ todo # <<>> /\ todo[1] = step /\ todo' = Tail(todo) /\ Len(todo) \in Nat /\ Len(todo) > 0
      /\ todo' \in Seq(STRING) /\ Len(todo') = Len(todo) - 1
      /\ \A i \in 1 .. Len(todo') : i + 1 \in 1 .. Len(todo) /\ todo'[i] = todo[i + 1]
  BY DEF Runs, Continue
<1>2. \A i \in 1 .. Len(todo) : Rank(todo[i]) \in 0 .. 6
  BY RankType
<1>3. Orderly(todo)'
  <2> SUFFICES ASSUME NEW i \in 1 .. Len(todo'), NEW j \in 1 .. Len(todo'), i < j
               PROVE  /\ Rank(todo'[i]) <= Rank(todo'[j])
                      /\ Rank(todo'[i]) \in {1, 3, 5} => Rank(todo'[i]) < Rank(todo'[j])
    BY DEF Orderly
  <2>1. i + 1 \in 1 .. Len(todo) /\ j + 1 \in 1 .. Len(todo) /\ i + 1 < j + 1
    BY <1>1
  <2>2. todo'[i] = todo[i + 1] /\ todo'[j] = todo[j + 1]
    BY <1>1
  <2>q. QED
    BY <2>1, <2>2 DEF Orderly
<1>4. \A n \in 0 .. 6 : Ahead(n) => Rank(step) >= n /\ Ahead(n)'
  BY <1>1 DEF Ahead
<1>5. /\ \A j \in 1 .. Len(todo) : j > 1 => Rank(step) <= Rank(todo[j])
      /\ Rank(step) \in {1, 3, 5} => \A j \in 1 .. Len(todo) : j > 1 => Rank(step) < Rank(todo[j])
  BY <1>1 DEF Orderly
<1>6. Ahead(Rank(step))'
  BY <1>1, <1>5, RankType DEF Ahead
<1>7. Rank(step) \in {1, 3, 5} => Ahead(Rank(step) + 1)'
  <2> SUFFICES ASSUME Rank(step) \in {1, 3, 5}, NEW i \in 1 .. Len(todo')
               PROVE  Rank(todo'[i]) >= Rank(step) + 1
    BY DEF Ahead
  <2>1. i + 1 \in 1 .. Len(todo) /\ i + 1 > 1 /\ todo'[i] = todo[i + 1]
    BY <1>1
  <2>2. Rank(step) < Rank(todo[i + 1])
    BY <2>1, <1>5
  <2>3. Rank(todo[i + 1]) \in 0 .. 6
    BY <2>1, <1>2
  <2>q. QED
    BY <2>1, <2>2, <2>3
<1>8. ASSUME NEW i \in 1 .. Len(todo), todo[i] = "Commit"
      PROVE  Rank(step) <= 5 /\ (step = "Commit" \/ \E k \in 1 .. Len(todo') : todo'[k] = "Commit")
  <2>1. Rank("Commit") = 5
    BY Ranks
  <2>2. CASE i = 1
    BY <2>1, <2>2, <1>1, <1>8
  <2>3. CASE i > 1
    <3>1. i - 1 \in 1 .. Len(todo') /\ todo'[i - 1] = todo[i]
      BY <2>3, <1>1
    <3>q. QED
      BY <3>1, <2>1, <2>3, <1>5, <1>8, RankType
  <2>q. QED
    BY <2>2, <2>3
<1>q. QED
  BY <1>1, <1>3, <1>4, <1>6, <1>7, <1>8

-----------------------------------------------------------------------------
(* What the steps have in common.                                          *)

\* A step other than the commit goes on to the next one: the order is kept.
LEMMA OrderKept ==
  ASSUME OrderInv, NEW step, Runs(step), Continue, step # "Commit", UNCHANGED <<enabled, kind, report>>,
         jsonPath' \in {"none", "report.json", "report.zip"}
  PROVE  OrderInv' /\ kind # "none" /\ ~Dead
<1>1. todo \in Seq(STRING) /\ Orderly(todo) /\ todo # <<>> /\ kind # "none" /\ ~Dead /\ report # "prepared"
  BY DEF OrderInv, Runs
<1>2. /\ todo' \in Seq(STRING) /\ Orderly(todo)'
      /\ Ahead(6) => Ahead(6)'
      /\ (\E i \in 1 .. Len(todo) : todo[i] = "Commit") => \E i \in 1 .. Len(todo') : todo'[i] = "Commit"
  BY <1>1, ContinueStep
<1>3. ~Dead' /\ report' # "prepared" /\ kind' # "none" /\ op' = "start"
  BY <1>1 DEF Dead, Continue, Idle
<1>q. QED
  BY <1>1, <1>2, <1>3 DEF OrderInv

\* What is behind a step stays behind it.
LEMMA BehindKept ==
  ASSUME OrderInv, NEW step, Runs(step), Continue
  PROVE  /\ Ahead(2) => Rank(step) >= 2 /\ Ahead(2)'
         /\ Ahead(4) => Rank(step) >= 4 /\ Ahead(4)'
         /\ Ahead(6) => Rank(step) >= 6 /\ Ahead(6)'
         /\ Rank(step) \in {1, 2} => Ahead(2)'
         /\ Rank(step) \in {3, 4} => Ahead(4)'
<1>1. todo \in Seq(STRING) /\ Orderly(todo)
  BY DEF OrderInv
<1>2. /\ \A n \in 0 .. 6 : Ahead(n) => Rank(step) >= n /\ Ahead(n)'
      /\ Ahead(Rank(step))'
      /\ Rank(step) \in {1, 3, 5} => Ahead(Rank(step) + 1)'
  BY <1>1, ContinueStep
<1>3. /\ Ahead(2) => Rank(step) >= 2 /\ Ahead(2)'
      /\ Ahead(4) => Rank(step) >= 4 /\ Ahead(4)'
      /\ Ahead(6) => Rank(step) >= 6 /\ Ahead(6)'
  BY <1>2
<1>4. Rank(step) = 1 => Ahead(2)'
  BY <1>2
<1>5. Rank(step) = 2 => Ahead(2)'
  BY <1>2
<1>6. Rank(step) = 3 => Ahead(4)'
  BY <1>2
<1>7. Rank(step) = 4 => Ahead(4)'
  BY <1>2
<1>q. QED
  BY <1>3, <1>4, <1>5, <1>6, <1>7

\* A step of rank at most five finds the transaction open: it was neither
\* thrown away nor published.
LEMMA StillOpen ==
  ASSUME PipelineInv, NEW step, Runs(step), Rank(step) <= 5
  PROVE  /\ report \in {"none", "staging"} /\ notified = {} /\ kind # "none" /\ ~Dead
         /\ Ahead(2) => Rank(step) >= 2
         /\ Ahead(4) => Rank(step) >= 4
<1>1. /\ todo \in Seq(STRING) /\ Len(todo) \in Nat /\ Len(todo) > 0 /\ todo[1] = step
  BY DEF PipelineInv, OrderInv, Runs
<1>2. /\ Ahead(2) => Rank(step) >= 2
      /\ Ahead(4) => Rank(step) >= 4
      /\ ~Ahead(6)
  BY <1>1, RankType DEF Ahead
<1>3. report \in {"none", "staging"} /\ kind # "none" /\ ~Dead
  BY <1>1, <1>2 DEF PipelineInv, OrderInv, Dead
<1>q. QED
  BY <1>2, <1>3 DEF PipelineInv, NotifyInv

\* Between two steps no plugin works.
LEMMA IdleWork ==
  ASSUME Idle
  PROVE  WorkInv'
BY DEF Idle, WorkInv, CopierInv, CleanupInv, ConverterInv, ArchiverInv, Running

\* Only the plugin at the head of the steps runs.
LEMMA OneRuns ==
  ASSUME NEW p, NEW q, Runs(p), Runs(q)
  PROVE  p = q
BY DEF Runs

\* A step of rank at most two finds neither an archive nor a running archiver.
LEMMA NoArchive ==
  ASSUME PipelineInv, NEW p, Runs(p), Rank(p) <= 3, p # "ZIPArchiver" \/ op = "start"
  PROVE  archived = {} /\ Archive \notin disk /\ jsonPath # "report.zip"
<1>1. Rank(p) <= 5 /\ ~(Rank(p) >= 4)
  BY RankType
<1>2. ~Ahead(4)
  BY <1>1, StillOpen
<1>3. ~Running("ZIPArchiver")
  BY OneRuns DEF Running
<1>q. QED
  BY <1>2, <1>3, Zenon DEF PipelineInv, ReportInv

\* A step that ends keeps the invariant if it has changed nothing of the report;
\* a temporary may be left, and RawCleanup may have succeeded.
LEMMA EndStep ==
  ASSUME PipelineInv, NEW p, Runs(p), Continue, p # "Commit", FileInv',
         UNCHANGED <<enabled, kind, written, archived, refs, jsonPath, report, root, notified, registry>>,
         disk \subseteq disk', disk' \subseteq disk \cup {Stray},
         "RawCleanup" \in ok' => \/ "RawCleanup" \in ok
                                 \/ Rank(p) = 2 /\ (jsonPath = "none" \/ Raw \cap disk = {})
  PROVE  PipelineInv'
<1>1. /\ OrderInv' /\ ~Dead /\ (Ahead(2) => Ahead(2)') /\ (Ahead(4) => Ahead(4)')
      /\ (Rank(p) = 2 => Ahead(2)') /\ (Rank(p) = 3 => Ahead(4)')
  <2>1. OrderInv /\ jsonPath' \in {"none", "report.json", "report.zip"}
    BY DEF PipelineInv, OrderInv
  <2>q. QED
    BY <2>1, OrderKept, BehindKept
<1>2. Dead' = Dead
  BY DEF Dead
<1>3. Running("ZIPArchiver") => Ahead(4)'
  <2>1. Running("ZIPArchiver") => p = "ZIPArchiver"
    BY OneRuns DEF Running
  <2>q. QED
    BY <2>1, <1>1, Ranks
<1>4. WorkInv'
  BY IdleWork DEF Continue
<1>5. Raw \cap disk' = Raw \cap disk /\ (Archive \in disk' => Archive \in disk)
  BY FilesDiffer
<1>6. ReportInv'
  <2>1. Archive \in disk' \/ archived' # {} \/ jsonPath' = "report.zip" => Ahead(4)'
    BY <1>1, <1>3, <1>5, Zenon DEF PipelineInv, ReportInv
  <2>q. QED
    BY <1>1, <1>2, <2>1 DEF PipelineInv, ReportInv
<1>7. RawInv'
  <2>1. /\ written \subseteq Raw /\ (jsonPath = "none" => written \subseteq disk' \cap registry')
        /\ "RawCleanup" \in ok => Ahead(2)
        /\ "RawCleanup" \in ok /\ jsonPath # "none" => Raw \cap (disk \cup archived) = {}
    BY <1>1 DEF PipelineInv, RawInv
  <2>2. Rank(p) = 2 => archived = {}
    BY NoArchive, Ranks
  <2>3. "RawCleanup" \in ok' => Ahead(2)'
    BY <2>1, <1>1
  <2>4. "RawCleanup" \in ok' /\ jsonPath # "none" => Raw \cap (disk' \cup archived) = {}
    BY <2>1, <2>2, <1>5
  <2>q. QED
    BY <2>1, <2>3, <2>4, <1>1, <1>2 DEF RawInv
<1>8. NotifyInv'
  BY DEF PipelineInv, NotifyInv
<1>q. QED
  BY <1>1, <1>4, <1>6, <1>7, <1>8 DEF PipelineInv

\* The directory and the registry after a step that leaves them alone,
LEMMA FilesAlone ==
  ASSUME FileInv, op \in {"start", "publish", "remove"}, UNCHANGED <<disk, registry, fault>>,
         half' = {}, op' \in {"start", "publish", "remove"}
  PROVE  FileInv'
BY DEF FileInv

\* after write_artifact,
LEMMA FilesWritten ==
  ASSUME FileInv, op \in {"start", "publish", "remove"}, NEW new, Write(new) \/ WriteLeaves(new),
         half' = {}, op' \in {"start", "publish", "remove"}
  PROVE  FileInv'
BY FilesDiffer DEF FileInv, Write, WriteLeaves

\* after the publication of a file,
LEMMA FilesPublished ==
  ASSUME FileInv, op \in {"start", "publish", "remove"}, NEW new, NEW files, PublishFile(new, files),
         new \cap Raw = {}
  PROVE  FileInv'
BY DEF FileInv, PublishFile, Goto

\* after its registration,
LEMMA FilesRegistered ==
  ASSUME FileInv, op = "register", registry' = registry \cup half, UNCHANGED <<disk, fault>>,
         half' = {}, op' \in {"publish", "remove"}
  PROVE  FileInv'
BY DEF FileInv

\* after the registration has failed,
LEMMA FilesUnknown ==
  ASSUME FileInv, op = "register", UNCHANGED <<disk, registry>>, fault' = TRUE, half' = {}, op' = "start"
  PROVE  FileInv'
BY DEF FileInv

\* after the removal of a file,
LEMMA FilesRemoved ==
  ASSUME FileInv, op = "remove", NEW f, RemoveFile(f)
  PROVE  FileInv'
BY DEF FileInv, RemoveFile, Goto

\* and after its deregistration.
LEMMA FilesUnregistered ==
  ASSUME FileInv, op = "unregister", registry' = registry \ half, UNCHANGED <<disk, fault>>,
         half' = {}, op' = "remove"
  PROVE  FileInv'
BY DEF FileInv

\* A step that changes nothing of the report keeps the invariant.
LEMMA Untouched ==
  ASSUME PipelineInv, NEW step, At(step), Continue, step # "Commit",
         UNCHANGED <<enabled, kind, written, archived, refs, jsonPath, report, disk, registry, fault>>,
         UNCHANGED <<root, notified>>, "RawCleanup" \in ok' => "RawCleanup" \in ok
  PROVE  PipelineInv'
<1>1. FileInv'
  BY FilesAlone DEF PipelineInv, At, Continue, Idle
<1>q. QED
  BY <1>1, EndStep DEF At

\* Recording a plugin other than RawCleanup does not record RawCleanup.
LEMMA RecordOther ==
  ASSUME NEW p, NEW succeeded, p # "RawCleanup", Record(p, succeeded)
  PROVE  "RawCleanup" \in ok' => "RawCleanup" \in ok
BY DEF Record

\* The transaction is thrown away before anything was handed out.
LEMMA AbandonStep ==
  ASSUME PipelineInv, kind # "none", Abandon, report \in {"none", "staging"},
         report' \in {"rejected", "duplicate", "lost"},
         UNCHANGED <<enabled, kind, written, archived, refs, jsonPath, root, notified>>
  PROVE  PipelineInv'
<1>1. /\ Dead' /\ todo' = <<>> /\ disk' = {} /\ registry' = {} /\ notified = {}
      /\ op' = "start" /\ half' = {} /\ Idle
  BY DEF Dead, Abandon, Idle, PipelineInv, NotifyInv
<1>2. \A n : Ahead(n)'
  BY <1>1 DEF Ahead
<1>3. OrderInv'
  BY <1>1, <1>2 DEF PipelineInv, OrderInv, Orderly
<1>4. FileInv' /\ WorkInv'
  BY <1>1, IdleWork DEF FileInv
<1>5. ReportInv'
  BY <1>1, <1>2 DEF PipelineInv, ReportInv
<1>6. RawInv'
  BY <1>1, <1>2 DEF PipelineInv, RawInv
<1>7. NotifyInv'
  BY <1>1 DEF NotifyInv
<1>q. QED
  BY <1>3, <1>4, <1>5, <1>6, <1>7 DEF PipelineInv

\* Before report.json there is neither a report nor an archive.
LEMMA EarlyState ==
  ASSUME PipelineInv, NEW step, Runs(step), Rank(step) <= 1
  PROVE  /\ report \in {"none", "staging"} /\ notified = {} /\ kind # "none" /\ ~Dead
         /\ jsonPath = "none" /\ archived = {} /\ Archive \notin disk /\ "RawCleanup" \notin ok
         /\ written \subseteq disk \cap registry /\ written \subseteq Raw /\ refs \cap Raw = {}
<1>1. Rank(step) <= 5 /\ ~(Rank(step) >= 2) /\ Rank(step) <= 3
  BY RankType
<1>2. report \in {"none", "staging"} /\ notified = {} /\ kind # "none" /\ ~Dead /\ ~Ahead(2)
  BY <1>1, StillOpen
<1>3. step # "ZIPArchiver"
  BY Ranks
<1>4. archived = {} /\ Archive \notin disk
  BY <1>1, <1>3, NoArchive
<1>q. QED
  BY <1>2, <1>4 DEF PipelineInv, ReportInv, RawInv

-----------------------------------------------------------------------------
(* What the plugins that change files on their own have in common.         *)

\* The names of these plugins, and their ranks.
Workers == {"AttachmentCopier", "RawCleanup", "PNGConverter", "ZIPArchiver"}

\* One operation of a running plugin: what the report names is not removed, and
\* what is published is neither raw evidence nor the archive.
LEMMA MicroStep ==
  ASSUME PipelineInv, NEW p, Runs(p), Rank(p) <= 3, FileInv', WorkInv', op' # "start",
         UNCHANGED <<todo, ok, enabled, kind, written, root, report, notified, archived, refs, jsonPath>>,
         NEW new, new \cap (Raw \cup {Archive}) = {}, disk' \subseteq disk \cup new,
         NEW gone, disk \cap registry \subseteq (disk' \cap registry') \cup gone,
         jsonPath = "none" => gone = {},
         jsonPath = "report.json" => gone \cap (refs \cup {Json}) = {},
         jsonPath = "report.zip" /\ Archive \in disk => Archive \in disk'
  PROVE  PipelineInv'
<1>1. notified = {} /\ kind # "none" /\ ~Dead /\ ~Ahead(4)
  <2>1. Rank(p) <= 5 /\ ~(Rank(p) >= 4)
    BY RankType
  <2>q. QED
    BY <2>1, StillOpen
<1>2. Dead' = Dead /\ \A n : Ahead(n)' = Ahead(n)
  BY DEF Dead, Ahead
<1>3. OrderInv'
  <2>1. todo # <<>>
    BY DEF Runs
  <2>q. QED
    BY <2>1, <1>1, <1>2, Zenon DEF PipelineInv, OrderInv, Orderly, Dead
<1>4. Running("ZIPArchiver") => Running("ZIPArchiver")'
  BY DEF Running, Runs
<1>5. Raw \cap disk' \subseteq disk /\ (Archive \in disk' => Archive \in disk)
  OBVIOUS
<1>6. ReportInv'
  <2>1. Archive \in disk' \/ archived' # {} \/ jsonPath' = "report.zip" => Running("ZIPArchiver")'
    BY <1>1, <1>4, <1>5, Zenon DEF PipelineInv, ReportInv
  <2>2. jsonPath = "report.json" => refs \cup {Json} \subseteq disk' \cap registry'
    BY <1>1 DEF PipelineInv, ReportInv
  <2>q. QED
    BY <1>1, <1>2, <2>1, <2>2 DEF PipelineInv, ReportInv
<1>7. RawInv'
  <2>1. jsonPath = "none" => written \subseteq disk' \cap registry'
    BY <1>1 DEF PipelineInv, RawInv
  <2>2. "RawCleanup" \in ok /\ jsonPath # "none" => Raw \cap (disk' \cup archived) = {}
    BY <1>1, <1>5 DEF PipelineInv, RawInv
  <2>q. QED
    BY <1>1, <1>2, <2>1, <2>2 DEF PipelineInv, RawInv
<1>8. NotifyInv'
  BY <1>1 DEF NotifyInv
<1>q. QED
  BY <1>3, <1>6, <1>7, <1>8 DEF PipelineInv

\* A plugin ends with every file accounted for.
LEMMA PluginEnds ==
  ASSUME PipelineInv, NEW p \in Workers, Runs(p), op \in {"start", "publish", "remove"},
         NEW succeeded, End(p, succeeded), UNCHANGED fileVars \/ WriteLeaves({}), Elsewhere,
         UNCHANGED <<archived, refs, jsonPath>>,
         p = "RawCleanup" /\ succeeded => jsonPath = "none" \/ Raw \cap disk = {}
  PROVE  PipelineInv'
<1>1. Continue /\ Record(p, succeeded) /\ half' = {} /\ op' = "start" /\ p # "Commit"
  BY DEF End, Continue, Idle, Workers
<1>2. FileInv'
  BY <1>1, FilesAlone, FilesWritten DEF PipelineInv, fileVars
<1>3. disk \subseteq disk' /\ disk' \subseteq disk \cup {Stray} /\ registry' = registry
  BY DEF fileVars, WriteLeaves
<1>4. "RawCleanup" \in ok' => \/ "RawCleanup" \in ok
                              \/ Rank(p) = 2 /\ (jsonPath = "none" \/ Raw \cap disk = {})
  BY <1>1, Ranks DEF Record
<1>q. QED
  BY <1>1, <1>2, <1>3, <1>4, EndStep DEF Elsewhere

\* A plugin ends with a published file that it could not register.
LEMMA RegisterFails ==
  ASSUME PipelineInv, NEW p \in Workers, Doing(p, "register"), End(p, FALSE), fault' = TRUE,
         UNCHANGED <<disk, registry>>, Elsewhere, UNCHANGED <<archived, refs, jsonPath>>
  PROVE  PipelineInv'
<1>1. Continue /\ Record(p, FALSE) /\ half' = {} /\ op' = "start" /\ p # "Commit" /\ Runs(p) /\ op = "register"
  BY Zenon DEF End, Continue, Idle, Workers, Doing
<1>2. FileInv'
  BY <1>1, FilesUnknown DEF PipelineInv
<1>3. "RawCleanup" \in ok' => "RawCleanup" \in ok
  BY <1>1 DEF Record
<1>q. QED
  BY <1>1, <1>2, <1>3, EndStep DEF Elsewhere

\* A plugin goes on to its next file.
LEMMA SkipKeeps ==
  ASSUME PipelineInv, NEW p \in Workers \ {"RawCleanup"}, Runs(p), op \in {"publish", "remove"}, NEW f,
         Goto(op, work \ {f}, {}), UNCHANGED fileVars \/ WriteLeaves({}), Elsewhere,
         UNCHANGED <<archived, refs, jsonPath>>
  PROVE  PipelineInv'
<1>1. op' = op /\ work' = work \ {f} /\ half' = {} /\ UNCHANGED <<todo, ok>>
  BY DEF Goto
<1>2. FileInv'
  BY <1>1, FilesAlone, FilesWritten DEF PipelineInv, fileVars
<1>3. WorkInv'
  <2>1. ~Runs("RawCleanup") /\ ~Runs("RawCleanup")'
    BY <1>1, OneRuns DEF Runs
  <2>q. QED
    BY <1>1, <2>1 DEF PipelineInv, WorkInv, CopierInv, CleanupInv, ConverterInv, ArchiverInv, Running, Runs
<1>4. disk \subseteq disk' /\ disk' \subseteq disk \cup {Stray} /\ registry' = registry
  BY DEF fileVars, WriteLeaves
<1> DEFINE new == {Stray}
           gone == {}
<1>5. /\ new \cap (Raw \cup {Archive}) = {} /\ disk' \subseteq disk \cup new
      /\ disk \cap registry \subseteq (disk' \cap registry') \cup gone
      /\ gone \cap (refs \cup {Json}) = {} /\ gone = {}
  BY <1>4, FilesDiffer
<1>6. Rank(p) <= 3
  BY Ranks DEF Workers
<1> HIDE DEF new, gone
<1>q. QED
  BY <1>1, <1>2, <1>3, <1>4, <1>5, <1>6, MicroStep DEF Elsewhere

\* A file that a plugin removes is one that the report does not need.
LEMMA RemoveKeeps ==
  ASSUME PipelineInv, NEW p \in Workers, Doing(p, "remove"), NEW f \in work, RemoveFile(f), Elsewhere,
         UNCHANGED <<archived, refs, jsonPath>>
  PROVE  PipelineInv'
<1>1. /\ op = "remove" /\ Runs(p) /\ Rank(p) <= 3 /\ op' = "unregister" /\ work' = work \ {f} /\ half' = {f}
      /\ UNCHANGED <<todo, ok, registry, fault>> /\ disk' = disk \ {f}
  BY Ranks DEF Doing, RemoveFile, Goto, Workers
<1>2. FileInv'
  BY <1>1, FilesRemoved DEF PipelineInv
<1>3. WorkInv'
  BY <1>1 DEF PipelineInv, WorkInv, CopierInv, CleanupInv, ConverterInv, ArchiverInv, Running, Runs
<1>4. /\ jsonPath # "none" /\ (jsonPath = "report.json" => {f} \cap (refs \cup {Json}) = {})
      /\ jsonPath = "report.zip" => f # Archive
  <2>1. CASE p = "AttachmentCopier"
    BY <1>1, <2>1 DEF PipelineInv, WorkInv, CopierInv, Running
  <2>2. CASE p = "RawCleanup"
    BY <1>1, <2>2, FilesDiffer DEF PipelineInv, WorkInv, CleanupInv, Running, ReportInv
  <2>3. CASE p = "PNGConverter"
    BY <1>1, <2>3, FilesDiffer DEF PipelineInv, WorkInv, ConverterInv, Running
  <2>4. CASE p = "ZIPArchiver"
    BY <1>1, <2>4 DEF PipelineInv, WorkInv, ArchiverInv, Running
  <2>q. QED
    BY <2>1, <2>2, <2>3, <2>4 DEF Workers
<1> DEFINE new == {}
           gone == {f}
<1>5. /\ new \cap (Raw \cup {Archive}) = {} /\ disk' \subseteq disk \cup new
      /\ disk \cap registry \subseteq (disk' \cap registry') \cup gone
      /\ jsonPath = "none" => gone = {}
      /\ jsonPath = "report.json" => gone \cap (refs \cup {Json}) = {}
      /\ jsonPath = "report.zip" /\ Archive \in disk => Archive \in disk'
  BY <1>1, <1>4
<1> HIDE DEF new, gone
<1>q. QED
  BY <1>1, <1>2, <1>3, <1>5, MicroStep DEF Elsewhere

\* The registration follows the removal.
LEMMA UnregisterKeeps ==
  ASSUME PipelineInv, NEW p \in Workers, UnregisterFile(p), Elsewhere, UNCHANGED <<archived, refs, jsonPath>>
  PROVE  PipelineInv'
<1>1. /\ op = "unregister" /\ Runs(p) /\ Rank(p) <= 3 /\ op' = "remove" /\ work' = work /\ half' = {}
      /\ UNCHANGED <<todo, ok, disk, fault>> /\ registry' = registry \ half
  BY Ranks DEF Doing, UnregisterFile, Goto, Workers
<1>2. FileInv'
  BY <1>1, FilesUnregistered DEF PipelineInv
<1>3. WorkInv'
  BY <1>1 DEF PipelineInv, WorkInv, CopierInv, CleanupInv, ConverterInv, ArchiverInv, Running, Runs
<1>4. half \cap disk = {}
  BY <1>1 DEF PipelineInv, FileInv
<1> DEFINE new == {}
           gone == {}
<1>5. /\ new \cap (Raw \cup {Archive}) = {} /\ disk' \subseteq disk \cup new
      /\ disk \cap registry \subseteq (disk' \cap registry') \cup gone
      /\ gone \cap (refs \cup {Json}) = {} /\ gone = {}
  BY <1>1, <1>4
<1> HIDE DEF new, gone
<1>q. QED
  BY <1>1, <1>2, <1>3, <1>5, MicroStep DEF Elsewhere

-----------------------------------------------------------------------------
(* The steps.                                                              *)

\* A finalizer that has not begun holds nothing.
LEMMA InitHolds == Init => PipelineInv
<1> SUFFICES ASSUME Init PROVE PipelineInv
  OBVIOUS
<1>1. Orderly(<<>>)
  BY DEF Orderly
<1>q. QED
  BY <1>1 DEF Init, PipelineInv, OrderInv, FileInv, ReportInv, RawInv, NotifyInv, Dead, WorkInv, CopierInv,
     CleanupInv, ConverterInv, ArchiverInv, Running

\* The steps of a finalizer are in order, and the commit is among them.
LEMMA FinalizeStep ==
  ASSUME PipelineInv, Finalize
  PROVE  PipelineInv'
<1>1. /\ todo' \in Seq(STRING) /\ Orderly(todo)'
      /\ \E i \in 1 .. Len(todo') : todo'[i] = "Commit"
  <2>1. PICK on \in Configurations : enabled = Closed(on)
    BY DEF PipelineInv, OrderInv
  <2>q. QED
    BY <2>1, OrderAssumption DEF Finalize
<1>2. /\ report = "none" /\ jsonPath = "none" /\ written = {} /\ archived = {} /\ ok = {} /\ refs = {}
      /\ notified = {} /\ disk = {} /\ registry = {} /\ ~Dead /\ ~Dead' /\ op = "start"
  BY DEF Finalize, PipelineInv, OrderInv, Dead
<1>3. OrderInv'
  BY <1>1, <1>2 DEF Finalize, PipelineInv, OrderInv, stepVars
<1>4. FileInv' /\ WorkInv'
  BY <1>2 DEF Finalize, PipelineInv, FileInv, fileVars, stepVars, WorkInv, CopierInv, CleanupInv, ConverterInv,
     ArchiverInv, Running
<1>5. ReportInv' /\ RawInv' /\ NotifyInv'
  BY <1>2 DEF Finalize, ReportInv, RawInv, NotifyInv, fileVars
<1>q. QED
  BY <1>3, <1>4, <1>5 DEF PipelineInv

\* Nothing of a report outlives its finalizer.
LEMMA ReturnStep ==
  ASSUME PipelineInv, Return
  PROVE  PipelineInv'
<1>1. OrderInv' /\ op = "start"
  BY DEF Return, PipelineInv, OrderInv, Dead, stepVars
<1>2. FileInv' /\ WorkInv'
  BY <1>1 DEF Return, PipelineInv, FileInv, stepVars, WorkInv, CopierInv, CleanupInv, ConverterInv, ArchiverInv,
     Running
<1>3. ReportInv' /\ RawInv' /\ NotifyInv'
  BY DEF Return, ReportInv, RawInv, NotifyInv
<1>q. QED
  BY <1>1, <1>2, <1>3 DEF PipelineInv

\* A finalizer that cannot begin a transaction is over.
LEMMA BeginStep ==
  ASSUME PipelineInv, Begin
  PROVE  PipelineInv'
<1>1. Runs("Begin") /\ Rank("Begin") = 0 /\ op = "start" /\ op' = "start" /\ Idle
  BY Ranks DEF Begin, At, Continue, Idle
<1>2. /\ report \in {"none", "staging"} /\ notified = {} /\ kind # "none" /\ ~Dead
      /\ jsonPath = "none" /\ archived = {} /\ Archive \notin disk /\ "RawCleanup" \notin ok
      /\ written \subseteq disk \cap registry /\ written \subseteq Raw /\ refs \cap Raw = {}
  BY <1>1, EarlyState
<1>3. ~Dead' /\ report' \in {"none", "staging"}
  BY <1>2 DEF Begin, Dead
<1>4. OrderInv'
  <2>1. CASE Continue /\ report' = "staging"
    <3>1. /\ todo' \in Seq(STRING) /\ Orderly(todo)'
          /\ (\E i \in 1 .. Len(todo) : todo[i] = "Commit") => \E i \in 1 .. Len(todo') : todo'[i] = "Commit"
      BY <2>1, <1>1, ContinueStep DEF PipelineInv, OrderInv
    <3>2. \E i \in 1 .. Len(todo) : todo[i] = "Commit"
      BY <1>1, <1>2 DEF PipelineInv, OrderInv, Runs
    <3>q. QED
      BY <3>1, <3>2, <2>1, <1>1, <1>2, <1>3 DEF Begin, PipelineInv, OrderInv
  <2>2. CASE todo' = <<>> /\ UNCHANGED report
    <3>1. Orderly(<<>>)
      BY DEF Orderly
    <3>q. QED
      BY <3>1, <2>2, <1>1, <1>2, <1>3 DEF Begin, PipelineInv, OrderInv
  <2>q. QED
    BY <2>1, <2>2 DEF Begin
<1>5. FileInv' /\ WorkInv'
  BY <1>1, FilesAlone, IdleWork DEF Begin, PipelineInv, fileVars, Idle
<1>6. ReportInv' /\ RawInv' /\ NotifyInv'
  BY <1>2 DEF Begin, ReportInv, RawInv, NotifyInv, fileVars
<1>q. QED
  BY <1>4, <1>5, <1>6 DEF PipelineInv

\* A step before report.json is written adds files, and no archive.
LEMMA EarlyStep ==
  ASSUME PipelineInv, NEW step, At(step), Rank(step) = 0, Continue,
         UNCHANGED <<enabled, kind, archived, refs, jsonPath, root, report, notified, ok>>,
         NEW new \in SUBSET Raw, Write(new) \/ WriteLeaves(new), written' = written \cup new
  PROVE  PipelineInv'
<1>1. Runs(step) /\ op = "start" /\ op' = "start" /\ half' = {} /\ step # "Commit"
  BY Ranks DEF At, Continue, Idle
<1>2. /\ report \in {"none", "staging"} /\ notified = {} /\ kind # "none" /\ ~Dead
      /\ jsonPath = "none" /\ archived = {} /\ Archive \notin disk /\ "RawCleanup" \notin ok
      /\ written \subseteq disk \cap registry /\ written \subseteq Raw /\ refs \cap Raw = {}
  BY <1>1, EarlyState
<1>3. OrderInv'
  BY <1>1, OrderKept DEF PipelineInv, OrderInv
<1>4. FileInv' /\ WorkInv'
  BY <1>1, FilesWritten, IdleWork DEF PipelineInv, Continue
<1>5. /\ disk \cup new \subseteq disk' /\ registry \cup new \subseteq registry' /\ Archive \notin disk'
  BY <1>2, FilesDiffer DEF Write, WriteLeaves
<1>6. ReportInv' /\ RawInv' /\ NotifyInv'
  BY <1>2, <1>5 DEF ReportInv, RawInv, NotifyInv
<1>q. QED
  BY <1>3, <1>4, <1>6 DEF PipelineInv

\* write_raw_stage1 writes and registers, or leaves a temporary.
LEMMA Stage1RawStep ==
  ASSUME PipelineInv, Stage1Raw
  PROVE  PipelineInv'
<1>1. PICK new \in {{}, {Threads}} : (Write(new) \/ WriteLeaves(new)) /\ written' = written \cup new
  BY DEF Stage1Raw
<1>2. new \in SUBSET Raw
  BY <1>1 DEF Raw
<1>q. QED
  BY <1>1, <1>2, EarlyStep, Ranks DEF Stage1Raw

\* write_raw_shm_stage1 likewise.
LEMMA Stage1ShmStep ==
  ASSUME PipelineInv, Stage1Shm
  PROVE  PipelineInv'
<1>1. PICK new \in {{}, {Breadcrumbs}, {Breadcrumbs, Context}} :
          (Write(new) \/ WriteLeaves(new)) /\ written' = written \cup new
  BY DEF Stage1Shm
<1>2. new \in SUBSET Raw
  BY <1>1 DEF Raw
<1>q. QED
  BY <1>1, <1>2, EarlyStep, Ranks DEF Stage1Shm

\* An attachment is no archive and no raw evidence.
LEMMA AttachmentCopierStep ==
  ASSUME PipelineInv, AttachmentCopier
  PROVE  PipelineInv'
<1> DEFINE p == "AttachmentCopier"
<1>1. p \in Workers \ {"RawCleanup"} /\ Rank(p) <= 3 /\ Elsewhere /\ UNCHANGED <<archived, refs, jsonPath>>
  BY Ranks DEF Workers, AttachmentCopier
<1>2. PipelineInv /\ FileInv /\ (Running(p) => work \subseteq {Attachment} /\ op \in {"publish", "register"})
  BY DEF PipelineInv, WorkInv, CopierInv
<1>3. ASSUME Runs(p), op' \in {"publish", "register"}, work' \subseteq {Attachment}, FileInv', UNCHANGED <<todo, ok>>,
             disk' \subseteq disk \cup {Attachment}, disk \subseteq disk', registry \subseteq registry'
      PROVE  PipelineInv'
  <2>1. WorkInv'
    <3>1. Runs(p)' /\ \A q : Runs(q)' => q = p
      BY <1>3 DEF Runs
    <3>q. QED
      BY <1>3, <3>1 DEF WorkInv, CopierInv, CleanupInv, ConverterInv, ArchiverInv, Running
  <2> DEFINE new == {Attachment}
             gone == {}
  <2>2. /\ new \cap (Raw \cup {Archive}) = {} /\ disk' \subseteq disk \cup new
        /\ disk \cap registry \subseteq (disk' \cap registry') \cup gone
        /\ gone \cap (refs \cup {Json}) = {} /\ gone = {} /\ (Archive \in disk => Archive \in disk')
    BY <1>3, FilesDiffer
  <2> HIDE DEF new, gone, p
  <2>q. QED
    BY <1>1, <1>3, <2>1, <2>2, MicroStep DEF Elsewhere
<1>4. CASE At(p) /\ Returns(p)
  BY <1>1, <1>4, PluginEnds DEF At, Returns
<1>5. CASE At(p) /\ Goto("publish", {Attachment}, {}) /\ UNCHANGED fileVars
  <2>1. Runs(p) /\ op = "start" /\ op' = "publish" /\ work' = {Attachment} /\ half' = {} /\ UNCHANGED <<todo, ok>>
    BY <1>5 DEF At, Goto
  <2>2. UNCHANGED <<disk, registry, fault>>
    BY <1>5 DEF fileVars
  <2>q. QED
    BY <1>2, <1>3, <2>1, <2>2, FilesAlone
<1>6. ASSUME Doing(p, "publish"), NEW f \in work, CopyAttachment(f) PROVE PipelineInv'
  <2>1. Runs(p) /\ op = "publish" /\ f = Attachment
    BY <1>2, <1>6 DEF Doing, Running
  <2>2. CASE Skip(f) \/ (Goto(op, work \ {f}, {}) /\ WriteLeaves({}))
    BY <1>1, <2>1, <2>2, SkipKeeps DEF Skip
  <2>3. CASE Fails(p) \/ (End(p, FALSE) /\ WriteLeaves({}))
    BY <1>1, <2>1, <2>3, PluginEnds, Zenon DEF Fails
  <2>4. CASE PublishFile({f}, work \ {f})
    <3>1. /\ op' = "register" /\ work' = work \ {f} /\ UNCHANGED <<todo, ok, registry>>
          /\ disk' = disk \cup {f}
      BY <2>4 DEF PublishFile, Goto
    <3>2. FileInv'
      BY <1>2, <2>1, <2>4, FilesPublished, FilesDiffer
    <3>3. work \subseteq {Attachment}
      BY <1>2, <2>1 DEF Running
    <3>q. QED
      BY <1>3, <2>1, <3>1, <3>2, <3>3
  <2>q. QED
    BY <1>6, <2>2, <2>3, <2>4, Zenon DEF CopyAttachment
<1>7. CASE RegisterFile(p, "publish")
  <2>1. Doing(p, "register") /\ Runs(p) /\ op = "register" /\ disk' = disk
    BY <1>7 DEF RegisterFile, Doing
  <2>2. CASE registry' = registry \cup half /\ Goto("publish", work, {}) /\ UNCHANGED fault
    <3>1. op' = "publish" /\ work' = work /\ half' = {} /\ UNCHANGED <<todo, ok>>
      BY <2>2 DEF Goto
    <3>2. FileInv'
      BY <1>2, <2>1, <2>2, <3>1, FilesRegistered
    <3>q. QED
      BY <1>2, <1>3, <2>1, <2>2, <3>1, <3>2 DEF Running
  <2>3. CASE End(p, FALSE) /\ fault' = TRUE /\ UNCHANGED registry
    BY <1>1, <2>1, <2>3, RegisterFails, Zenon
  <2>q. QED
    BY <1>7, <2>2, <2>3, Zenon DEF RegisterFile
<1>8. CASE Doing(p, "publish") /\ work = {} /\ Returns(p)
  BY <1>1, <1>8, PluginEnds DEF Doing, Returns
<1>q. QED
  BY <1>4, <1>5, <1>6, <1>7, <1>8 DEF AttachmentCopier

\* A filter rejects the event or lets it pass.
LEMMA FilterStep ==
  ASSUME PipelineInv, NEW p \in Range(Filters), Filter(p)
  PROVE  PipelineInv'
<1>1. At(p) /\ Runs(p) /\ Rank(p) = 0 /\ p \notin {"Commit", "RawCleanup"}
  BY TheFilters, Ranks DEF Filter, At
<1>2. CASE Continue /\ (\E succeeded \in BOOLEAN : Record(p, succeeded)) /\ UNCHANGED <<report, fileVars>>
  BY <1>1, <1>2, RecordOther, Untouched DEF Filter, fileVars
<1>3. CASE Abandon /\ report' = "rejected" /\ UNCHANGED ok
  <2>1. kind # "none" /\ report \in {"none", "staging"}
    BY <1>1, StillOpen
  <2>q. QED
    BY <2>1, <1>3, AbandonStep DEF Filter
<1>q. QED
  BY <1>2, <1>3 DEF Filter

\* The fingerprint is no file.
LEMMA FingerprinterStep ==
  ASSUME PipelineInv, Fingerprinter
  PROVE  PipelineInv'
<1>1. "RawCleanup" \in ok' => "RawCleanup" \in ok
  BY RecordOther DEF Fingerprinter
<1>q. QED
  BY <1>1, Untouched DEF Fingerprinter, fileVars

\* Neither is the table of recent events.
LEMMA DuplicateDetectorStep ==
  ASSUME PipelineInv, DuplicateDetector
  PROVE  PipelineInv'
<1>1. "RawCleanup" \in ok' => "RawCleanup" \in ok
  BY RecordOther, Zenon DEF DuplicateDetector
<1>q. QED
  BY <1>1, Untouched DEF DuplicateDetector, fileVars

\* A duplicate is abandoned.
LEMMA DuplicateCheckStep ==
  ASSUME PipelineInv, DuplicateCheck
  PROVE  PipelineInv'
<1>1. CASE "duplicate" \in data
  <2>1. kind # "none" /\ report \in {"none", "staging"}
    BY Ranks, StillOpen DEF DuplicateCheck, At
  <2>q. QED
    BY <1>1, <2>1, AbandonStep DEF DuplicateCheck
<1>2. CASE "duplicate" \notin data
  BY <1>2, Untouched DEF DuplicateCheck, fileVars
<1>q. QED
  BY <1>1, <1>2

\* report.json names only what it was written with; it is the first file of a
\* result.
LEMMA Stage2JsonStep ==
  ASSUME PipelineInv, Stage2Json
  PROVE  PipelineInv'
<1>1. /\ Runs("Stage2Json") /\ Rank("Stage2Json") = 1 /\ Continue
      /\ op = "start" /\ op' = "start" /\ half' = {} /\ Idle
  BY Ranks DEF Stage2Json, At, Continue, Idle
<1>2. /\ report \in {"none", "staging"} /\ notified = {} /\ kind # "none" /\ ~Dead
      /\ jsonPath = "none" /\ archived = {} /\ Archive \notin disk /\ "RawCleanup" \notin ok
      /\ written \subseteq disk \cap registry /\ written \subseteq Raw /\ refs \cap Raw = {}
  BY <1>1, EarlyState
<1>3. Ahead(2)'
  BY <1>1, BehindKept DEF PipelineInv
<1>4. PICK shots \in IF kind = "captured" THEN SUBSET Rgba ELSE {{}}, json \in {{}, {Json}} :
          /\ Write(shots \cup json) \/ WriteLeaves(shots \cup json)
          /\ IF json = {}
             THEN UNCHANGED <<refs, jsonPath>>
             ELSE /\ refs' = shots \cup (registry \cap {Attachment})
                  /\ jsonPath' \in {"report.json"} \cup (IF kind = "emergency" THEN {} ELSE {"none"})
  BY DEF Stage2Json
<1>5. shots \subseteq Rgba /\ jsonPath' \in {"none", "report.json"}
  BY <1>2, <1>4
<1>6. FileInv' /\ WorkInv'
  BY <1>1, <1>4, FilesWritten, IdleWork DEF PipelineInv
<1>7. /\ registry' = registry \cup shots \cup json /\ disk \cup shots \cup json \subseteq disk'
      /\ Archive \notin disk'
  <2>1. Archive \notin shots \cup json \cup {Stray}
    BY <1>4, <1>5, FilesDiffer
  <2>q. QED
    BY <2>1, <1>2, <1>4 DEF Write, WriteLeaves
<1>8. OrderInv'
  BY <1>1, <1>5, OrderKept DEF PipelineInv, Stage2Json
<1>9. refs' \cap Raw = {} /\ (jsonPath' = "report.json" => refs' \cup {Json} \subseteq disk' \cap registry')
  <2>1. registry \subseteq disk
    BY <1>1 DEF PipelineInv, FileInv
  <2>q. QED
    BY <2>1, <1>2, <1>4, <1>5, <1>7, FilesDiffer
<1>10. ReportInv'
  BY <1>2, <1>3, <1>5, <1>7, <1>9 DEF ReportInv, Stage2Json
<1>11. RawInv'
  BY <1>2, <1>7 DEF RawInv, Stage2Json
<1>12. NotifyInv'
  BY <1>2 DEF NotifyInv, Stage2Json
<1>q. QED
  BY <1>6, <1>8, <1>10, <1>11, <1>12 DEF PipelineInv

\* RawCleanup removes raw evidence only, and only once there is a report; when
\* it succeeds none is left.
LEMMA RawCleanupStep ==
  ASSUME PipelineInv, RawCleanup
  PROVE  PipelineInv'
<1> DEFINE p == "RawCleanup"
<1>1. p \in Workers /\ Rank(p) <= 3 /\ Elsewhere /\ UNCHANGED <<archived, refs, jsonPath>>
  BY Ranks DEF Workers, RawCleanup
<1>2. PipelineInv /\ FileInv /\ (Running(p) => disk \cap Raw \subseteq work)
  BY DEF PipelineInv, WorkInv, CleanupInv
<1>3. CASE At(p) /\ (Fails(p) \/ (jsonPath = "none" /\ Returns(p)))
  BY <1>1, <1>3, PluginEnds, Zenon DEF At, Fails, Returns
<1>4. CASE At(p) /\ jsonPath # "none" /\ Goto("remove", registry \cap Raw, {}) /\ UNCHANGED fileVars
  <2>1. /\ Runs(p) /\ op = "start" /\ op' = "remove" /\ work' = registry \cap Raw /\ half' = {}
        /\ UNCHANGED <<todo, ok>> /\ UNCHANGED <<disk, registry, fault>>
    BY <1>4 DEF At, Goto, fileVars
  <2>2. FileInv'
    BY <1>2, <2>1, FilesAlone
  <2>3. WorkInv'
    <3>1. \A q : Runs(q)' => q = p
      BY <2>1 DEF Runs
    <3>2. disk \cap Raw \subseteq registry
      BY <1>2 DEF FileInv
    <3>q. QED
      BY <1>1, <1>4, <2>1, <3>1, <3>2 DEF WorkInv, CopierInv, CleanupInv, ConverterInv, ArchiverInv, Running
  <2> DEFINE new == {}
             gone == {}
  <2>4. /\ new \cap (Raw \cup {Archive}) = {} /\ disk' \subseteq disk \cup new
        /\ disk \cap registry \subseteq (disk' \cap registry') \cup gone
        /\ gone \cap (refs \cup {Json}) = {} /\ gone = {}
    BY <2>1
  <2> HIDE DEF new, gone, p
  <2>q. QED
    BY <1>1, <2>1, <2>2, <2>3, <2>4, MicroStep DEF Elsewhere
<1>5. ASSUME Doing(p, "remove"), NEW f \in work, RemoveFile(f) PROVE PipelineInv'
  BY <1>1, <1>5, RemoveKeeps
<1>6. CASE Doing(p, "remove") /\ Fails(p)
  BY <1>1, <1>6, PluginEnds, Zenon DEF Doing, Fails
<1>7. CASE UnregisterFile(p)
  BY <1>1, <1>7, UnregisterKeeps
<1>8. CASE Doing(p, "remove") /\ work = {} /\ Returns(p)
  <2>1. Raw \cap disk = {} /\ Runs(p) /\ op = "remove"
    BY <1>2, <1>8 DEF Doing, Running
  <2>q. QED
    BY <1>1, <1>8, <2>1, PluginEnds DEF Returns
<1>q. QED
  BY <1>3, <1>4, <1>5, <1>6, <1>7, <1>8 DEF RawCleanup, StartCleanup

\* The state in which PNGConverter and FeedbackDialog run.
LEMMA ReworkState ==
  ASSUME PipelineInv, NEW step, Runs(step), Rank(step) = 2
  PROVE  /\ notified = {} /\ kind # "none" /\ ~Dead /\ archived = {} /\ Archive \notin disk
         /\ jsonPath # "report.zip" /\ refs \cap Raw = {}
         /\ jsonPath = "report.json" => refs \cup {Json} \subseteq disk \cap registry
<1>1. notified = {} /\ kind # "none" /\ ~Dead
  BY StillOpen
<1>2. archived = {} /\ Archive \notin disk /\ jsonPath # "report.zip"
  BY NoArchive, Ranks
<1>q. QED
  BY <1>1, <1>2 DEF PipelineInv, ReportInv

\* report.json names the PNGs that are registered instead of their screenshots.
LEMMA ReplaceStep ==
  ASSUME PipelineInv, Doing("PNGConverter", "publish"), Elsewhere, UNCHANGED <<archived, jsonPath>>,
         refs' = (refs \ Converted) \cup Png(Converted), Goto("remove", Converted, {}), UNCHANGED fileVars
  PROVE  PipelineInv'
<1>1. /\ Runs("PNGConverter") /\ Rank("PNGConverter") = 2 /\ op = "publish"
      /\ op' = "remove" /\ work' = Converted /\ half' = {} /\ UNCHANGED <<todo, ok>>
      /\ UNCHANGED <<disk, registry, fault>>
  BY Ranks DEF Doing, Goto, fileVars
<1>2. /\ notified = {} /\ kind # "none" /\ ~Dead /\ archived = {} /\ Archive \notin disk
      /\ jsonPath # "report.zip" /\ refs \cap Raw = {}
      /\ jsonPath = "report.json" => refs \cup {Json} \subseteq disk \cap registry
  BY <1>1, ReworkState
<1>3. jsonPath = "report.json"
  BY <1>1 DEF PipelineInv, WorkInv, ConverterInv, Running
<1>4. Dead' = Dead /\ (\A n : Ahead(n)' = Ahead(n)) /\ UNCHANGED <<enabled, kind, written, root, report, notified>>
  BY <1>1 DEF Dead, Ahead, Elsewhere
<1>5. OrderInv'
  <2>1. todo # <<>>
    BY <1>1 DEF Runs
  <2>q. QED
    BY <2>1, <1>1, <1>2, <1>4, Zenon DEF PipelineInv, OrderInv, Orderly, Dead
<1>6. FileInv'
  BY <1>1, FilesAlone DEF PipelineInv
<1>7. Png(Converted) \subseteq registry /\ Converted \subseteq Rgba
  BY DEF Converted, Png
<1>8. Png(Converted) \subseteq disk
  BY <1>1, <1>7 DEF PipelineInv, FileInv
<1>9. Png(Converted) \cap (Raw \cup Rgba \cup {Json}) = {}
  BY <1>7, PngsDiffer
<1>10. WorkInv'
  <2>1. \A q : Runs(q)' => q = "PNGConverter"
    BY <1>1 DEF Runs
  <2>q. QED
    BY <1>1, <1>3, <1>7, <1>9, <2>1 DEF WorkInv, CopierInv, CleanupInv, ConverterInv, ArchiverInv, Running
<1>11. refs' \cap Raw = {} /\ refs' \cup {Json} \subseteq disk \cap registry
  BY <1>2, <1>3, <1>7, <1>8, <1>9
<1>12. ReportInv'
  BY <1>1, <1>2, <1>3, <1>4, <1>11 DEF PipelineInv, ReportInv
<1>13. RawInv'
  BY <1>1, <1>2, <1>3, <1>4 DEF PipelineInv, RawInv
<1>14. NotifyInv'
  BY <1>2, <1>4 DEF NotifyInv
<1>q. QED
  BY <1>5, <1>6, <1>10, <1>12, <1>13, <1>14 DEF PipelineInv

\* A screenshot is removed once report.json names its PNG instead.
LEMMA PNGConverterStep ==
  ASSUME PipelineInv, PNGConverter
  PROVE  PipelineInv'
<1> DEFINE p == "PNGConverter"
<1>1. p \in Workers \ {"RawCleanup"} /\ Rank(p) = 2 /\ Elsewhere /\ UNCHANGED <<archived, jsonPath>>
  BY Ranks DEF Workers, PNGConverter
<1>2. PipelineInv /\ FileInv /\ (Running(p) => jsonPath = "report.json" /\ work \subseteq Rgba)
  BY DEF PipelineInv, WorkInv, ConverterInv
<1>3. ASSUME Runs(p), jsonPath = "report.json", op' \in {"publish", "register"}, work' \subseteq Rgba, FileInv',
             UNCHANGED <<todo, ok, refs>>,
             NEW shots \in SUBSET Rgba,
             disk' = disk \cup Png(shots), registry \subseteq registry'
      PROVE  PipelineInv'
  <2>1. WorkInv'
    <3>1. \A q : Runs(q)' => q = p
      BY <1>3 DEF Runs
    <3>q. QED
      BY <1>1, <1>3, <3>1 DEF WorkInv, CopierInv, CleanupInv, ConverterInv, ArchiverInv, Running
  <2> DEFINE new == Png(shots)
             gone == {}
  <2>2. /\ new \cap (Raw \cup {Archive}) = {} /\ disk' \subseteq disk \cup new
        /\ disk \cap registry \subseteq (disk' \cap registry') \cup gone
        /\ gone \cap (refs \cup {Json}) = {} /\ gone = {} /\ (Archive \in disk => Archive \in disk')
    BY <1>3, PngsDiffer
  <2>3. Rank(p) <= 3 /\ op' # "start"
    BY <1>1, <1>3
  <2> HIDE DEF new, gone, p
  <2>q. QED
    BY <1>1, <1>3, <2>1, <2>2, <2>3, MicroStep DEF Elsewhere
<1>4. CASE At(p) /\ (Fails(p) \/ (jsonPath = "none" /\ Returns(p))) /\ UNCHANGED refs
  BY <1>1, <1>4, PluginEnds, Zenon DEF At, Fails, Returns
<1>5. CASE At(p) /\ jsonPath = "report.json" /\ Goto("publish", refs \cap Rgba, {}) /\ UNCHANGED fileVars /\ UNCHANGED refs
  <2>1. /\ Runs(p) /\ op = "start" /\ op' = "publish" /\ work' = refs \cap Rgba /\ half' = {}
        /\ UNCHANGED <<todo, ok>> /\ UNCHANGED <<disk, registry, fault>>
    BY <1>5 DEF At, Goto, fileVars
  <2>2. FileInv'
    BY <1>2, <2>1, FilesAlone
  <2>3. {} \in SUBSET Rgba /\ Png({}) = {}
    BY DEF Png
  <2>4. disk' = disk \cup Png({}) /\ work' \subseteq Rgba /\ registry \subseteq registry'
    BY <2>1, <2>3
  <2> HIDE DEF p
  <2>q. QED
    BY <1>3, <1>5, <2>1, <2>2, <2>3, <2>4
<1>6. ASSUME Doing(p, "publish"), NEW f \in work, ConvertOne(f), UNCHANGED refs PROVE PipelineInv'
  <2>1. Runs(p) /\ op = "publish" /\ f \in Rgba /\ jsonPath = "report.json" /\ work \subseteq Rgba
    BY <1>2, <1>6 DEF Doing, Running
  <2>2. CASE Skip(f) \/ (Goto(op, work \ {f}, {}) /\ WriteLeaves({}))
    BY <1>1, <1>6, <2>1, <2>2, SkipKeeps DEF Skip
  <2>3. CASE Fails(p)
    BY <1>1, <1>6, <2>1, <2>3, PluginEnds, Zenon DEF Fails
  <2>4. CASE PublishFile(Png({f}), work \ {f})
    <3>1. /\ op' = "register" /\ work' = work \ {f} /\ UNCHANGED <<todo, ok, registry>>
          /\ disk' = disk \cup Png({f})
      BY <2>4 DEF PublishFile, Goto
    <3>2. {f} \in SUBSET Rgba /\ Png({f}) \cap Raw = {}
      BY <2>1, PngsDiffer
    <3>3. FileInv'
      BY <1>2, <2>1, <2>4, <3>2, FilesPublished
    <3>4. op' \in {"publish", "register"} /\ work' \subseteq Rgba /\ registry \subseteq registry'
      BY <2>1, <3>1
    <3> HIDE DEF p
    <3>q. QED
      BY <1>3, <1>6, <2>1, <3>1, <3>2, <3>3, <3>4
  <2>q. QED
    BY <1>6, <2>2, <2>3, <2>4 DEF ConvertOne
<1>7. CASE RegisterFile(p, "publish") /\ UNCHANGED refs
  <2>1. Doing(p, "register") /\ Runs(p) /\ op = "register" /\ disk' = disk
    BY <1>7 DEF RegisterFile, Doing
  <2>2. CASE registry' = registry \cup half /\ Goto("publish", work, {}) /\ UNCHANGED fault
    <3>1. op' = "publish" /\ work' = work /\ half' = {} /\ UNCHANGED <<todo, ok>>
      BY <2>2 DEF Goto
    <3>2. FileInv'
      BY <1>2, <2>1, <2>2, <3>1, FilesRegistered
    <3>3. {} \in SUBSET Rgba /\ Png({}) = {}
      BY DEF Png
    <3>4. /\ disk' = disk \cup Png({}) /\ work' \subseteq Rgba /\ registry \subseteq registry'
          /\ jsonPath = "report.json"
      BY <1>2, <2>1, <2>2, <3>1, <3>3 DEF Running
    <3> HIDE DEF p
    <3>q. QED
      BY <1>3, <1>7, <2>1, <3>1, <3>2, <3>3, <3>4
  <2>3. CASE End(p, FALSE) /\ fault' = TRUE /\ UNCHANGED registry
    BY <1>1, <1>7, <2>1, <2>3, RegisterFails, Zenon
  <2>q. QED
    BY <1>7, <2>2, <2>3, Zenon DEF RegisterFile
<1>8. ASSUME Doing(p, "remove"), NEW f \in work, RemoveFile(f) \/ Skip(f), UNCHANGED refs PROVE PipelineInv'
  BY <1>1, <1>8, RemoveKeeps, SkipKeeps DEF Skip, Doing
<1>9. CASE UnregisterFile(p) /\ UNCHANGED refs
  BY <1>1, <1>9, UnregisterKeeps
<1>10. CASE Doing(p, "remove") /\ work = {} /\ Returns(p) /\ UNCHANGED refs
  BY <1>1, <1>10, PluginEnds DEF Doing, Returns
<1>11. CASE Doing(p, "publish") /\ work = {} /\ ReplaceReport
  <2>1. Runs(p) /\ op = "publish" /\ Doing(p, "publish")
    BY <1>11 DEF Doing
  <2>2. CASE (Returns(p) \/ Fails(p) \/ (End(p, FALSE) /\ WriteLeaves({}))) /\ UNCHANGED refs
    BY <1>1, <2>1, <2>2, PluginEnds, Zenon DEF Fails, Returns
  <2>3. CASE refs' = (refs \ Converted) \cup Png(Converted) /\ Goto("remove", Converted, {}) /\ UNCHANGED fileVars
    BY <1>1, <2>1, <2>3, ReplaceStep
  <2>q. QED
    BY <1>11, <2>2, <2>3, Zenon DEF ReplaceReport
<1>q. QED
  BY <1>4, <1>5, <1>6, <1>7, <1>8, <1>9, <1>10, <1>11 DEF PNGConverter

\* The feedback dialog replaces report.json in place.
LEMMA FeedbackDialogStep ==
  ASSUME PipelineInv, FeedbackDialog
  PROVE  PipelineInv'
<1>1. /\ Runs("FeedbackDialog") /\ op = "start" /\ Continue
      /\ UNCHANGED <<enabled, kind, written, archived, refs, jsonPath, root, report, notified>>
  BY DEF FeedbackDialog, At
<1>2. "RawCleanup" \in ok' => "RawCleanup" \in ok
  BY RecordOther, Zenon DEF FeedbackDialog
<1>3. UNCHANGED <<disk, registry, fault>> \/ WriteLeaves({})
  BY Zenon DEF FeedbackDialog, fileVars
<1>4. FileInv'
  BY <1>1, <1>3, FilesAlone, FilesWritten DEF PipelineInv, Continue, Idle
<1>5. disk \subseteq disk' /\ disk' \subseteq disk \cup {Stray} /\ registry' = registry
  BY <1>3 DEF WriteLeaves
<1>q. QED
  BY <1>1, <1>2, <1>4, <1>5, EndStep

\* The archive holds what was registered, report.json and what it names with
\* it; it is the report once it is registered itself.
LEMMA ArchiveSteps ==
  ASSUME PipelineInv, Runs("ZIPArchiver"), Elsewhere, UNCHANGED refs,
         \/ /\ op = "start" /\ jsonPath # "none" /\ registry \subseteq disk /\ UNCHANGED jsonPath
            /\ PublishFile({Archive}, registry) /\ archived' = registry
         \/ /\ op = "register" /\ UNCHANGED <<disk, fault, archived>> /\ jsonPath' = "report.zip"
            /\ registry' = registry \cup half /\ Goto("remove", work, {})
  PROVE  PipelineInv'
<1>1. /\ Rank("ZIPArchiver") = 3 /\ UNCHANGED <<todo, ok, enabled, kind, written, root, report, notified>>
      /\ op' \in {"register", "remove"}
  BY Ranks DEF Elsewhere, PublishFile, Goto
<1>2. notified = {} /\ kind # "none" /\ ~Dead /\ ~Ahead(4)
  BY <1>1, StillOpen
<1>3. Dead' = Dead /\ (\A n : Ahead(n)' = Ahead(n)) /\ Running("ZIPArchiver")' /\ todo # <<>>
  BY <1>1 DEF Dead, Ahead, Running, Runs
<1>4. /\ refs \cap Raw = {} /\ (jsonPath = "report.json" => refs \cup {Json} \subseteq disk \cap registry)
      /\ written \subseteq Raw /\ (jsonPath # "none" => Ahead(2)) /\ ("RawCleanup" \in ok => Ahead(2))
      /\ "RawCleanup" \in ok /\ jsonPath # "none" => Raw \cap (disk \cup archived) = {}
      /\ jsonPath \in {"none", "report.json", "report.zip"}
  BY <1>2 DEF PipelineInv, OrderInv, ReportInv, RawInv
<1>5. \A q : Runs(q)' => q = "ZIPArchiver"
  BY <1>1 DEF Runs
<1>6. ASSUME jsonPath' \in {"report.json", "report.zip"} PROVE OrderInv'
  BY <1>1, <1>2, <1>3, <1>6, Zenon DEF PipelineInv, OrderInv, Orderly, Dead
<1>7. NotifyInv'
  BY <1>1, <1>2 DEF NotifyInv
<1>8. ASSUME op = "start", jsonPath # "none", registry \subseteq disk, UNCHANGED jsonPath,
             PublishFile({Archive}, registry), archived' = registry
      PROVE  PipelineInv'
  <2>1. /\ op' = "register" /\ work' = registry /\ half' = {Archive}
        /\ disk' = disk \cup {Archive} /\ registry' = registry
    BY <1>8 DEF PublishFile, Goto
  <2>2. archived = {} /\ Archive \notin disk /\ jsonPath = "report.json"
    BY <1>1, <1>4, <1>8, NoArchive
  <2>3. FileInv'
    BY <1>8, FilesPublished, FilesDiffer DEF PipelineInv
  <2>4. WorkInv'
    BY <1>5, <1>8, <2>1, <2>2 DEF WorkInv, CopierInv, CleanupInv, ConverterInv, ArchiverInv, Running
  <2>5. ReportInv'
    BY <1>1, <1>2, <1>3, <1>4, <1>8, <2>1, <2>2 DEF ReportInv
  <2>6. Raw \cap (disk' \cup archived') \subseteq Raw \cap disk
    BY <1>8, <2>1, FilesDiffer
  <2>7. RawInv'
    BY <1>1, <1>2, <1>3, <1>4, <1>8, <2>2, <2>6 DEF RawInv
  <2>q. QED
    BY <1>6, <1>7, <1>8, <2>2, <2>3, <2>4, <2>5, <2>7 DEF PipelineInv
<1>9. ASSUME op = "register", UNCHANGED <<disk, fault, archived>>, jsonPath' = "report.zip",
             registry' = registry \cup half, Goto("remove", work, {})
      PROVE  PipelineInv'
  <2>1. op' = "remove" /\ work' = work /\ half' = {}
    BY <1>9 DEF Goto
  <2>2. /\ half = {Archive} /\ jsonPath = "report.json" /\ archived = registry
        /\ work \subseteq archived /\ Archive \notin work
    BY <1>9 DEF PipelineInv, WorkInv, ArchiverInv, Running
  <2>3. FileInv' /\ Archive \in disk
    BY <1>9, <2>1, <2>2, FilesRegistered DEF PipelineInv, FileInv
  <2>4. WorkInv'
    BY <1>5, <1>9, <2>1, <2>2 DEF WorkInv, CopierInv, CleanupInv, ConverterInv, ArchiverInv, Running
  <2>5. ReportInv'
    BY <1>1, <1>2, <1>3, <1>4, <1>9, <2>2, <2>3 DEF ReportInv
  <2>6. RawInv'
    BY <1>1, <1>2, <1>3, <1>4, <1>9, <2>2 DEF RawInv
  <2>q. QED
    BY <1>6, <1>7, <1>9, <2>3, <2>4, <2>5, <2>6 DEF PipelineInv
<1>q. QED
  BY <1>8, <1>9

\* Whatever of its inputs is removed, the archive has it.
LEMMA ZIPArchiverStep ==
  ASSUME PipelineInv, ZIPArchiver
  PROVE  PipelineInv'
<1> DEFINE p == "ZIPArchiver"
<1>1. p \in Workers \ {"RawCleanup"} /\ Elsewhere /\ UNCHANGED refs
  BY DEF Workers, ZIPArchiver
<1>2. CASE At(p) /\ StartArchive /\ UNCHANGED jsonPath
  <2>1. Runs(p) /\ op = "start"
    BY <1>2 DEF At
  <2>2. CASE (Fails(p) \/ Returns(p) \/ (End(p, FALSE) /\ WriteLeaves({}))) /\ UNCHANGED archived
    BY <1>1, <1>2, <2>1, <2>2, PluginEnds, Zenon DEF Fails, Returns
  <2>3. CASE /\ jsonPath # "none" /\ registry \subseteq disk
             /\ PublishFile({Archive}, registry) /\ archived' = registry
    BY <1>1, <1>2, <2>1, <2>3, ArchiveSteps
  <2>q. QED
    BY <1>2, <2>2, <2>3, Zenon DEF StartArchive
<1>3. CASE /\ RegisterFile(p, "remove") /\ UNCHANGED archived
           /\ jsonPath' = IF op' = "remove" THEN "report.zip" ELSE jsonPath
  <2>1. Doing(p, "register") /\ Runs(p) /\ op = "register" /\ disk' = disk
    BY <1>3 DEF RegisterFile, Doing
  <2>2. CASE registry' = registry \cup half /\ Goto("remove", work, {}) /\ UNCHANGED fault
    <3>1. jsonPath' = "report.zip"
      BY <1>3, <2>2 DEF Goto
    <3>q. QED
      BY <1>1, <1>3, <2>1, <2>2, <3>1, ArchiveSteps
  <2>3. CASE End(p, FALSE) /\ fault' = TRUE /\ UNCHANGED registry
    <3>1. UNCHANGED jsonPath
      BY <1>3, <2>3 DEF End, Continue, Idle
    <3>q. QED
      BY <1>1, <1>3, <2>1, <2>3, <3>1, RegisterFails, Zenon
  <2>q. QED
    BY <1>3, <2>2, <2>3, Zenon DEF RegisterFile
<1>4. ASSUME Doing(p, "remove"), NEW f \in work, RemoveFile(f) \/ Skip(f) \/ Fails(p), UNCHANGED <<archived, jsonPath>>
      PROVE  PipelineInv'
  BY <1>1, <1>4, RemoveKeeps, SkipKeeps, PluginEnds, Zenon DEF Skip, Doing, Fails
<1>5. CASE UnregisterFile(p) /\ UNCHANGED <<archived, jsonPath>>
  BY <1>1, <1>5, UnregisterKeeps
<1>6. CASE Doing(p, "remove") /\ work = {} /\ Returns(p) /\ UNCHANGED <<archived, jsonPath>>
  BY <1>1, <1>6, PluginEnds DEF Doing, Returns
<1>q. QED
  BY <1>2, <1>3, <1>4, <1>5, <1>6 DEF ZIPArchiver

\* The destination is chosen before a path is handed out.
LEMMA MoveToSentStep ==
  ASSUME PipelineInv, MoveToSent
  PROVE  PipelineInv'
<1>1. Runs("MoveToSent") /\ Rank("MoveToSent") = 4 /\ Continue /\ ~Running("ZIPArchiver")
  BY Ranks DEF MoveToSent, At, Running
<1>2. notified = {} /\ (Dead' <=> Dead)
  BY <1>1, StillOpen DEF MoveToSent, Dead
<1>3. "RawCleanup" \in ok' => "RawCleanup" \in ok
  BY RecordOther DEF MoveToSent
<1>4. OrderInv' /\ (Ahead(2) => Ahead(2)') /\ (Ahead(4) => Ahead(4)')
  BY <1>1, OrderKept, BehindKept, Zenon DEF PipelineInv, OrderInv, MoveToSent
<1>5. FileInv' /\ WorkInv'
  BY FilesAlone, IdleWork DEF PipelineInv, MoveToSent, fileVars, At, Continue, Idle
<1>6. ReportInv'
  BY <1>1, <1>2, <1>4 DEF PipelineInv, ReportInv, MoveToSent, fileVars
<1>7. RawInv'
  BY <1>2, <1>3, <1>4 DEF PipelineInv, RawInv, MoveToSent, fileVars
<1>8. NotifyInv'
  BY <1>2 DEF NotifyInv, MoveToSent
<1>q. QED
  BY <1>4, <1>5, <1>6, <1>7, <1>8 DEF PipelineInv

\* The report is published exact, left to recovery, or thrown away.
LEMMA CommitStep ==
  ASSUME PipelineInv, Commit
  PROVE  PipelineInv'
<1>1. Runs("Commit") /\ Rank("Commit") = 5 /\ op = "start" /\ ~Running("ZIPArchiver")
  BY Ranks DEF Commit, At, Running
<1>2. report \in {"none", "staging"} /\ notified = {} /\ kind # "none" /\ ~Dead
  BY <1>1, StillOpen
<1>3. CASE Abandon /\ report' = "lost"
  BY <1>2, <1>3, AbandonStep DEF Commit
<1>4. CASE \/ Continue /\ report' = "published" /\ UNCHANGED fileVars
           \/ todo' = <<>> /\ Idle /\ report' = "prepared" /\ UNCHANGED fileVars
  <2>1. /\ ~Dead' /\ kind' # "none" /\ report' \in {"published", "prepared"}
        /\ op' = "start" /\ half' = {} /\ Idle
    BY <1>2, <1>4 DEF Commit, Dead, Continue, Idle
  <2>2. /\ todo' \in Seq(STRING) /\ Orderly(todo)' /\ (report' = "published" => Ahead(6)')
        /\ (report' = "prepared" => todo' = <<>>) /\ (Ahead(2) => Ahead(2)') /\ (Ahead(4) => Ahead(4)')
    <3>1. CASE Continue /\ report' = "published"
      <4>1. todo' \in Seq(STRING) /\ Orderly(todo)' /\ (5 \in {1, 3, 5} => Ahead(5 + 1)')
        BY <1>1, <3>1, ContinueStep DEF PipelineInv, OrderInv
      <4>2. Ahead(6)'
        BY <4>1
      <4>q. QED
        BY <1>1, <3>1, <4>1, <4>2, BehindKept DEF PipelineInv
    <3>2. CASE todo' = <<>> /\ report' = "prepared"
      BY <3>2 DEF Orderly, Ahead
    <3>q. QED
      BY <1>4, <3>1, <3>2
  <2>3. OrderInv'
    BY <2>1, <2>2, Zenon DEF PipelineInv, OrderInv, Commit
  <2>4. FileInv' /\ WorkInv'
    BY <1>1, <1>4, <2>1, FilesAlone, IdleWork DEF PipelineInv, fileVars
  <2>5. ReportInv'
    BY <1>1, <1>2, <1>4, <2>1, <2>2, Zenon DEF PipelineInv, ReportInv, Commit, fileVars
  <2>6. RawInv'
    BY <1>2, <1>4, <2>1, <2>2 DEF PipelineInv, RawInv, Commit, fileVars
  <2>7. NotifyInv'
    BY <1>2 DEF NotifyInv, Commit
  <2>q. QED
    BY <2>3, <2>4, <2>5, <2>6, <2>7 DEF PipelineInv
<1>q. QED
  BY <1>3, <1>4 DEF Commit

\* A notifier runs after the commit: the path it is given is good.
LEMMA NotifyStep ==
  ASSUME PipelineInv, NEW p \in Range(Notifiers), Notify(p)
  PROVE  PipelineInv'
<1>1. /\ Runs(p) /\ Continue /\ Rank(p) = 6 /\ p \notin {"Commit", "RawCleanup"}
      /\ op = "start" /\ ~Running("ZIPArchiver")
  BY TheNotifiers, Ranks DEF Notify, At, Running
<1>2. "RawCleanup" \in ok' => "RawCleanup" \in ok
  BY <1>1, RecordOther, Zenon DEF Notify
<1>3. report = "published"
  <2>1. todo \in Seq(STRING) /\ Orderly(todo) /\ todo # <<>>
    BY <1>1 DEF PipelineInv, OrderInv, Runs
  <2>2. (\E i \in 1 .. Len(todo) : todo[i] = "Commit") => Rank(p) <= 5
    BY <1>1, <2>1, ContinueStep
  <2>q. QED
    BY <1>1, <2>1, <2>2 DEF PipelineInv, OrderInv, Dead
<1>4. OrderInv' /\ (Ahead(2) => Ahead(2)') /\ (Ahead(4) => Ahead(4)')
  BY <1>1, OrderKept, BehindKept, Zenon DEF PipelineInv, OrderInv, Notify
<1>5. Dead' <=> Dead
  BY DEF Notify, Dead
<1>6. FileInv' /\ WorkInv'
  BY <1>1, FilesAlone, IdleWork DEF PipelineInv, Notify, fileVars, Continue, Idle
<1>7. ReportInv'
  BY <1>1, <1>4, <1>5, Zenon DEF PipelineInv, ReportInv, Notify, fileVars
<1>8. RawInv'
  BY <1>2, <1>4, <1>5, Zenon DEF PipelineInv, RawInv, Notify, fileVars
<1>9. NotifyInv'
  <2>1. UNCHANGED <<report, root, disk>>
    BY DEF Notify, fileVars
  <2>2. jsonPath # "none" => File(jsonPath, 0) \in disk
    BY <1>3, NamedFile DEF PipelineInv, OrderInv, ReportInv, FileInv, Dead
  <2>3. \A path \in notified' :
            path \in notified \/ (jsonPath # "none" /\ path = [root |-> root, file |-> File(jsonPath, 0)])
    BY Zenon DEF Notify
  <2>q. QED
    BY <1>3, <2>1, <2>2, <2>3 DEF PipelineInv, NotifyInv
<1>q. QED
  BY <1>4, <1>6, <1>7, <1>8, <1>9 DEF PipelineInv

\* Every step preserves the invariant.
LEMMA StepHolds == PipelineInv /\ [Next]_vars => PipelineInv'
<1> SUFFICES ASSUME PipelineInv, [Next]_vars PROVE PipelineInv'
  OBVIOUS
<1>1. ASSUME NEW p \in Quiet, Run(p) PROVE PipelineInv'
  <2>1. p \notin {"Commit", "RawCleanup"}
    BY <1>1 DEF Quiet
  <2>q. QED
    BY <1>1, <2>1, RecordOther, Untouched DEF Run, fileVars
<1>2. CASE Release
  BY <1>2, Untouched DEF Release, eventVars, fileVars
<1>3. CASE UNCHANGED vars
  <2>1. Dead' = Dead /\ \A n : Ahead(n)' = Ahead(n)
    BY <1>3, Zenon DEF vars, eventVars, Dead, Ahead
  <2>2. OrderInv'
    <3>1. UNCHANGED <<enabled, todo, kind, report, jsonPath, written, archived, refs, ok, notified,
                      disk, registry, op>>
      BY <1>3, Zenon DEF vars, eventVars, fileVars, stepVars
    <3>q. QED
      BY <3>1, Zenon DEF PipelineInv, OrderInv, Orderly, Dead, Ahead
  <2>3. FileInv' /\ NotifyInv'
    BY <1>3, Zenon DEF PipelineInv, FileInv, NotifyInv, vars, eventVars, fileVars, stepVars
  <2>4. WorkInv'
    BY <1>3, Zenon DEF PipelineInv, WorkInv, CopierInv, CleanupInv, ConverterInv, ArchiverInv, Running, Runs,
       vars, eventVars, fileVars, stepVars
  <2>5. ReportInv'
    BY <1>3, <2>1, Zenon DEF PipelineInv, ReportInv, Running, Runs, vars, eventVars, fileVars, stepVars
  <2>6. RawInv'
    BY <1>3, <2>1 DEF PipelineInv, RawInv, vars, eventVars, fileVars
  <2>q. QED
    BY <2>2, <2>3, <2>4, <2>5, <2>6 DEF PipelineInv
<1>q. QED
  BY <1>1, <1>2, <1>3, FinalizeStep, ReturnStep, BeginStep, Stage1RawStep, Stage1ShmStep, FilterStep,
     FingerprinterStep, DuplicateDetectorStep, DuplicateCheckStep, AttachmentCopierStep, Stage2JsonStep,
     RawCleanupStep, PNGConverterStep, FeedbackDialogStep, ZIPArchiverStep, MoveToSentStep, CommitStep,
     NotifyStep
  DEF Next

-----------------------------------------------------------------------------
(* The theorems.                                                           *)

(***************************************************************************)
(* In every state of a finalization the steps left are in the order of the *)
(* pipeline, the directory and the registry differ by at most the file at  *)
(* hand, what a plugin has still to remove is not needed, the report a     *)
(* result names is there or in the archive, and raw evidence was removed   *)
(* only for a report that exists.                                          *)
(***************************************************************************)
THEOREM PipelineInvariant == Spec => []PipelineInv
BY InitHolds, StepHolds, PTL DEF Spec

(***************************************************************************)
(* Wherever a plugin ends, between two steps the staging directory holds   *)
(* exactly the registered artifacts, unless a published file could not be  *)
(* opened or a temporary not be removed: for any number of screenshots and *)
(* any configuration (raw_cleanup.rs, png_converter.rs, zip_archiver.rs,   *)
(* attachment.rs, ArtifactTransaction).                                    *)
(***************************************************************************)
THEOREM DirectoryIsExact == Spec => []StagingIsExact
<1>1. PipelineInv => StagingIsExact
  BY DEF PipelineInv, FileInv, StagingIsExact
<1>q. QED
  BY <1>1, PipelineInvariant, PTL

(***************************************************************************)
(* What a result names exists, in the directory or in the archive, and a   *)
(* notifier is only given the path of a file of a published report         *)
(* (PNGConverter, ZIPArchiver, MoveToSent, the notifiers).                 *)
(***************************************************************************)
THEOREM ResultsNameFiles == Spec => []NamedFilesExist
<1>1. PipelineInv => NamedFilesExist
  BY DEF PipelineInv, FileInv, ReportInv, NotifyInv, NamedFilesExist, Dead
<1>q. QED
  BY <1>1, PipelineInvariant, PTL

(***************************************************************************)
(* A published report without report.json keeps all the raw evidence that  *)
(* was written, and one that RawCleanup has cleaned has none left, in the  *)
(* directory or in the archive (RawCleanup).                               *)
(***************************************************************************)
THEOREM RawEvidenceIsFallback == Spec => []RawIsFallback
<1>1. PipelineInv => RawIsFallback
  BY Zenon DEF PipelineInv, OrderInv, FileInv, ReportInv, RawInv, RawIsFallback, Dead
<1>q. QED
  BY <1>1, PipelineInvariant, PTL

=============================================================================
