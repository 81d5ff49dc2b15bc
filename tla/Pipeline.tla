------------------------------ MODULE Pipeline ------------------------------
(***************************************************************************)
(* One finalization: what the stages and plugins of the pipeline do, in    *)
(* which order, to the staging directory of a report                       *)
(* (src/pipeline/mod.rs, src/pipeline/worker.rs, src/preprocessors,        *)
(* src/postprocessors).                                                    *)
(*                                                                         *)
(* A finalization is a sequence of steps run by one thread.  Every step is *)
(* run by run_plugin_cooperative, which turns an error, a panic and an     *)
(* expired deadline into a recorded status and goes on; what the step has  *)
(* changed by then stays changed.  A plugin that changes files on its own  *)
(* and tells the transaction afterwards takes one action per file          *)
(* operation and per call of the transaction, and ends where the code can  *)
(* return; another step is one action that chooses where it was cut short. *)
(* Crashes of the monitor are in ArtifactStore, helpers of plugins in      *)
(* PluginSubprocess.                                                       *)
(***************************************************************************)
EXTENDS Integers, Sequences, FiniteSets, Functions

CONSTANTS
    Shots,          \* the screenshots a capture holds
    Configurations  \* the sets of plugins a configuration may enable

VARIABLES
    enabled,   \* the plugins that are registered
    kind,      \* the finalizer: "captured", "termination" or "emergency"
    todo,      \* the steps left to run, the one that runs first
    op,        \* what the running plugin does next, "start" between two steps
    work,      \* the files it has still to go through
    half,      \* the file it has published or removed and not yet told of
    ok,        \* the plugins diagnostics records as succeeded
    seen,      \* DuplicateDetector.recent holds the key of this event
    data,      \* CollectedData: has a fingerprint, is a duplicate
    written,   \* the raw artifacts stage 1 has written (history)
    disk,      \* the files in the staging, then the report directory
    registry,  \* the artifacts the transaction has registered
    archived,  \* the artifacts inside report.zip
    refs,      \* the artifacts report.json names
    jsonPath,  \* ReportResult.json_path: "none" or an artifact's name
    root,      \* destination_root
    report,    \* what became of the transaction
    notified,  \* the paths notifiers were given
    fault      \* a file operation failed after its file was visible

eventVars == <<kind, ok, data, written, archived, refs, jsonPath, root, report, notified>>
fileVars == <<disk, registry, fault>>
stepVars == <<op, work, half>>
vars == <<enabled, todo, stepVars, seen, eventVars, fileVars>>

-----------------------------------------------------------------------------
(* Artifacts.  Raw artifacts are numbered in the order of their names.     *)

File(name, n) == [name |-> name, n |-> n]
Breadcrumbs == File("raw", 1)
Context == File("raw", 2)
Threads == File("raw", 3)
Raw == {Breadcrumbs, Context, Threads}
Attachment == File("attachment", 0)
Json == File("report.json", 0)
Archive == File("report.zip", 0)
Stray == File("temporary", 0)
Rgba == {File("rgba", s) : s \in Shots}
Png(rgba) == {File("png", f.n) : f \in rgba}
Artifacts == Raw \cup {Attachment, Json, Archive} \cup Rgba \cup Png(Rgba)

TypeOK ==
    /\ kind \in {"none", "captured", "termination", "emergency"}
    /\ data \subseteq {"fingerprint", "duplicate"} /\ written \subseteq Raw
    /\ op \in {"start", "publish", "register", "remove", "unregister"}
    /\ work \subseteq Artifacts /\ half \subseteq Artifacts
    /\ disk \subseteq Artifacts \cup {Stray} /\ registry \subseteq Artifacts
    /\ archived \subseteq Artifacts /\ refs \subseteq Artifacts
    /\ jsonPath \in {"none", "report.json", "report.zip"} /\ root \in {"pending", "sent"}
    /\ report \in {"none", "staging", "rejected", "duplicate", "published", "prepared", "lost"}
    /\ seen \in BOOLEAN /\ fault \in BOOLEAN

-----------------------------------------------------------------------------
(* The plugins, in the order of their registration.                        *)

Filters == <<"DiskSpaceFilter", "RateLimiter">>
PreProcessors == <<"AttachmentCopier", "SessionEnricher", "SymbolResolver", "Fingerprinter",
                   "BuildInfoEnricher", "DuplicateDetector", "Sanitizer">>
PostProcessors == <<"RawCleanup", "SessionRecorder", "PNGConverter", "FeedbackDialog",
                    "ZIPArchiver", "MoveToSent", "LogRotator", "RetentionManager">>
Notifiers == <<"ConsoleNotifier", "SystemNotification">>
Plugins == UNION {Range(c) : c \in {Filters, PreProcessors, PostProcessors, Notifiers}}

\* hard_dependencies and order_after.
Dependencies(p) ==
    CASE p = "RateLimiter" -> {"DiskSpaceFilter"}
      [] p = "Fingerprinter" -> {"SymbolResolver"}
      [] p \in {"DuplicateDetector", "Sanitizer"} -> {"Fingerprinter"}
      [] p = "FeedbackDialog" -> {"PNGConverter"}
      [] p = "ZIPArchiver" -> {"RawCleanup", "PNGConverter", "FeedbackDialog"}
      [] p = "MoveToSent" -> {"ZIPArchiver"}
      [] p = "RetentionManager" -> {"ZIPArchiver", "MoveToSent"}
      [] p = "LogRotator" -> {"SessionRecorder"}
      [] OTHER -> {}

Hard(p) == IF p = "DuplicateDetector" THEN {"Fingerprinter"} ELSE {}

\* Critical, High, Medium, Low.
Priority(p) ==
    CASE p \in Range(Filters) -> 0
      [] p \in {"AttachmentCopier", "DuplicateDetector"} -> 1
      [] p \in {"BuildInfoEnricher", "PNGConverter"} -> 2
      [] OTHER -> 3

\* post_processor_phase_rank: BeforeCommit, AfterCommit, AfterNotify, FinalCleanup.
Phase(p) ==
    CASE p \in {"SessionRecorder", "LogRotator"} -> 1
      [] p = "RetentionManager" -> 3
      [] OTHER -> 0

\* stable_plugin_order: the plugin with the smallest phase, priority and place
\* of registration, of those that depend on none of the remaining ones.
Before(registered, p, q) ==
    \/ Phase(p) < Phase(q)
    \/ Phase(p) = Phase(q) /\ Priority(p) < Priority(q)
    \/ /\ Phase(p) = Phase(q) /\ Priority(p) = Priority(q)
       /\ \E i, j \in DOMAIN registered : registered[i] = p /\ registered[j] = q /\ i < j

StableOrder(registered) ==
    LET order[left \in SUBSET Range(registered)] ==
            IF left = {} THEN <<>>
            ELSE LET free == {p \in left : Dependencies(p) \cap left = {}}
                     next == CHOOSE p \in free : \A q \in free \ {p} : Before(registered, p, q)
                 IN <<next>> \o order[left \ {next}]
    IN order[Range(registered)]

\* The registered plugins of a category, in the order they run.
Ordered(category, on) == StableOrder(SelectSeq(category, LAMBDA p : p \in on))

InPhase(n, on) == SelectSeq(Ordered(PostProcessors, on), LAMBDA p : Phase(p) = n)

-----------------------------------------------------------------------------
(* The steps of the three finalizers.                                      *)

Publication(on) ==
    <<"Stage2Json">> \o InPhase(0, on) \o <<"Commit">> \o InPhase(1, on)
      \o Ordered(Notifiers, on) \o InPhase(3, on) \o <<"Release">>

Steps(k, on) ==
    CASE k = "captured" ->
            <<"Begin", "Stage1Raw", "Stage1Shm">> \o Ordered(Filters, on)
              \o Ordered(PreProcessors, on \ {"AttachmentCopier"}) \o <<"DuplicateCheck">>
              \o Ordered(PreProcessors, on \cap {"AttachmentCopier"}) \o Publication(on)
      [] k = "termination" -> <<"Begin">> \o Ordered(Filters, on) \o Publication(on)
      [] k = "emergency" ->
            <<"Begin", "Stage1Raw", "Stage1Shm", "Stage2Json", "Commit", "Release">>

\* Where the steps that matter to the report's files stand in that order: what
\* is written before report.json, the report, what needs it, the archive, the
\* choice of the destination, the commit, and what follows it.
Rank(step) ==
    CASE step = "Stage2Json" -> 1
      [] step \in {"RawCleanup", "PNGConverter", "FeedbackDialog"} -> 2
      [] step = "ZIPArchiver" -> 3
      [] step = "MoveToSent" -> 4
      [] step = "Commit" -> 5
      [] step \in {"SessionRecorder", "LogRotator", "RetentionManager", "Release"}
                 \cup Range(Notifiers) -> 6
      [] OTHER -> 0

Orderly(steps) ==
    \A i, j \in 1 .. Len(steps) :
        i < j => /\ Rank(steps[i]) <= Rank(steps[j])
                 /\ Rank(steps[i]) \in {1, 3, 5} => Rank(steps[i]) < Rank(steps[j])

\* close_plugin_enablement; no plugin hard-depends on one that itself does.
Closed(on) == {p \in on : Hard(p) \subseteq on}

\* stable_plugin_order and the stages keep that order, and every finalizer
\* commits, whichever plugins a configuration enables.
ASSUME OrderAssumption ==
    \A on \in Configurations, k \in {"captured", "termination", "emergency"} :
        LET steps == Steps(k, Closed(on)) IN
        /\ steps \in Seq(STRING) /\ Orderly(steps)
        /\ \E i \in 1 .. Len(steps) : steps[i] = "Commit"

\* The step that runs, one that is to start, and what a plugin does next.
Runs(step) == todo # <<>> /\ Head(todo) = step
At(step) == Runs(step) /\ op = "start"
Doing(p, operation) == Runs(p) /\ op = operation
Idle == op' = "start" /\ work' = {} /\ half' = {}
Continue == todo' = Tail(todo) /\ Idle
Abandon == todo' = <<>> /\ Idle /\ disk' = {} /\ registry' = {} /\ UNCHANGED fault

\* Of the statuses, only these are consulted, by deps_satisfied and below.
Record(p, succeeded) ==
    ok' = IF succeeded /\ p \in {"Fingerprinter", "RawCleanup"} THEN ok \cup {p} ELSE ok

\* A plugin returns.
End(p, succeeded) == Continue /\ Record(p, succeeded)

\* It goes on.
Goto(operation, files, file) ==
    op' = operation /\ work' = files /\ half' = file /\ UNCHANGED <<todo, ok>>

\* write_artifact: the file is published and registered, nothing fails between.
Write(new) ==
    /\ disk' = disk \cup new
    /\ registry' = registry \cup new
    /\ UNCHANGED fault

\* It fails and the temporary cannot be removed.
WriteLeaves(new) ==
    /\ disk' = disk \cup new \cup {Stray}
    /\ registry' = registry \cup new
    /\ fault' = TRUE

-----------------------------------------------------------------------------
(* The steps.                                                              *)

Init ==
    /\ enabled \in {Closed(on) : on \in Configurations}
    /\ seen = FALSE /\ op = "start" /\ work = {} /\ half = {}
    /\ todo = <<>> /\ kind = "none" /\ ok = {} /\ data = {} /\ written = {}
    /\ disk = {} /\ registry = {} /\ archived = {} /\ refs = {}
    /\ jsonPath = "none" /\ root = "pending" /\ report = "none"
    /\ notified = {} /\ fault = FALSE

\* An event is finalized: a captured one by the background or fatal finalizer
\* or, if that has no thread, by the emergency path; or a termination event.
Finalize ==
    /\ kind = "none"
    /\ kind' \in {"captured", "termination", "emergency"}
    /\ todo' = Steps(kind', enabled)
    /\ UNCHANGED <<enabled, seen, ok, data, written, archived, refs, jsonPath, root, report,
                   notified, stepVars, fileVars>>

\* The finalizer returns; only the pipeline's own state outlives it.
Return ==
    /\ kind # "none" /\ todo = <<>>
    /\ kind' = "none" /\ ok' = {} /\ data' = {} /\ written' = {}
    /\ disk' = {} /\ registry' = {} /\ archived' = {} /\ refs' = {}
    /\ jsonPath' = "none" /\ root' = "pending" /\ report' = "none"
    /\ notified' = {} /\ fault' = FALSE
    /\ UNCHANGED <<enabled, seen, todo, stepVars>>

\* report_enabled and begin_shared, which may fail.
Begin ==
    /\ At("Begin")
    /\ \/ Continue /\ report' = "staging"
       \/ todo' = <<>> /\ Idle /\ UNCHANGED report
    /\ UNCHANGED <<enabled, seen, kind, ok, data, written, archived, refs, jsonPath, root, notified,
                   fileVars>>

\* write_raw_stage1.
Stage1Raw ==
    /\ At("Stage1Raw") /\ Continue
    /\ \E new \in {{}, {Threads}} :
          /\ Write(new) \/ (new = {} /\ WriteLeaves({}))
          /\ written' = written \cup new
    /\ UNCHANGED <<enabled, seen, kind, ok, data, archived, refs, jsonPath, root, report, notified>>

\* write_raw_shm_stage1, if there is a raw_shm.
Stage1Shm ==
    /\ At("Stage1Shm") /\ Continue
    /\ \E new \in {{}, {Breadcrumbs}, {Breadcrumbs, Context}} :
          /\ Write(new) \/ (Context \notin new /\ WriteLeaves(new))
          /\ written' = written \cup new
    /\ UNCHANGED <<enabled, seen, kind, ok, data, archived, refs, jsonPath, root, report, notified>>

\* A filter that fails lets the event pass.
Filter(p) ==
    /\ At(p)
    /\ \/ Continue /\ (\E succeeded \in BOOLEAN : Record(p, succeeded)) /\ UNCHANGED <<report, fileVars>>
       \/ Abandon /\ report' = "rejected" /\ UNCHANGED ok
    /\ UNCHANGED <<enabled, seen, kind, data, written, archived, refs, jsonPath, root, notified>>

\* Fingerprinter: the fingerprint is set before a deadline can be noticed.
Fingerprinter ==
    /\ At("Fingerprinter") /\ Continue
    /\ \E hashed, succeeded \in BOOLEAN :
          /\ data' = IF hashed THEN data \cup {"fingerprint"} ELSE data
          /\ Record("Fingerprinter", succeeded)
    /\ UNCHANGED <<enabled, seen, kind, written, archived, refs, jsonPath, root, report, notified,
                   fileVars>>

\* DuplicateDetector: expired entries are dropped, then the event is looked up
\* or entered; the deadline may pass before or after that.
DuplicateDetector ==
    /\ At("DuplicateDetector") /\ Continue
    /\ \/ Record("DuplicateDetector", FALSE) /\ UNCHANGED <<seen, data>>
       \/ /\ Hard("DuplicateDetector") \subseteq ok
          /\ \E succeeded \in BOOLEAN : Record("DuplicateDetector", succeeded)
          /\ IF "fingerprint" \in data
             THEN \E recent \in {seen, FALSE} :
                     /\ data' = IF recent THEN data \cup {"duplicate"} ELSE data
                     /\ seen' = TRUE
             ELSE UNCHANGED <<seen, data>>
    /\ UNCHANGED <<enabled, kind, written, archived, refs, jsonPath, root, report, notified, fileVars>>

\* Nothing later consults the fingerprint or the status of a pre-processor.
DuplicateCheck ==
    /\ At("DuplicateCheck")
    /\ data' = {} /\ ok' = {}
    /\ IF "duplicate" \in data
       THEN Abandon /\ report' = "duplicate"
       ELSE Continue /\ UNCHANGED <<report, fileVars>>
    /\ UNCHANGED <<enabled, seen, kind, written, archived, refs, jsonPath, root, notified>>

-----------------------------------------------------------------------------
(* The plugins that change files on their own: what they have in common.   *)

Elsewhere == UNCHANGED <<enabled, seen, kind, data, written, root, report, notified>>

\* The plugin returns what its last checkpoint says.
Returns(p) == (\E succeeded \in BOOLEAN : End(p, succeeded)) /\ UNCHANGED fileVars

\* It returns an error.
Fails(p) == End(p, FALSE) /\ UNCHANGED fileVars

\* It goes through its files in the order of their numbers.
First(f) == f \in work /\ \A g \in work : f.n <= g.n
Skip(f) == Goto(op, work \ {f}, {}) /\ UNCHANGED fileVars

\* A file of its own is published.
PublishFile(new, files) ==
    disk' = disk \cup new /\ Goto("register", files, new) /\ UNCHANGED <<registry, fault>>

\* Mutation of RegisterFile: a checkpoint before the registration.
RegisterFileChecked(p, next) ==
    /\ Doing(p, "register") /\ UNCHANGED <<disk, fault>>
    /\ \/ registry' = registry \cup half /\ Goto(next, work, {})
       \/ End(p, FALSE) /\ UNCHANGED registry

\* register_file of that file, which it opens: this may fail.
RegisterFile(p, next) ==
    /\ Doing(p, "register") /\ UNCHANGED disk
    /\ \/ registry' = registry \cup half /\ Goto(next, work, {}) /\ UNCHANGED fault
       \/ End(p, FALSE) /\ fault' = TRUE /\ UNCHANGED registry

\* A file is removed; that it is already gone is no failure.
RemoveFile(f) ==
    disk' = disk \ {f} /\ Goto("unregister", work \ {f}, {f}) /\ UNCHANGED <<registry, fault>>

\* Mutation of UnregisterFile: a checkpoint before it.
UnregisterFileChecked(p) ==
    /\ Doing(p, "unregister") /\ UNCHANGED <<disk, fault>>
    /\ \/ registry' = registry \ half /\ Goto("remove", work, {})
       \/ End(p, FALSE) /\ UNCHANGED registry

\* unregister_file of that file.  It fails for a transaction that is busy or
\* sealed: this one is open, and only this thread uses it.
UnregisterFile(p) ==
    /\ Doing(p, "unregister") /\ report = "staging" /\ UNCHANGED <<disk, fault>>
    /\ registry' = registry \ half /\ Goto("remove", work, {})

-----------------------------------------------------------------------------
(* Pre-processing and the report.                                          *)

\* AttachmentCopier: a checkpoint, then each attachment is copied, published by
\* rename and registered; one that is refused is skipped.
CopyAttachment(f) ==
    \/ Skip(f)
    \/ Goto(op, work \ {f}, {}) /\ WriteLeaves({})
    \/ Fails("AttachmentCopier")
    \/ End("AttachmentCopier", FALSE) /\ WriteLeaves({})
    \/ PublishFile({f}, work \ {f})

AttachmentCopier ==
    /\ \/ At("AttachmentCopier") /\ Returns("AttachmentCopier")
       \/ At("AttachmentCopier") /\ Goto("publish", {Attachment}, {}) /\ UNCHANGED fileVars
       \/ Doing("AttachmentCopier", "publish") /\ \E f \in work : CopyAttachment(f)
       \/ RegisterFile("AttachmentCopier", "publish")
       \/ Doing("AttachmentCopier", "publish") /\ work = {} /\ Returns("AttachmentCopier")
    /\ Elsewhere /\ UNCHANGED <<archived, refs, jsonPath>>

\* write_report: the screenshots it could write, then report.json.  A stage past
\* its deadline loses its result, not the file; the emergency path has no
\* deadline.  Only a capture has screenshots, and only the pipeline writes them.
Stage2Json ==
    /\ At("Stage2Json") /\ Continue
    /\ \E shots \in IF kind = "captured" THEN SUBSET Rgba ELSE {{}}, json \in {{}, {Json}} :
          /\ \/ Write(shots \cup json)
             \/ ((kind = "captured" /\ shots # Rgba) \/ json = {}) /\ WriteLeaves(shots \cup json)
          /\ IF json = {}
             THEN UNCHANGED <<refs, jsonPath>>
             ELSE /\ refs' = shots \cup (registry \cap {Attachment})
                  /\ jsonPath' \in {"report.json"} \cup (IF kind = "emergency" THEN {} ELSE {"none"})
    /\ UNCHANGED <<enabled, seen, kind, ok, data, written, archived, root, report, notified>>

-----------------------------------------------------------------------------
(* Post-processing and the commit.                                         *)

\* Mutation of StartCleanup: it does not ask for a report.
StartCleanupAlways == Goto("remove", registry \cap Raw, {}) /\ UNCHANGED fileVars

\* The raw artifacts go once there is a report.
StartCleanup ==
    \/ Fails("RawCleanup")
    \/ jsonPath = "none" /\ Returns("RawCleanup")
    \/ jsonPath # "none" /\ Goto("remove", registry \cap Raw, {}) /\ UNCHANGED fileVars

\* RawCleanup stops at the first file it cannot remove.
RawCleanup ==
    /\ \/ At("RawCleanup") /\ StartCleanup
       \/ Doing("RawCleanup", "remove") /\ \E f \in work : First(f) /\ RemoveFile(f)
       \/ Doing("RawCleanup", "remove") /\ work # {} /\ Fails("RawCleanup")
       \/ UnregisterFile("RawCleanup")
       \/ Doing("RawCleanup", "remove") /\ work = {} /\ Returns("RawCleanup")
    /\ Elsewhere /\ UNCHANGED <<archived, refs, jsonPath>>

\* The screenshots that have a PNG.  A checkpoint ends the conversion only while
\* there is none.
Converted == {f \in refs \cap Rgba : Png({f}) \subseteq registry}

\* convert_one: not a screenshot it can read, encode and publish in time, or one.
ConvertOne(f) ==
    \/ Skip(f)
    \/ Goto(op, work \ {f}, {}) /\ WriteLeaves({})
    \/ Converted = {} /\ Fails("PNGConverter")
    \/ f \in disk /\ PublishFile(Png({f}), work \ {f})

\* Mutation of ReplaceReport: the screenshots go first.
ReplaceReportLast ==
    \/ Converted = {} /\ Returns("PNGConverter") /\ UNCHANGED refs
    \/ Goto("remove", Converted, {}) /\ UNCHANGED <<refs, fileVars>>

\* replace_report_atomically, unless nothing was converted.
ReplaceReport ==
    \/ Converted = {} /\ Returns("PNGConverter") /\ UNCHANGED refs
    \/ Converted # {} /\ Fails("PNGConverter") /\ UNCHANGED refs
    \/ Converted # {} /\ End("PNGConverter", FALSE) /\ WriteLeaves({}) /\ UNCHANGED refs
    \/ /\ Converted # {}
       /\ refs' = (refs \ Converted) \cup Png(Converted)
       /\ Goto("remove", Converted, {}) /\ UNCHANGED fileVars

\* PNGConverter: publish and register a PNG for each screenshot that can be
\* converted, replace report.json, then remove the screenshots it no longer
\* names, as far as possible.
PNGConverter ==
    /\ \/ /\ \/ At("PNGConverter") /\ (Fails("PNGConverter") \/ (jsonPath = "none" /\ Returns("PNGConverter")))
             \/ /\ At("PNGConverter") /\ jsonPath = "report.json"
                /\ Goto("publish", refs \cap Rgba, {}) /\ UNCHANGED fileVars
             \/ Doing("PNGConverter", "publish") /\ \E f \in work : First(f) /\ ConvertOne(f)
             \/ RegisterFile("PNGConverter", "publish")
             \/ Doing("PNGConverter", "remove") /\ \E f \in work : First(f) /\ (RemoveFile(f) \/ Skip(f))
             \/ UnregisterFile("PNGConverter")
             \/ Doing("PNGConverter", "remove") /\ work = {} /\ Returns("PNGConverter")
          /\ UNCHANGED refs
       \/ Doing("PNGConverter", "publish") /\ work = {} /\ ReplaceReport
    /\ Elsewhere /\ UNCHANGED <<archived, jsonPath>>

\* Everything registered is archived, if all of it can be read.
StartArchive ==
    \/ Fails("ZIPArchiver") /\ UNCHANGED archived
    \/ (jsonPath = "none" \/ registry = {}) /\ Returns("ZIPArchiver") /\ UNCHANGED archived
    \/ /\ jsonPath # "none" /\ registry # {} /\ registry \subseteq disk
       /\ \/ End("ZIPArchiver", FALSE) /\ WriteLeaves({}) /\ UNCHANGED archived
          \/ PublishFile({Archive}, registry) /\ archived' = registry

\* ZIPArchiver: once the archive is registered it is the report, and its inputs
\* are removed as far as possible, with a checkpoint before each.
ZIPArchiver ==
    /\ \/ At("ZIPArchiver") /\ StartArchive /\ UNCHANGED jsonPath
       \/ /\ RegisterFile("ZIPArchiver", "remove") /\ UNCHANGED archived
          /\ jsonPath' = IF op' = "remove" THEN "report.zip" ELSE jsonPath
       \/ /\ \/ /\ Doing("ZIPArchiver", "remove")
                /\ \E f \in work : First(f) /\ (RemoveFile(f) \/ Skip(f) \/ Fails("ZIPArchiver"))
             \/ UnregisterFile("ZIPArchiver")
             \/ Doing("ZIPArchiver", "remove") /\ work = {} /\ Returns("ZIPArchiver")
          /\ UNCHANGED <<archived, jsonPath>>
    /\ Elsewhere /\ UNCHANGED refs

\* MoveToSent only chooses the destination.
MoveToSent ==
    /\ At("MoveToSent") /\ Continue
    /\ root' \in {root} \cup (IF jsonPath = "none" THEN {} ELSE {"sent"})
    /\ \E succeeded \in BOOLEAN : Record("MoveToSent", succeeded)
    /\ UNCHANGED <<enabled, seen, kind, data, written, archived, refs, jsonPath, report, notified, fileVars>>

\* Mutation of Commit: a failed commit is recorded and the pipeline goes on.
CommitGoesOn ==
    /\ At("Commit") /\ Continue
    /\ report' \in {"lost"} \cup (IF disk = registry THEN {"published"} ELSE {})
    /\ UNCHANGED <<enabled, seen, kind, ok, data, written, archived, refs, jsonPath, root, notified,
                   fileVars>>

\* ArtifactTransaction::commit: an inexact directory, or an error before the
\* manifest, loses the report; after an error behind the manifest it is left to
\* recovery.  The emergency path does not commit an empty report.
Commit ==
    /\ At("Commit")
    /\ \/ /\ disk = registry
          /\ kind = "emergency" => registry # {}
          /\ Continue /\ report' = "published" /\ UNCHANGED fileVars
       \/ Abandon /\ report' = "lost"
       \/ disk = registry /\ todo' = <<>> /\ Idle /\ report' = "prepared" /\ UNCHANGED fileVars
    /\ UNCHANGED <<enabled, seen, kind, ok, data, written, archived, refs, jsonPath, root, notified>>

\* A notifier is given the path of the report, if there is one.
Notify(p) ==
    /\ At(p) /\ Continue
    /\ \/ Record(p, FALSE) /\ UNCHANGED notified
       \/ /\ jsonPath # "none"
          /\ notified' = notified \cup {[root |-> root, file |-> File(jsonPath, 0)]}
          /\ \E succeeded \in BOOLEAN : Record(p, succeeded)
    /\ UNCHANGED <<enabled, seen, kind, data, written, archived, refs, jsonPath, root, report, fileVars>>

\* Plugins that change nothing of this report's files: enrichers and recorders,
\* retention (the report is leased), and the feedback dialog, which replaces
\* report.json in place.
Quiet == {"SessionEnricher", "SymbolResolver", "BuildInfoEnricher", "Sanitizer",
          "SessionRecorder", "LogRotator", "RetentionManager"}

Run(p) ==
    /\ At(p) /\ Continue
    /\ \E succeeded \in BOOLEAN : Record(p, succeeded)
    /\ UNCHANGED <<enabled, seen, kind, data, written, archived, refs, jsonPath, root, report, notified,
                   fileVars>>

FeedbackDialog ==
    /\ At("FeedbackDialog") /\ Continue
    /\ \/ UNCHANGED fileVars /\ \E succeeded \in BOOLEAN : Record("FeedbackDialog", succeeded)
       \/ jsonPath # "none" /\ WriteLeaves({}) /\ Record("FeedbackDialog", FALSE)
    /\ UNCHANGED <<enabled, seen, kind, data, written, archived, refs, jsonPath, root, report, notified>>

\* persist_final_diagnostics and release_publication_lease.
Release ==
    /\ At("Release") /\ Continue
    /\ UNCHANGED <<enabled, seen, eventVars, fileVars>>

Next ==
    \/ Finalize \/ Return \/ Begin \/ Stage1Raw \/ Stage1Shm
    \/ \E p \in Range(Filters) : Filter(p)
    \/ Fingerprinter \/ DuplicateDetector \/ DuplicateCheck \/ AttachmentCopier \/ Stage2Json
    \/ RawCleanup \/ PNGConverter \/ FeedbackDialog \/ ZIPArchiver \/ MoveToSent \/ Commit
    \/ \E p \in Range(Notifiers) : Notify(p)
    \/ \E p \in Quiet : Run(p)
    \/ Release

Spec == Init /\ [][Next]_vars

-----------------------------------------------------------------------------
(* Properties.                                                             *)

(***************************************************************************)
(* Between two steps the staging directory holds exactly the registered    *)
(* artifacts: whichever operation of a plugin was its last, no file was    *)
(* removed and left registered, or published and not registered.  So       *)
(* commit, which refuses any other directory, never throws away a report   *)
(* because a deadline or an error ended a plugin (raw_cleanup.rs,          *)
(* png_converter.rs, zip_archiver.rs, attachment.rs).  The exceptions are  *)
(* a published file that cannot be opened to be registered and a temporary *)
(* that cannot be removed.                                                 *)
(***************************************************************************)
StagingIsExact == op = "start" /\ ~fault => disk = registry

(***************************************************************************)
(* What is named exists, between any two file operations.  The report a    *)
(* result names is whole: report.json is where json_path says and what it  *)
(* names is beside it ("every interruption safe", png_converter.rs), or it *)
(* is in the archive with what it names.  And a notifier is only given a  *)
(* path that exists: the report is published, under the root the path      *)
(* names, and the file is in it.                                           *)
(***************************************************************************)
NamedFilesExist ==
    /\ jsonPath = "report.json" /\ report \in {"staging", "published", "prepared"} =>
          refs \cup {Json} \subseteq disk
    /\ jsonPath = "report.zip" => refs \cup {Json} \subseteq archived
    /\ \A path \in notified :
          report = "published" /\ path.root = root /\ path.file \in disk

(***************************************************************************)
(* Raw evidence is the fallback and only the fallback: a published report  *)
(* without report.json keeps every raw artifact that was written, and one  *)
(* that RawCleanup has cleaned has no raw artifact, in the directory or in *)
(* the archive, whichever plugins are enabled.                             *)
(***************************************************************************)
RawIsFallback ==
    report = "published" =>
        /\ Json \in disk \cup archived \/ written \subseteq disk \cup archived
        /\ "RawCleanup" \in ok /\ jsonPath # "none" => Raw \cap (disk \cup archived) = {}
=============================================================================
