--------------------------- MODULE ArtifactStore ---------------------------
(***************************************************************************)
(* Report transactions on a shared output root                             *)
(* (src/pipeline/artifact.rs, src/pipeline/mod.rs: recover_startup_        *)
(* artifacts, src/postprocessors/retention.rs: the scavenger call).        *)
(*                                                                         *)
(* Each report has one transaction: a hidden staging directory, artifact   *)
(* files, a manifest written last, and a rename that publishes the whole   *)
(* directory.  Scanners are the startup recovery and the stale-staging     *)
(* scavenger of this or of another monitor process.  Transactions and      *)
(* scanners meet only on disk, through an advisory lock on the directory,  *)
(* and any of them may crash between two system calls.                     *)
(***************************************************************************)
EXTENDS FiniteSets

CONSTANTS
    Reports,    \* report ids; each is used by one transaction
    Names,      \* artifact file names
    Scanners    \* recovery and scavenger passes that may run at the same time

ASSUME ReportsAssumption == Reports # {}

\* There is no manifest.json in the directory.
NoManifest == {"no manifest"}

ASSUME NamesAssumption == {"no manifest", "manifest", "orphan", "none"} \cap Names = {}

ASSUME ScannersAssumption == {"free", "owner"} \cap Scanners = {}

VARIABLES
    \* On disk, for each report:
    dir,        \* "absent", "staging", "published" or "quarantined"
    files,      \* artifact files in the directory
    temps,      \* temporary files in the directory, by what they become
    manifest,   \* the artifact set in manifest.json, or NoManifest
    lock,       \* advisory lock on the inode: "free", "owner" or a scanner
    stale,      \* the directory's age exceeds max_age
    \* In the owning process, for each report:
    state,      \* TransactionState; "New" and "Gone" before and after it
    commit,     \* where commit is
    op,         \* the artifact of the active write operation, or "none"
    registry,   \* the registered artifacts
    leases,     \* PUBLICATION_LEASES
    \* For each scanner:
    scan        \* [pc, todo, cur]

diskVars == <<dir, files, temps, manifest, lock, stale>>
ownerVars == <<state, commit, op, registry, leases>>
vars == <<diskVars, ownerVars, scan>>

Live == {"Open", "Preparing", "Prepared", "Committed"}

ScanPC == {"idle", "recover", "opened", "locked", "republish",
           "scavenge", "stat", "stale", "delete"}

\* Temporary names are unique: one that could not be removed is not reused.
Temporaries == Names \cup {"manifest", "orphan"}

TypeOK ==
    /\ dir \in [Reports -> {"absent", "staging", "published", "quarantined"}]
    /\ files \in [Reports -> SUBSET Names]
    /\ temps \in [Reports -> SUBSET Temporaries]
    /\ manifest \in [Reports -> (SUBSET Names) \cup {NoManifest}]
    /\ lock \in [Reports -> {"free", "owner"} \cup Scanners]
    /\ stale \in [Reports -> BOOLEAN]
    /\ state \in [Reports -> {"New", "Created", "Opened", "Gone"} \cup Live]
    /\ commit \in [Reports -> {"idle", "build", "manifest", "sync", "check",
                               "publish", "returned"}]
    /\ op \in [Reports -> Names \cup {"none"}]
    /\ registry \in [Reports -> SUBSET Names]
    /\ leases \subseteq Reports
    /\ \A s \in Scanners :
          /\ scan[s].pc \in ScanPC
          /\ scan[s].todo \subseteq Reports
          /\ scan[s].cur \in Reports

Init ==
    /\ dir = [r \in Reports |-> "absent"]
    /\ files = [r \in Reports |-> {}]
    /\ temps = [r \in Reports |-> {}]
    /\ manifest = [r \in Reports |-> NoManifest]
    /\ lock = [r \in Reports |-> "free"]
    /\ stale = [r \in Reports |-> FALSE]
    /\ state = [r \in Reports |-> "New"]
    /\ commit = [r \in Reports |-> "idle"]
    /\ op = [r \in Reports |-> "none"]
    /\ registry = [r \in Reports |-> {}]
    /\ leases = {}
    /\ scan = [s \in Scanners |-> [pc |-> "idle", todo |-> {},
                                   cur |-> CHOOSE r \in Reports : TRUE]]

\* validate_exact_directory: the files are exactly those expected.
ExactDirectory(r, expected) == files[r] = expected /\ temps[r] = {}

\* Creating, renaming or removing an entry renews the directory's mtime.
Touch(r) == stale' = [stale EXCEPT ![r] = FALSE]

-----------------------------------------------------------------------------
(* begin_shared.                                                           *)

\* create_private_directory.
CreateStaging(r) ==
    /\ state[r] = "New"
    /\ state' = [state EXCEPT ![r] = "Created"]
    /\ dir' = [dir EXCEPT ![r] = "staging"]
    /\ Touch(r)
    /\ UNCHANGED <<files, temps, manifest, lock, commit, op, registry, leases, scan>>

\* begin fails: what it created is removed, which may fail too.
BeginFails(r) ==
    /\ dir' \in {dir, [dir EXCEPT ![r] = "absent"]}
    /\ state' = [state EXCEPT ![r] = "Gone"]

\* try_lock_report_directory, open: a scavenger of another process may have
\* removed the directory already.
OpenStaging(r) ==
    /\ state[r] = "Created"
    /\ \/ /\ dir[r] = "staging"
          /\ state' = [state EXCEPT ![r] = "Opened"]
          /\ UNCHANGED dir
       \/ BeginFails(r)
    /\ UNCHANGED <<files, temps, manifest, lock, stale, commit, op, registry, leases, scan>>

\* Mutation of LockStaging: a directory locked by somebody else is used.
LockStagingIgnoresNone(r) ==
    /\ state[r] = "Opened"
    /\ lock' = [lock EXCEPT ![r] = IF @ = "free" THEN "owner" ELSE @]
    /\ state' = [state EXCEPT ![r] = "Open"]
    /\ UNCHANGED <<dir, files, temps, manifest, stale, commit, op, registry, leases, scan>>

\* try_lock_report_directory, flock.  The lock is the open directory's: it is
\* granted even if a scavenger has locked, removed and unlocked it meanwhile.
LockStaging(r) ==
    /\ state[r] = "Opened"
    /\ \/ /\ lock[r] = "free"
          /\ lock' = [lock EXCEPT ![r] = "owner"]
          /\ state' = [state EXCEPT ![r] = "Open"]
          /\ UNCHANGED dir
       \/ BeginFails(r) /\ UNCHANGED lock
    /\ UNCHANGED <<files, temps, manifest, stale, commit, op, registry, leases, scan>>

-----------------------------------------------------------------------------
(* Artifacts.                                                              *)

\* begin_operation.
CanOperate(r) == state[r] = "Open" /\ op[r] = "none"

\* write_artifact up to the written and synced temporary file.
StartWrite(r, a) ==
    /\ CanOperate(r)
    /\ dir[r] = "staging" /\ a \notin files[r]
    /\ op' = [op EXCEPT ![r] = a]
    /\ temps' = [temps EXCEPT ![r] = @ \cup {a}]
    /\ Touch(r)
    /\ UNCHANGED <<dir, files, manifest, lock, state, commit, registry, leases, scan>>

\* write_artifact, publication: rename, then registration; a failed directory
\* sync is only a warning.
FinishWrite(r) ==
    /\ op[r] # "none"
    /\ files' = [files EXCEPT ![r] = @ \cup {op[r]}]
    /\ temps' = [temps EXCEPT ![r] = @ \ {op[r]}]
    /\ registry' = [registry EXCEPT ![r] = @ \cup {op[r]}]
    /\ op' = [op EXCEPT ![r] = "none"]
    /\ Touch(r)
    /\ UNCHANGED <<dir, manifest, lock, state, commit, leases, scan>>

\* write_artifact, failure: the removal of the temporary file may fail too.
FailWrite(r) ==
    /\ op[r] # "none"
    /\ \/ temps' = [temps EXCEPT ![r] = @ \ {op[r]}]
       \/ temps' = [temps EXCEPT ![r] = (@ \ {op[r]}) \cup {"orphan"}]
    /\ op' = [op EXCEPT ![r] = "none"]
    /\ Touch(r)
    /\ UNCHANGED <<dir, files, manifest, lock, state, commit, registry, leases, scan>>

\* RawCleanup removes a raw artifact's file ...
RemoveFile(r, a) ==
    /\ CanOperate(r)
    /\ a \in files[r] \cap registry[r]
    /\ files' = [files EXCEPT ![r] = @ \ {a}]
    /\ Touch(r)
    /\ UNCHANGED <<dir, temps, manifest, lock, ownerVars, scan>>

\* ... and unregisters it (unregister_file).
UnregisterFile(r, a) ==
    /\ CanOperate(r)
    /\ a \in registry[r] \ files[r]
    /\ registry' = [registry EXCEPT ![r] = @ \ {a}]
    /\ UNCHANGED <<diskVars, state, commit, op, leases, scan>>

-----------------------------------------------------------------------------
(* commit.                                                                 *)

Committing(r, from, to) == commit[r] = from /\ commit' = [commit EXCEPT ![r] = to]

\* begin_commit seals the registry.
BeginCommit(r) ==
    /\ CanOperate(r)
    /\ Committing(r, "idle", "build")
    /\ state' = [state EXCEPT ![r] = "Preparing"]
    /\ UNCHANGED <<diskVars, op, registry, leases, scan>>

\* build_manifest and the temporary manifest; an inexact directory, an
\* exceeded budget or an I/O error ends the commit.
BuildManifest(r) ==
    /\ \/ /\ Committing(r, "build", "manifest")
          /\ dir[r] = "staging" /\ ExactDirectory(r, registry[r])
          /\ temps' = [temps EXCEPT ![r] = @ \cup {"manifest"}]
          /\ Touch(r)
       \/ /\ Committing(r, "build", "returned")
          /\ UNCHANGED <<temps, stale>>
    /\ UNCHANGED <<dir, files, manifest, lock, state, op, registry, leases, scan>>

\* The temporary manifest is renamed and the transaction is Prepared, or the
\* write failed and the temporary file is removed (which may fail).
PublishManifest(r) ==
    /\ \/ /\ Committing(r, "manifest", "sync")
          /\ manifest' = [manifest EXCEPT ![r] = registry[r]]
          /\ temps' = [temps EXCEPT ![r] = @ \ {"manifest"}]
          /\ state' = [state EXCEPT ![r] = "Prepared"]
       \/ /\ Committing(r, "manifest", "returned")
          /\ temps' \in {temps, [temps EXCEPT ![r] = @ \ {"manifest"}]}
          /\ UNCHANGED <<manifest, state>>
    /\ Touch(r)
    /\ UNCHANGED <<dir, files, lock, op, registry, leases, scan>>

\* sync_directory(staging): a failure ends the commit of a Prepared report.
SyncPrepared(r) ==
    /\ Committing(r, "sync", "check") \/ Committing(r, "sync", "returned")
    /\ UNCHANGED <<diskVars, state, op, registry, leases, scan>>

\* The destination is free and revalidate_prepared_report succeeds, or not.
CheckPrepared(r) ==
    /\ \/ /\ Committing(r, "check", "publish")
          /\ dir[r] = "staging"
          /\ manifest[r] = registry[r]
          /\ ExactDirectory(r, registry[r])
       \/ Committing(r, "check", "returned")
    /\ UNCHANGED <<diskVars, state, op, registry, leases, scan>>

\* publish_private_path of a directory fails: at the rename, or after it, when
\* the entry cannot be verified.  Then it is renamed back or quarantined under a
\* name no scan lists, or it stays where it is when that fails too.
FailedRename(r) ==
    dir' \in {dir} \cup {[dir EXCEPT ![r] = where] : where \in {"quarantined", "published"}}

\* The directory rename, the lease and the Committed state; or a failure.
PublishReport(r) ==
    /\ Committing(r, "publish", "returned")
    /\ \/ /\ dir[r] = "staging"
          /\ dir' = [dir EXCEPT ![r] = "published"]
          /\ state' = [state EXCEPT ![r] = "Committed"]
          /\ leases' = leases \cup {r}
       \/ FailedRename(r) /\ UNCHANGED <<state, leases>>
    /\ UNCHANGED <<files, temps, manifest, lock, stale, op, registry, scan>>

\* release_publication_lease after the last consumer.
ReleaseLease(r) ==
    /\ state[r] = "Committed"
    /\ r \in leases
    /\ leases' = leases \ {r}
    /\ UNCHANGED <<diskVars, state, commit, op, registry, scan>>

\* What remains of the directory when it is removed with its content.
EmptyDirectory(r) ==
    /\ dir' = [dir EXCEPT ![r] = "absent"]
    /\ files' = [files EXCEPT ![r] = {}]
    /\ temps' = [temps EXCEPT ![r] = {}]
    /\ manifest' = [manifest EXCEPT ![r] = NoManifest]

\* Mutation of OwnerEnds: the lock survives its process, like a lock file.
OwnerEndsLocked(r) ==
    /\ state' = [state EXCEPT ![r] = "Gone"]
    /\ commit' = [commit EXCEPT ![r] = "idle"]
    /\ op' = [op EXCEPT ![r] = "none"]
    /\ registry' = [registry EXCEPT ![r] = {}]
    /\ leases' = leases \ {r}
    /\ UNCHANGED lock

\* The owner's state, lease and lock end with it.
OwnerEnds(r) ==
    /\ state' = [state EXCEPT ![r] = "Gone"]
    /\ commit' = [commit EXCEPT ![r] = "idle"]
    /\ op' = [op EXCEPT ![r] = "none"]
    /\ registry' = [registry EXCEPT ![r] = {}]
    /\ leases' = leases \ {r}
    /\ lock' = [lock EXCEPT ![r] = IF @ = "owner" THEN "free" ELSE @]

\* Drop: an Open or Preparing transaction removes its directory (which may
\* fail); a Prepared one is left for recovery.
Drop(r) ==
    /\ state[r] \in Live
    /\ op[r] = "none"
    /\ commit[r] \in {"idle", "returned"}
    /\ \/ state[r] \in {"Open", "Preparing"} /\ EmptyDirectory(r)
       \/ UNCHANGED <<dir, files, temps, manifest>>
    /\ OwnerEnds(r)
    /\ UNCHANGED <<stale, scan>>

\* The owning process dies; the kernel releases its lock.
Crash(r) ==
    /\ state[r] \notin {"New", "Gone"}
    /\ OwnerEnds(r)
    /\ UNCHANGED <<dir, files, temps, manifest, stale, scan>>

\* Nothing touched the staging directory for max_age.
Age(r) ==
    /\ dir[r] = "staging"
    /\ ~stale[r]
    /\ stale' = [stale EXCEPT ![r] = TRUE]
    /\ UNCHANGED <<dir, files, temps, manifest, lock, ownerVars, scan>>

-----------------------------------------------------------------------------
(* Scanners.                                                               *)

ScanTo(s, pc, todo, cur) == scan' = [scan EXCEPT ![s] = [pc |-> pc, todo |-> todo, cur |-> cur]]

\* The scanner is done with its current entry and releases its lock.
NextEntry(s, pc) ==
    /\ ScanTo(s, pc, scan[s].todo \ {scan[s].cur}, scan[s].cur)
    /\ lock' = [r \in Reports |-> IF lock[r] = s THEN "free" ELSE lock[r]]

\* recover_startup_artifacts starts (monitor startup).
StartRecovery(s) ==
    /\ scan[s].pc = "idle"
    /\ ScanTo(s, "recover", Reports, scan[s].cur)
    /\ UNCHANGED <<diskVars, ownerVars>>

\* RetentionCleaner scavenges during the final cleanup of some report; no
\* recovery precedes it.
StartRetention(s) ==
    /\ scan[s].pc = "idle"
    /\ ScanTo(s, "scavenge", Reports, scan[s].cur)
    /\ UNCHANGED <<diskVars, ownerVars>>

\* recover_prepared_entry: not a staging directory, or it cannot be opened.
RecoverSkip(s, r) ==
    /\ scan[s].pc = "recover"
    /\ r \in scan[s].todo
    /\ dir[r] # "staging"
    /\ ScanTo(s, "recover", scan[s].todo \ {r}, r)
    /\ UNCHANGED <<diskVars, ownerVars>>

\* recover_prepared_entry: try_lock_report_directory opens the directory ...
RecoverOpen(s, r) ==
    /\ scan[s].pc = "recover"
    /\ r \in scan[s].todo
    /\ dir[r] = "staging"
    /\ ScanTo(s, "opened", scan[s].todo, r)
    /\ UNCHANGED <<diskVars, ownerVars>>

\* ... and locks it, wherever it is by now, ...
RecoverLock(s) ==
    /\ scan[s].pc = "opened"
    /\ lock[scan[s].cur] = "free"
    /\ lock' = [lock EXCEPT ![scan[s].cur] = s]
    /\ ScanTo(s, "locked", scan[s].todo, scan[s].cur)
    /\ UNCHANGED <<dir, files, temps, manifest, stale, ownerVars>>

\* ... unless somebody holds the lock.
RecoverBusy(s) ==
    /\ scan[s].pc = "opened"
    /\ lock[scan[s].cur] # "free"
    /\ NextEntry(s, "recover")
    /\ UNCHANGED <<dir, files, temps, manifest, stale, ownerVars>>

\* Mutation of RecoverValidate: a manifest is enough.
RecoverValidateManifestOnly(s) ==
    /\ scan[s].pc = "locked"
    /\ IF dir[scan[s].cur] = "staging" /\ manifest[scan[s].cur] # NoManifest
       THEN ScanTo(s, "republish", scan[s].todo, scan[s].cur) /\ UNCHANGED lock
       ELSE NextEntry(s, "recover")
    /\ UNCHANGED <<dir, files, temps, manifest, stale, ownerVars>>

\* recover_prepared_entry: the manifest is there, under the staging name, and
\* describes the directory exactly; otherwise the entry is left as it is.
RecoverValidate(s) ==
    /\ scan[s].pc = "locked"
    /\ LET r == scan[s].cur IN
       IF dir[r] = "staging" /\ manifest[r] # NoManifest /\ ExactDirectory(r, manifest[r])
       THEN ScanTo(s, "republish", scan[s].todo, r) /\ UNCHANGED lock
       ELSE NextEntry(s, "recover")
    /\ UNCHANGED <<dir, files, temps, manifest, stale, ownerVars>>

\* recover_prepared_entry: the rename.
RecoverPublish(s) ==
    /\ scan[s].pc = "republish"
    /\ dir[scan[s].cur] = "staging"
    /\ dir' = [dir EXCEPT ![scan[s].cur] = "published"]
    /\ NextEntry(s, "recover")
    /\ UNCHANGED <<files, temps, manifest, stale, ownerVars>>

\* recover_prepared_entry: an I/O error or the startup deadline.
RecoverFail(s) ==
    /\ \/ scan[s].pc \in {"opened", "locked"} /\ UNCHANGED dir
       \/ scan[s].pc = "republish" /\ FailedRename(scan[s].cur)
    /\ NextEntry(s, "recover")
    /\ UNCHANGED <<files, temps, manifest, stale, ownerVars>>

\* The recovery pass ends: all entries inspected, the root-entry limit or the
\* deadline.  The scavenger follows.
RecoverEnd(s) ==
    /\ scan[s].pc = "recover"
    /\ ScanTo(s, "scavenge", Reports, scan[s].cur)
    /\ UNCHANGED <<diskVars, ownerVars>>

\* scavenge_stale_pending: the age of one entry.
ScavengeStat(s, r) ==
    /\ scan[s].pc = "scavenge"
    /\ r \in scan[s].todo
    /\ IF dir[r] = "staging" /\ stale[r]
       THEN ScanTo(s, "stat", scan[s].todo, r)
       ELSE ScanTo(s, "scavenge", scan[s].todo \ {r}, r)
    /\ UNCHANGED <<diskVars, ownerVars>>

\* scavenge_stale_pending: try_lock_report_directory opens an old entry; a
\* vanished one is an error that ends the pass.
ScavengeOpen(s) ==
    /\ scan[s].pc = "stat"
    /\ IF dir[scan[s].cur] = "staging"
       THEN ScanTo(s, "stale", scan[s].todo, scan[s].cur)
       ELSE ScanTo(s, "idle", {}, scan[s].cur)
    /\ UNCHANGED <<diskVars, ownerVars>>

\* scavenge_stale_pending: the lock of the open entry, and its listing, which
\* fails and ends the pass if the entry has gone from its name.
ScavengeLock(s) ==
    /\ scan[s].pc = "stale"
    /\ LET r == scan[s].cur IN
       \/ /\ lock[r] = "free" /\ dir[r] = "staging"
          /\ lock' = [lock EXCEPT ![r] = s]
          /\ ScanTo(s, "delete", scan[s].todo, r)
       \/ /\ lock[r] = "free" /\ dir[r] # "staging"
          /\ ScanTo(s, "idle", {}, r)
          /\ UNCHANGED lock
       \/ /\ lock[r] # "free"
          /\ NextEntry(s, "scavenge")
    /\ UNCHANGED <<dir, files, temps, manifest, stale, ownerVars>>

\* scavenge_stale_pending: one child is removed.
ScavengeFile(s) ==
    /\ scan[s].pc = "delete"
    /\ LET r == scan[s].cur IN
       /\ \/ \E a \in files[r] :
               /\ files' = [files EXCEPT ![r] = @ \ {a}]
               /\ UNCHANGED <<temps, manifest>>
          \/ \E t \in temps[r] :
               /\ temps' = [temps EXCEPT ![r] = @ \ {t}]
               /\ UNCHANGED <<files, manifest>>
          \/ /\ manifest[r] # NoManifest
             /\ manifest' = [manifest EXCEPT ![r] = NoManifest]
             /\ UNCHANGED <<files, temps>>
       /\ Touch(r)
    /\ UNCHANGED <<dir, lock, ownerVars, scan>>

\* scavenge_stale_pending: the empty directory is removed.
ScavengeDirectory(s) ==
    /\ scan[s].pc = "delete"
    /\ LET r == scan[s].cur IN
       /\ dir[r] = "staging"
       /\ files[r] = {} /\ temps[r] = {} /\ manifest[r] = NoManifest
       /\ dir' = [dir EXCEPT ![r] = "absent"]
    /\ NextEntry(s, "scavenge")
    /\ UNCHANGED <<files, temps, manifest, stale, ownerVars>>

\* The pass ends, complete, failed, or with its process.
ScanEnd(s) ==
    /\ scan[s].pc # "idle"
    /\ ScanTo(s, "idle", {}, scan[s].cur)
    /\ lock' = [r \in Reports |-> IF lock[r] = s THEN "free" ELSE lock[r]]
    /\ UNCHANGED <<dir, files, temps, manifest, stale, ownerVars>>

-----------------------------------------------------------------------------

Transaction(r) ==
    \/ CreateStaging(r) \/ OpenStaging(r) \/ LockStaging(r)
    \/ FinishWrite(r) \/ FailWrite(r)
    \/ \E a \in Names : StartWrite(r, a) \/ RemoveFile(r, a) \/ UnregisterFile(r, a)
    \/ BeginCommit(r) \/ BuildManifest(r) \/ PublishManifest(r)
    \/ SyncPrepared(r) \/ CheckPrepared(r) \/ PublishReport(r)
    \/ ReleaseLease(r) \/ Drop(r) \/ Crash(r)

Scanner(s) ==
    \/ StartRecovery(s) \/ StartRetention(s)
    \/ \E r \in Reports : RecoverSkip(s, r) \/ RecoverOpen(s, r) \/ ScavengeStat(s, r)
    \/ RecoverLock(s) \/ RecoverBusy(s) \/ RecoverValidate(s)
    \/ RecoverPublish(s) \/ RecoverFail(s) \/ RecoverEnd(s)
    \/ ScavengeOpen(s) \/ ScavengeLock(s) \/ ScavengeFile(s) \/ ScavengeDirectory(s)
    \/ ScanEnd(s)

Next ==
    \/ \E r \in Reports : Transaction(r) \/ Age(r)
    \/ \E s \in Scanners : Scanner(s)

Spec == Init /\ [][Next]_vars

(***************************************************************************)
(* Monitors keep being started and their recovery passes run; no single    *)
(* entry is skipped by the limits, by errors or by crashes for ever.       *)
(***************************************************************************)
Fairness ==
    \A s \in Scanners :
        /\ WF_vars(ScanEnd(s))
        /\ SF_vars(StartRecovery(s))
        /\ SF_vars(RecoverLock(s))
        /\ SF_vars(RecoverValidate(s))
        /\ SF_vars(RecoverPublish(s))
        /\ \A r \in Reports : SF_vars(RecoverOpen(s, r))

FairSpec == Spec /\ Fairness

-----------------------------------------------------------------------------
(* Properties.                                                             *)

(***************************************************************************)
(* A visible report is complete: whether its transaction or a recovery     *)
(* after a crash published it, its manifest is there, and its files are    *)
(* exactly the manifest's, with no temporary file left.                    *)
(***************************************************************************)
PublishedIsComplete ==
    \A r \in Reports : dir[r] = "published" =>
        /\ manifest[r] # NoManifest
        /\ ExactDirectory(r, manifest[r])

(***************************************************************************)
(* "A live owner lock always leaves its transaction untouched" (mod.rs):   *)
(* no step of a recovery or scavenger pass changes anything of the report  *)
(* of a transaction that is past begin and not yet committed, although     *)
(* passes open directories before they can know who will lock them first   *)
(* and a directory may be stale the moment it is created (max_age 0).      *)
(* A transaction that has become Prepared still has its directory, with    *)
(* exactly the files of its manifest.                                      *)
(***************************************************************************)
LiveTransactionUntouched ==
    [][\A r \in Reports :
          /\ state[r] = "Prepared" =>
                /\ dir[r] # "absent"
                /\ manifest[r] = registry[r] /\ ExactDirectory(r, registry[r])
          /\ (\E s \in Scanners : Scanner(s)) /\ state[r] \in {"Open", "Preparing", "Prepared"} =>
                /\ dir'[r] = dir[r] /\ files'[r] = files[r]
                /\ temps'[r] = temps[r] /\ manifest'[r] = manifest[r]]_vars

(***************************************************************************)
(* A report whose commit was interrupted after its manifest, by a crash or *)
(* by an error, is published by a later recovery (or quarantined, if it    *)
(* cannot be verified after the rename) unless it becomes stale first: no  *)
(* interruption leaves a manifest-complete report that recovery can never  *)
(* publish.                                                                *)
(***************************************************************************)
PreparedIsRecovered ==
    \A r \in Reports :
        LET complete == manifest[r] # NoManifest /\ ExactDirectory(r, manifest[r]) IN
        (state[r] = "Gone" /\ dir[r] = "staging" /\ complete)
            ~> (dir[r] \in {"published", "quarantined"} \/ stale[r] \/ ~complete)

(***************************************************************************)
(* "delete only old, unlocked transactions that never reached the manifest *)
(* commit marker" (mod.rs) and "Prepared manifests are handled by recovery *)
(* first" (artifact.rs): the manifest of a staged report is never deleted. *)
(***************************************************************************)
ManifestNeverScavenged ==
    [][\A r \in Reports : manifest[r] # NoManifest => manifest'[r] # NoManifest]_vars

=============================================================================
