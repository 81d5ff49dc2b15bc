----------------------------- MODULE Retention -----------------------------
(***************************************************************************)
(* RetentionManager on the reports ArtifactStore publishes                 *)
(* (src/postprocessors/retention.rs).                                      *)
(*                                                                         *)
(* A pass belongs to the finalization of one committed report, in the      *)
(* process that owns it.  It scavenges old staging directories, takes the  *)
(* retention lock of the root, removes the tombstones of interrupted       *)
(* passes, scans, and removes the oldest reports while a limit is          *)
(* exceeded: each is locked, inspected again, hidden by a rename and       *)
(* deleted file by file.  Every process may crash between two of these     *)
(* steps.                                                                  *)
(***************************************************************************)
EXTENDS ArtifactStore, Sequences, FiniteSetsExt

CONSTANTS
    Legacy,       \* flat report files of earlier versions
    Earlier,      \* reports of processes that ended before the modelled ones start
    MaxCount,     \* max_count
    MaxBytes,     \* max_total_bytes
    Size(_)       \* the bytes of a report or of a legacy file

ASSUME RetentionAssumption ==
    /\ Legacy \cap Reports = {} /\ Earlier \subseteq Reports /\ "free" \notin Reports
    /\ MaxCount \in Nat /\ MaxBytes \in Nat

VARIABLES
    modified,   \* complete reports and legacy files, by modification time
    expired,    \* how many of them, from the oldest, exceed max_age
    tomb,       \* the files in the tombstone of a report, or NoTomb
    rlock,      \* .retention.lock: "free" or the report whose pass holds it
    pass        \* the pass of each report: [pc, limit, seen, entries, old]

retentionVars == <<modified, expired, tomb, rlock, pass>>
allVars == <<vars, retentionVars>>

NoTomb == {"no tombstone"}

Entries == Reports \cup Legacy

RetentionTypeOK ==
    /\ modified \in Seq(Entries) /\ IsInjective(modified)
    /\ expired \in 0 .. Len(modified)
    /\ tomb \in [Reports -> (SUBSET (Names \cup {"manifest"})) \cup {NoTomb}]
    /\ rlock \in Reports \cup {"free"}
    /\ \A c \in Reports :
          /\ pass[c].pc \in {"none", "scavenge", "lock", "sweep", "scan", "limit", "inspect", "delete", "returned"}
          /\ pass[c].limit \in {"age", "count", "bytes"}
          /\ pass[c].seen \subseteq Entries
          /\ pass[c].entries \in Seq(Entries)
          /\ pass[c].old \subseteq Entries

\* The entries a scan of the root lists: neither hidden directories nor files.
Visible == {r \in Reports : dir[r] = "published"} \cup (Legacy \cap Range(modified))

NoPass == [pc |-> "none", limit |-> "age", seen |-> {}, entries |-> <<>>, old |-> {}]
Returned == [pc |-> "returned", limit |-> "age", seen |-> {}, entries |-> <<>>, old |-> {}]

\* The sequences that hold every element of a set once.
Orders(S) == Injection(1 .. Cardinality(S), S)

\* The root is new, or holds what earlier sessions left.
RetentionInit ==
    /\ modified \in {<<>>} \cup Orders(Legacy \cup Earlier)
    /\ dir = [r \in Reports |-> IF r \in Range(modified) THEN "published" ELSE "absent"]
    /\ files = [r \in Reports |-> IF r \in Range(modified) THEN Names ELSE {}]
    /\ manifest = [r \in Reports |-> IF r \in Range(modified) THEN Names ELSE NoManifest]
    /\ temps = [r \in Reports |-> {}]
    /\ lock = [r \in Reports |-> "free"]
    /\ stale = [r \in Reports |-> FALSE]
    /\ state = [r \in Reports |-> IF r \in Earlier THEN "Gone" ELSE "New"]
    /\ commit = [r \in Reports |-> "idle"]
    /\ op = [r \in Reports |-> "none"]
    /\ registry = [r \in Reports |-> {}]
    /\ leases = {}
    /\ scan = [s \in Scanners |-> [pc |-> "idle", todo |-> {}, cur |-> CHOOSE r \in Reports : TRUE]]
    /\ expired = 0
    /\ tomb = [r \in Reports |-> NoTomb]
    /\ rlock = "free"
    /\ pass = [c \in Reports |-> NoPass]

-----------------------------------------------------------------------------
(* What transactions and recovery do to this state.                        *)

Busy(c) == pass[c].pc \notin {"none", "returned"}

\* Changing the content of a directory makes it the most recently modified one;
\* only complete directories matter here.
Remember(changed) ==
    LET kept == SelectSeq(modified, LAMBDA e : e \notin changed)
        complete == {r \in changed : manifest'[r] # NoManifest}
    IN  /\ modified' = kept \o (CHOOSE order \in Orders(complete) : TRUE)
        /\ expired' = Cardinality({i \in 1 .. expired : modified[i] \notin changed})

\* The pass, its lock file and its lock on a report end with its process.
PassEnds(c) ==
    /\ pass' = [pass EXCEPT ![c] = Returned]
    /\ rlock' = IF rlock = c THEN "free" ELSE rlock

Changed == {r \in Reports : <<files[r], temps[r], manifest[r]>> # <<files'[r], temps'[r], manifest'[r]>>}

\* A step of a transaction.  While its retention pass runs it does nothing else.
TransactionStep(r) ==
    /\ ~Busy(r)
    /\ Transaction(r)
    /\ Remember(Changed)
    /\ UNCHANGED <<tomb, rlock, pass>>

\* A recovery pass publishes a prepared report nobody owns: RecoverLock to
\* RecoverPublish of ArtifactStore, which holds the lock all the while.
Recover(r) ==
    /\ dir[r] = "staging" /\ lock[r] = "free"
    /\ manifest[r] # NoManifest /\ ExactDirectory(r, manifest[r])
    /\ \E where \in {"published", "quarantined"} : dir' = [dir EXCEPT ![r] = where]
    /\ UNCHANGED <<files, temps, manifest, lock, stale, ownerVars, scan, retentionVars>>

\* The process of a pass dies; the kernel releases all its locks.
CrashInPass(c) ==
    /\ Busy(c)
    /\ state' = [state EXCEPT ![c] = "Gone"]
    /\ commit' = [commit EXCEPT ![c] = "idle"]
    /\ registry' = [registry EXCEPT ![c] = {}]
    /\ leases' = leases \ {c}
    /\ lock' = [r \in Reports |-> IF (r = c /\ lock[r] = "owner") \/ (rlock = c /\ lock[r] = "retention")
                                  THEN "free" ELSE lock[r]]
    /\ PassEnds(c)
    /\ UNCHANGED <<dir, files, temps, manifest, stale, op, scan, modified, expired, tomb>>

\* Time passes: one more of the oldest entries exceeds max_age.
ReportAges ==
    /\ expired < Len(modified)
    /\ expired' = expired + 1
    /\ UNCHANGED <<vars, modified, tomb, rlock, pass>>

\* persist_final_diagnostics: the manifest of the report is replaced after the
\* pass by one with the same artifacts, which renews the modification time.
PersistFinalDiagnostics(c) ==
    /\ state[c] = "Committed" /\ c \in leases
    /\ pass[c].pc = "returned"
    /\ dir[c] = "published"
    /\ modified # <<>> /\ modified[Len(modified)] # c
    /\ modified' = Append(SelectSeq(modified, LAMBDA e : e # c), c)
    /\ expired' = Cardinality({i \in 1 .. expired : modified[i] # c})
    /\ UNCHANGED <<vars, tomb, rlock, pass>>

-----------------------------------------------------------------------------
(* process.                                                                *)

Goto(c, pc) == pass' = [pass EXCEPT ![c].pc = pc]

\* FinalCleanup starts while the lease is held.
StartPass(c) ==
    /\ state[c] = "Committed" /\ c \in leases
    /\ pass[c].pc = "none"
    /\ Goto(c, "scavenge")
    /\ UNCHANGED <<vars, modified, expired, tomb, rlock>>

\* scavenge_stale_pending: an old staging directory that nobody owns is removed
\* (ScavengeStat to ScavengeDirectory of ArtifactStore), ...
ScavengePending(c) ==
    /\ pass[c].pc = "scavenge"
    /\ \E r \in Reports :
          /\ dir[r] = "staging" /\ stale[r] /\ lock[r] = "free"
          /\ EmptyDirectory(r) /\ Touch(r) /\ Remember({r})
    /\ UNCHANGED <<lock, ownerVars, scan, tomb, rlock, pass>>

\* ... then the next one, or the root is validated.
ScavengeEnds(c) ==
    /\ pass[c].pc = "scavenge"
    /\ Goto(c, "lock")
    /\ UNCHANGED <<vars, modified, expired, tomb, rlock>>

\* acquire_retention_lock polls until the lock is free ...
AcquireRetentionLock(c) ==
    /\ pass[c].pc = "lock"
    /\ rlock = "free"
    /\ rlock' = c
    /\ Goto(c, "sweep")
    /\ UNCHANGED <<vars, modified, expired, tomb>>

\* ... or until its deadline.  Like every step up to the limits, and every
\* checkpoint between two removals, it may return an error instead.
ReturnEarly(c) ==
    /\ pass[c].pc \in {"scavenge", "lock", "sweep", "scan", "limit"}
    /\ PassEnds(c)
    /\ UNCHANGED <<vars, modified, expired, tomb>>

\* remove_stale_tombstone: one file, or the empty directory.
SweepTombstone(c) ==
    /\ pass[c].pc = "sweep"
    /\ \E r \in Reports :
          /\ tomb[r] # NoTomb
          /\ tomb' \in IF tomb[r] = {} THEN {[tomb EXCEPT ![r] = NoTomb]}
                       ELSE {[tomb EXCEPT ![r] = @ \ {f}] : f \in tomb[r]}
    /\ UNCHANGED <<vars, modified, expired, rlock, pass>>

\* No tombstone is left; collect_entries starts to list the root.
StartScan(c) ==
    /\ pass[c].pc = "sweep"
    /\ \A r \in Reports : tomb[r] = NoTomb
    /\ pass' = [pass EXCEPT ![c].pc = "scan", ![c].seen = Visible]
    /\ UNCHANGED <<vars, modified, expired, tomb, rlock>>

Expired(e) == \E i \in 1 .. expired : modified[i] = e

\* The listing ends: it holds everything that was there when it began, and some
\* of what was published meanwhile, sorted by modification time.  Age is decided
\* now: a report whose time is renewed after it was inspected keeps its place and
\* its age in this pass.
FinishScan(c) ==
    /\ pass[c].pc = "scan"
    /\ \E late \in SUBSET (Visible \ pass[c].seen) :
          pass' = [pass EXCEPT ![c] =
              [pc |-> "limit", limit |-> "age", seen |-> {},
               entries |-> SelectSeq(modified, LAMBDA e : e \in pass[c].seen \cup late),
               old |-> {e \in pass[c].seen \cup late : Expired(e)}]]
    /\ UNCHANGED <<vars, modified, expired, tomb, rlock>>

Bytes(entries) == MapThenSumSet(Size, entries)

\* Mutation of Exceeded: a full store counts as too full.
ExceededAtLimit(limit, entries, old) ==
    /\ entries # <<>>
    /\ CASE limit = "age" -> Head(entries) \in old
         [] limit = "count" -> Len(entries) >= MaxCount
         [] limit = "bytes" -> Bytes(Range(entries)) > MaxBytes

\* A limit is exceeded by what is left of the list.
Exceeded(limit, entries, old) ==
    /\ entries # <<>>
    /\ CASE limit = "age" -> Head(entries) \in old
         [] limit = "count" -> Len(entries) > MaxCount
         [] limit = "bytes" -> Bytes(Range(entries)) > MaxBytes

\* entry_is_leased: the leases of this process; reports of other processes are
\* protected by the locks on their directories.
EntryIsLeased(c, e) == e = c

\* The oldest entry is to be removed.
Candidate(c) ==
    /\ pass[c].pc = "limit"
    /\ Exceeded(pass[c].limit, pass[c].entries, pass[c].old)
    /\ ~EntryIsLeased(c, Head(pass[c].entries))

\* The loop of a limit ends: on to the next limit, or out of process.
EndLimit(c) ==
    CASE pass[c].limit = "age" ->
            pass' = [pass EXCEPT ![c].pc = "limit", ![c].limit = "count"] /\ UNCHANGED rlock
      [] pass[c].limit = "count" ->
            pass' = [pass EXCEPT ![c].pc = "limit", ![c].limit = "bytes"] /\ UNCHANGED rlock
      [] pass[c].limit = "bytes" -> PassEnds(c)

\* The limit holds, its oldest entry is leased, or that entry could not be
\* removed: it has changed, is locked by another monitor, or an I/O error.
LimitEnds(c) ==
    /\ pass[c].pc = "limit"
    /\ EndLimit(c)
    /\ UNCHANGED <<vars, modified, expired, tomb>>

-----------------------------------------------------------------------------
(* remove_entry.                                                           *)

\* A legacy file is removed in place.
RemoveLegacy(c) ==
    /\ Candidate(c)
    /\ Head(pass[c].entries) \in Legacy
    /\ modified' = SelectSeq(modified, LAMBDA e : e # Head(pass[c].entries))
    /\ expired' = Cardinality({i \in 1 .. expired : modified[i] # Head(pass[c].entries)})
    /\ pass' = [pass EXCEPT ![c].entries = Tail(@)]
    /\ UNCHANGED <<vars, tomb, rlock>>

\* Mutation of LockEntry: leases are taken to protect every live report.
LockEntryLeasesOnly(c) ==
    /\ Candidate(c)
    /\ Head(pass[c].entries) \in Reports
    /\ pass' = [pass EXCEPT ![c].pc = "inspect"]
    /\ UNCHANGED <<vars, modified, expired, tomb, rlock>>

\* A committed report is locked, if no live monitor holds it.
LockEntry(c) ==
    /\ Candidate(c)
    /\ LET e == Head(pass[c].entries) IN
       /\ e \in Reports /\ dir[e] = "published" /\ lock[e] = "free"
       /\ lock' = [lock EXCEPT ![e] = "retention"]
    /\ pass' = [pass EXCEPT ![c].pc = "inspect"]
    /\ UNCHANGED <<dir, files, temps, manifest, stale, ownerVars, scan, modified, expired, tomb, rlock>>

Unlocked == [r \in Reports |-> IF lock[r] = "retention" THEN "free" ELSE lock[r]]

\* The directory is there and its manifest describes it exactly.
InspectCommittedReport(e) ==
    dir[e] = "published" /\ manifest[e] # NoManifest /\ ExactDirectory(e, manifest[e])

\* The report is accepted again (its age is not), and one rename makes it a
\* tombstone.
Hide(e) ==
    /\ InspectCommittedReport(e)
    /\ tomb' = [tomb EXCEPT ![e] = files[e] \cup {"manifest"}]
    /\ EmptyDirectory(e)
    /\ Remember({e})

HideEntry(c) ==
    /\ pass[c].pc = "inspect"
    /\ Hide(Head(pass[c].entries))
    /\ pass' = [pass EXCEPT ![c].pc = "delete"]
    /\ UNCHANGED <<lock, stale, ownerVars, scan, rlock>>

\* The inspection or publish_private_path fails (FailedRename of ArtifactStore):
\* the report is untouched or back, quarantined, or a tombstone all the same.
HideFails(c) ==
    /\ pass[c].pc = "inspect"
    /\ LET e == Head(pass[c].entries) IN
       \/ UNCHANGED <<dir, files, temps, manifest, modified, expired, tomb>>
       \/ /\ InspectCommittedReport(e)
          /\ dir' = [dir EXCEPT ![e] = "quarantined"]
          /\ UNCHANGED <<files, temps, manifest, modified, expired, tomb>>
       \/ Hide(e)
    /\ lock' = Unlocked
    /\ EndLimit(c)
    /\ UNCHANGED <<stale, ownerVars, scan>>

\* remove_flat_tombstone: the artifacts, then the manifest, ...
DeleteFile(c) ==
    /\ pass[c].pc = "delete"
    /\ LET e == Head(pass[c].entries) IN
       \E f \in tomb[e] :
          /\ f = "manifest" => tomb[e] = {f}
          /\ tomb' = [tomb EXCEPT ![e] = @ \ {f}]
    /\ UNCHANGED <<vars, modified, expired, rlock, pass>>

\* ... then the directory.  A failure leaves the tombstone to a later pass, and
\* the report counts as removed all the same.
DeleteEnds(c) ==
    /\ pass[c].pc = "delete"
    /\ LET e == Head(pass[c].entries) IN
       \/ tomb[e] = {} /\ tomb' = [tomb EXCEPT ![e] = NoTomb]
       \/ UNCHANGED tomb
    /\ lock' = Unlocked
    /\ pass' = [pass EXCEPT ![c].pc = "limit", ![c].entries = Tail(@)]
    /\ UNCHANGED <<dir, files, temps, manifest, stale, ownerVars, scan, modified, expired, rlock>>

-----------------------------------------------------------------------------

Pass(c) ==
    \/ StartPass(c) \/ ScavengePending(c) \/ ScavengeEnds(c)
    \/ AcquireRetentionLock(c) \/ ReturnEarly(c)
    \/ SweepTombstone(c) \/ StartScan(c) \/ FinishScan(c) \/ LimitEnds(c)
    \/ RemoveLegacy(c) \/ LockEntry(c) \/ HideEntry(c) \/ HideFails(c)
    \/ DeleteFile(c) \/ DeleteEnds(c)
    \/ PersistFinalDiagnostics(c) \/ CrashInPass(c)

RetentionNext ==
    \/ ReportAges
    \/ \E r \in Reports : TransactionStep(r) \/ Recover(r) \/ (Age(r) /\ UNCHANGED retentionVars)
    \/ \E c \in Reports : Pass(c)

RetentionSpec == RetentionInit /\ [][RetentionNext]_allVars

-----------------------------------------------------------------------------
(* Properties.                                                             *)

(***************************************************************************)
(* "per-report owner locks keep recovery/retention away from a live        *)
(* transaction" (docs/integration.md): a committed report stays where its  *)
(* notifiers were told it is for as long as its finalization lives,        *)
(* whatever passes of this and of other processes do and wherever they     *)
(* crash.                                                                  *)
(***************************************************************************)
LiveReportKept == \A r \in Reports : state[r] = "Committed" => dir[r] = "published"

(***************************************************************************)
(* Retention removes only what exceeds a limit: an entry disappears only   *)
(* if it was too old when the pass that holds the retention lock listed it *)
(* (its age is not looked at again, even if its modification time has been *)
(* renewed since), or if the store, as it is at that moment and not as it  *)
(* was listed, has too many entries or bytes.                              *)
(***************************************************************************)
RemovesOnlyExcess ==
    [][\A e \in Visible \ Visible' :
          \/ rlock \in Reports /\ e \in pass[rlock].old
          \/ Cardinality(Visible) > MaxCount
          \/ Bytes(Visible) > MaxBytes]_allVars
=============================================================================
