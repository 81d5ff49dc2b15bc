------------------------- MODULE ReportStore_proofs -------------------------
(***************************************************************************)
(* Proofs about the report store: the transactions and their recovery      *)
(* (ArtifactStore), the passes that enforce the limits (Retention) and the *)
(* shared directory entries are published into (PrivatePaths).             *)
(***************************************************************************)
EXTENDS Retention, PrivatePaths, TLAPS

-----------------------------------------------------------------------------
(***************************************************************************)
(* Published reports are complete and live transactions are left alone,    *)
(* for every set of reports, artifact names and concurrent scanners.       *)
(*                                                                         *)
(* Neither property is inductive.  OwnerInv ties a live transaction to its *)
(* lock, and a committing one to its directory (a transaction may have     *)
(* locked a directory that was removed after it had opened it, but then it *)
(* cannot commit); ContentInv says what the directory of each commit stage *)
(* holds, and ScannerInv that a scanner changes only a directory it has    *)
(* locked, wherever that was moved before it got the lock, and publishes   *)
(* only what it has validated.                                             *)
(***************************************************************************)

Stages == {"idle", "build", "manifest", "sync", "check", "publish", "returned"}

Places == {"absent", "staging", "published", "quarantined"}

\* The owner's lock and directory; lock holders of any kind may exist.
OwnerInv ==
    /\ dir \in [Reports -> Places]
    /\ lock = [r \in Reports |-> lock[r]]
    /\ state \in [Reports -> {"New", "Created", "Opened", "Gone"} \cup Live]
    /\ commit \in [Reports -> Stages]
    /\ \A r \in Reports :
          /\ state[r] \in Live => lock[r] = "owner"
          /\ state[r] = "Prepared" => dir[r] # "absent"
          /\ state[r] = "Committed" => dir[r] = "published"
          /\ commit[r] \in {"build", "manifest"} => state[r] = "Preparing"
          /\ commit[r] \in {"manifest", "sync", "check", "publish"} => dir[r] = "staging"
          /\ commit[r] \in {"sync", "check", "publish"} => state[r] = "Prepared"

Complete(r) == manifest[r] # NoManifest /\ ExactDirectory(r, manifest[r])

\* What a directory holds at each stage of its transaction.
ContentInv ==
    /\ files \in [Reports -> SUBSET Names]
    /\ temps \in [Reports -> SUBSET Temporaries]
    /\ manifest \in [Reports -> (SUBSET Names) \cup {NoManifest}]
    /\ op \in [Reports -> Names \cup {"none"}]
    /\ registry \in [Reports -> SUBSET Names]
    /\ \A r \in Reports :
          /\ op[r] # "none" => state[r] = "Open"
          /\ state[r] \in {"New", "Created", "Opened", "Open", "Preparing"} => manifest[r] = NoManifest
          /\ commit[r] = "manifest" => files[r] = registry[r] /\ temps[r] = {"manifest"}
          /\ state[r] \in {"Prepared", "Committed"} =>
                manifest[r] = registry[r] /\ files[r] = registry[r] /\ temps[r] = {}
          /\ dir[r] = "published" => Complete(r)

\* A scanner past its lock holds it, has validated what it is about to publish
\* and deletes nothing that is published.
ScannerInv ==
    /\ scan = [s \in Scanners |-> scan[s]]
    /\ \A s \in Scanners :
          /\ scan[s].cur \in Reports /\ scan[s].todo \subseteq Reports
          /\ scan[s].pc \in {"locked", "republish", "delete"} => lock[scan[s].cur] = s
          /\ scan[s].pc = "republish" => Complete(scan[s].cur)
          /\ scan[s].pc = "delete" => dir[scan[s].cur] # "published"

StoreInv == OwnerInv /\ ContentInv /\ ScannerInv

(* A set of artifact names is never the missing manifest.                  *)
LEMMA RegistryIsManifest == \A names \in SUBSET Names : names # NoManifest
  BY NamesAssumption, Zenon DEF NoManifest

(* A transaction's own steps keep its lock and its directory.              *)
LEMMA TransactionKeepsOwner ==
  ASSUME NEW r \in Reports, OwnerInv, Transaction(r)
  PROVE  OwnerInv'
<1> USE DEF OwnerInv, Live, Stages, Places, diskVars, ownerVars, Committing
<1>1. CASE CreateStaging(r)
  BY <1>1 DEF CreateStaging
<1>2. CASE OpenStaging(r) \/ LockStaging(r)
  BY <1>2 DEF OpenStaging, LockStaging, BeginFails
<1>3. CASE FinishWrite(r) \/ FailWrite(r)
  BY <1>3 DEF FinishWrite, FailWrite
<1>4. CASE \E a \in Names : StartWrite(r, a) \/ RemoveFile(r, a) \/ UnregisterFile(r, a)
  BY <1>4 DEF StartWrite, RemoveFile, UnregisterFile
<1>5. CASE BeginCommit(r)
  BY <1>5 DEF BeginCommit, CanOperate
<1>6. CASE BuildManifest(r)
  BY <1>6 DEF BuildManifest
<1>7. CASE PublishManifest(r)
  BY <1>7 DEF PublishManifest
<1>8. CASE SyncPrepared(r) \/ CheckPrepared(r)
  BY <1>8 DEF SyncPrepared, CheckPrepared
<1>9. CASE PublishReport(r)
  BY <1>9 DEF PublishReport, FailedRename
<1>10. CASE ReleaseLease(r)
  BY <1>10 DEF ReleaseLease
<1>11. CASE Drop(r)
  BY SMTT(30), <1>11 DEF Drop, EmptyDirectory, OwnerEnds
<1>12. CASE Crash(r)
  BY <1>12 DEF Crash, OwnerEnds
<1> QED
  BY <1>1, <1>2, <1>3, <1>4, <1>5, <1>6, <1>7, <1>8, <1>9, <1>10, <1>11, <1>12, Zenon DEF Transaction

(* ... and what its directory holds.                                       *)
LEMMA TransactionKeepsContent ==
  ASSUME NEW r \in Reports, OwnerInv, ContentInv, Transaction(r)
  PROVE  ContentInv'
<1> USE DEF OwnerInv, ContentInv, Complete, ExactDirectory, Live, Stages, Places, Temporaries,
            diskVars, ownerVars, Committing
<1>1. CASE CreateStaging(r)
  BY <1>1 DEF CreateStaging
<1>2. CASE OpenStaging(r) \/ LockStaging(r)
  BY <1>2 DEF OpenStaging, LockStaging, BeginFails
<1>3. CASE FinishWrite(r)
  BY <1>3 DEF FinishWrite
<1>4. CASE FailWrite(r)
  BY <1>4 DEF FailWrite
<1>5. ASSUME NEW a \in Names, StartWrite(r, a) PROVE ContentInv'
  BY <1>5 DEF StartWrite, CanOperate
<1>6. ASSUME NEW a \in Names, RemoveFile(r, a) PROVE ContentInv'
  BY <1>6 DEF RemoveFile, CanOperate
<1>7. ASSUME NEW a \in Names, UnregisterFile(r, a) PROVE ContentInv'
  BY <1>7 DEF UnregisterFile, CanOperate
<1>8. CASE BeginCommit(r)
  BY <1>8 DEF BeginCommit, CanOperate
<1>9. CASE BuildManifest(r)
  BY <1>9 DEF BuildManifest
<1>10. CASE PublishManifest(r)
  BY <1>10 DEF PublishManifest
<1>11. CASE SyncPrepared(r) \/ CheckPrepared(r)
  BY <1>11 DEF SyncPrepared, CheckPrepared
<1>12. CASE PublishReport(r)
  BY <1>12, RegistryIsManifest DEF PublishReport, FailedRename
<1>13. CASE ReleaseLease(r)
  BY <1>13 DEF ReleaseLease
<1>14. CASE Drop(r)
  BY <1>14 DEF Drop, EmptyDirectory, OwnerEnds
<1>15. CASE Crash(r)
  BY <1>15 DEF Crash, OwnerEnds
<1> QED
  BY <1>1, <1>2, <1>3, <1>4, <1>5, <1>6, <1>7, <1>8, <1>9, <1>10, <1>11, <1>12, <1>13, <1>14, <1>15, Zenon
     DEF Transaction

(* A step of a transaction touches only its own directory ...              *)
LEMMA TransactionIsLocal ==
  ASSUME NEW r \in Reports, NEW q \in Reports, q # r, OwnerInv, ContentInv, Transaction(r)
  PROVE  /\ dir'[q] = dir[q] /\ files'[q] = files[q] /\ temps'[q] = temps[q]
         /\ manifest'[q] = manifest[q] /\ lock'[q] = lock[q]
<1> DEFINE Local == /\ dir'[q] = dir[q] /\ files'[q] = files[q] /\ temps'[q] = temps[q]
                    /\ manifest'[q] = manifest[q] /\ lock'[q] = lock[q]
<1> USE DEF OwnerInv, ContentInv, diskVars, ownerVars
<1>1. CASE CreateStaging(r) \/ OpenStaging(r) \/ LockStaging(r) \/ FinishWrite(r) \/ FailWrite(r)
  BY <1>1 DEF CreateStaging, OpenStaging, LockStaging, BeginFails, FinishWrite, FailWrite
<1>2. ASSUME NEW a \in Names, StartWrite(r, a) \/ RemoveFile(r, a) \/ UnregisterFile(r, a)
      PROVE  Local
  BY <1>2 DEF StartWrite, RemoveFile, UnregisterFile
<1>3. CASE BeginCommit(r) \/ BuildManifest(r) \/ PublishManifest(r)
  BY <1>3 DEF BeginCommit, BuildManifest, PublishManifest
<1>4. CASE SyncPrepared(r) \/ CheckPrepared(r) \/ PublishReport(r)
  BY <1>4 DEF SyncPrepared, CheckPrepared, PublishReport, FailedRename
<1>5. CASE ReleaseLease(r) \/ Drop(r) \/ Crash(r)
  BY <1>5 DEF ReleaseLease, Drop, Crash, EmptyDirectory, OwnerEnds
<1> HIDE DEF OwnerInv, ContentInv, diskVars, ownerVars
<1> QED
  BY <1>1, <1>2, <1>3, <1>4, <1>5, Zenon DEF Transaction

(* ... and not even that while somebody else holds the lock on it, except   *)
(* to give up a directory it has just created.                             *)
LEMMA TransactionRespectsLock ==
  ASSUME NEW r \in Reports, OwnerInv, ContentInv, Transaction(r), lock[r] \notin {"free", "owner"}
  PROVE  /\ files'[r] = files[r] /\ temps'[r] = temps[r] /\ manifest'[r] = manifest[r] /\ lock'[r] = lock[r]
         /\ dir'[r] \in {"absent", "staging", dir[r]}
<1>1. state[r] \notin Live /\ op[r] = "none" /\ commit[r] \in {"idle", "returned"}
  BY DEF OwnerInv, ContentInv, Live, Stages
<1>2. CreateStaging(r) \/ OpenStaging(r) \/ LockStaging(r) \/ Crash(r)
  BY <1>1, Zenon DEF Transaction, FinishWrite, FailWrite, StartWrite, RemoveFile, UnregisterFile, BeginCommit,
              BuildManifest, PublishManifest, SyncPrepared, CheckPrepared, PublishReport, ReleaseLease,
              Drop, CanOperate, Committing, Live
<1> QED
  BY <1>1, <1>2 DEF OwnerInv, ContentInv, CreateStaging, OpenStaging, LockStaging, BeginFails, Crash, OwnerEnds

(* So no scanner is disturbed.                                             *)
LEMMA TransactionKeepsScanners ==
  ASSUME NEW r \in Reports, StoreInv, Transaction(r)
  PROVE  ScannerInv'
<1>1. scan' = scan
  BY Zenon DEF Transaction, CreateStaging, OpenStaging, LockStaging, FinishWrite, FailWrite, StartWrite, RemoveFile,
         UnregisterFile, BeginCommit, BuildManifest, PublishManifest, SyncPrepared, CheckPrepared,
         PublishReport, ReleaseLease, Drop, Crash
<1>2. ASSUME NEW s \in Scanners, scan[s].pc \in {"locked", "republish", "delete"}
      PROVE  /\ lock'[scan[s].cur] = s
             /\ scan[s].pc = "republish" => Complete(scan[s].cur)'
             /\ scan[s].pc = "delete" => dir'[scan[s].cur] # "published"
  <2> DEFINE q == scan[s].cur
  <2>1. /\ q \in Reports /\ lock[q] = s
        /\ scan[s].pc = "republish" => Complete(q)
        /\ scan[s].pc = "delete" => dir[q] # "published"
    BY <1>2 DEF StoreInv, ScannerInv
  <2>2. s \notin {"free", "owner"}
    BY ScannersAssumption
  <2>3. /\ files'[q] = files[q] /\ temps'[q] = temps[q] /\ manifest'[q] = manifest[q]
        /\ lock'[q] = lock[q] /\ dir'[q] \in {"absent", "staging", dir[q]}
    <3> HIDE DEF q
    <3>1. CASE q = r
      BY <2>1, <2>2, <3>1, TransactionRespectsLock DEF StoreInv
    <3>2. CASE q # r
      BY <2>1, <3>2, TransactionIsLocal DEF StoreInv
    <3> QED
      BY <3>1, <3>2
  <2> QED
    BY <1>1, <2>1, <2>3, Zenon DEF Complete, ExactDirectory
<1> QED
  BY <1>1, <1>2 DEF StoreInv, ScannerInv

-----------------------------------------------------------------------------

(* A scanner gives its lock back, and only its own.                        *)
LEMMA NextEntryKeepsInv ==
  ASSUME StoreInv, NEW s \in Scanners, NEW pc \in {"recover", "scavenge", "idle"},
         NEW todo \in SUBSET Reports, ScanTo(s, pc, todo, scan[s].cur),
         lock' = [r \in Reports |-> IF lock[r] = s THEN "free" ELSE lock[r]],
         \A r \in Reports : lock[r] # s => dir'[r] = dir[r],
         \A r \in Reports : dir'[r] = "published" => Complete(r),
         dir' \in [Reports -> Places],
         UNCHANGED <<files, temps, manifest, ownerVars>>
  PROVE  StoreInv'
<1>0. s \notin {"free", "owner"}
  BY ScannersAssumption
<1>1. OwnerInv'
  <2>1. \A r \in Reports : state[r] \in Live => lock'[r] = "owner" /\ dir'[r] = dir[r]
    BY <1>0 DEF StoreInv, OwnerInv
  <2> QED
    BY <2>1 DEF StoreInv, OwnerInv, ownerVars, Live
<1>2. ContentInv'
  BY DEF StoreInv, ContentInv, Complete, ExactDirectory, ownerVars
<1>3. ScannerInv'
  <2>1. /\ scan' = [scan EXCEPT ![s] = [pc |-> pc, todo |-> todo, cur |-> scan[s].cur]]
        /\ scan[s].cur \in Reports
    BY DEF ScanTo, StoreInv, ScannerInv
  <2>2. /\ scan'[s].pc = pc /\ scan'[s].todo = todo /\ scan'[s].cur = scan[s].cur
        /\ \A u \in Scanners : u # s => scan'[u] = scan[u]
        /\ scan' = [u \in Scanners |-> scan'[u]]
    BY <2>1 DEF StoreInv, ScannerInv
  <2>3. ASSUME NEW u \in Scanners, u # s, scan[u].pc \in {"locked", "republish", "delete"}
        PROVE  lock'[scan[u].cur] = u /\ dir'[scan[u].cur] = dir[scan[u].cur]
    BY <2>3 DEF StoreInv, ScannerInv
  <2>4. ASSUME NEW u \in Scanners
        PROVE  /\ scan'[u].cur \in Reports /\ scan'[u].todo \subseteq Reports
               /\ scan'[u].pc \in {"locked", "republish", "delete"} => lock'[scan'[u].cur] = u
               /\ scan'[u].pc = "delete" => dir'[scan'[u].cur] # "published"
               /\ scan'[u].pc = "republish" => Complete(scan[u].cur)' /\ scan'[u].cur = scan[u].cur
    <3>1. CASE u = s
      BY <2>1, <2>2, <3>1
    <3>2. CASE u # s
      <4>1. scan'[u] = scan[u]
        BY <2>2, <3>2
      <4>2. /\ scan[u].cur \in Reports /\ scan[u].todo \subseteq Reports
            /\ scan[u].pc = "delete" => dir[scan[u].cur] # "published"
            /\ scan[u].pc = "republish" => Complete(scan[u].cur)
        BY DEF StoreInv, ScannerInv
      <4>3. Complete(scan[u].cur)' <=> Complete(scan[u].cur)
        BY <4>1 DEF Complete, ExactDirectory
      <4> QED
        BY <2>3, <3>2, <4>1, <4>2, <4>3, Zenon
    <3> QED
      BY <3>1, <3>2, Zenon
  <2> QED
    BY <2>2, <2>4 DEF ScannerInv, Complete, ExactDirectory
<1> QED
  BY <1>1, <1>2, <1>3 DEF StoreInv

(* The same, when the directory was left as it was.                        *)
LEMMA LeaveEntryKeepsInv ==
  ASSUME StoreInv, NEW s \in Scanners, NEW pc \in {"recover", "scavenge", "idle"},
         NEW todo \in SUBSET Reports, ScanTo(s, pc, todo, scan[s].cur),
         lock' = [r \in Reports |-> IF lock[r] = s THEN "free" ELSE lock[r]],
         UNCHANGED <<dir, files, temps, manifest, ownerVars>>
  PROVE  StoreInv'
<1>1. /\ \A r \in Reports : lock[r] # s => dir'[r] = dir[r]
      /\ \A r \in Reports : dir'[r] = "published" => Complete(r)
      /\ dir' \in [Reports -> Places]
  BY DEF StoreInv, OwnerInv, ContentInv
<1> QED
  BY <1>1, NextEntryKeepsInv

(* A scanner that only moves on changes nothing else.                      *)
LEMMA ScanToKeepsInv ==
  ASSUME StoreInv, NEW s \in Scanners, NEW pc, NEW todo \in SUBSET Reports, NEW cur \in Reports,
         pc \in {"locked", "republish"} => lock[cur] = s /\ (pc = "republish" => Complete(cur)),
         pc # "delete",
         ScanTo(s, pc, todo, cur),
         UNCHANGED <<dir, files, temps, manifest, lock, ownerVars>>
  PROVE  StoreInv'
<1>1. OwnerInv' /\ ContentInv'
  BY Zenon DEF StoreInv, OwnerInv, ContentInv, Complete, ExactDirectory, ownerVars
<1>2. /\ scan'[s].pc = pc /\ scan'[s].todo = todo /\ scan'[s].cur = cur
      /\ \A u \in Scanners : u # s => scan'[u] = scan[u]
      /\ scan' = [u \in Scanners |-> scan'[u]]
  BY DEF ScanTo, StoreInv, ScannerInv
<1>3. ScannerInv'
  BY <1>2 DEF StoreInv, ScannerInv, Complete, ExactDirectory
<1> QED
  BY <1>1, <1>3 DEF StoreInv

(* A scanner takes a lock nobody holds.                                    *)
LEMMA ScanLockKeepsInv ==
  ASSUME StoreInv, NEW s \in Scanners, NEW pc \in {"locked", "delete"}, NEW r \in Reports,
         pc = "delete" => dir[r] # "published", lock[r] = "free", lock' = [lock EXCEPT ![r] = s],
         ScanTo(s, pc, scan[s].todo, r),
         UNCHANGED <<dir, files, temps, manifest, ownerVars>>
  PROVE  StoreInv'
<1>1. \A q \in Reports : lock'[q] = IF q = r THEN s ELSE lock[q]
  BY DEF StoreInv, OwnerInv
<1>2. OwnerInv' /\ ContentInv'
  BY <1>1 DEF StoreInv, OwnerInv, ContentInv, Complete, ExactDirectory, ownerVars
<1>3. /\ scan'[s].pc = pc /\ scan'[s].todo = scan[s].todo /\ scan'[s].cur = r
      /\ \A u \in Scanners : u # s => scan'[u] = scan[u]
      /\ scan' = [u \in Scanners |-> scan'[u]]
  BY DEF ScanTo, StoreInv, ScannerInv
<1>4. \A u \in Scanners : u # "free"
  BY ScannersAssumption
<1>5. ScannerInv'
  BY <1>1, <1>3, <1>4 DEF StoreInv, ScannerInv, Complete, ExactDirectory
<1> QED
  BY <1>2, <1>5 DEF StoreInv

(* Every step of a scanner keeps the invariant.                            *)
LEMMA ScannerKeepsInv ==
  ASSUME StoreInv, NEW s \in Scanners, Scanner(s)
  PROVE  StoreInv'
<1> DEFINE cur == scan[s].cur
<1>range. /\ cur \in Reports /\ scan[s].todo \in SUBSET Reports /\ s \notin {"free", "owner"}
          /\ scan[s].todo \ {cur} \in SUBSET Reports
  BY ScannersAssumption DEF StoreInv, ScannerInv
<1>locked. \A r \in Reports : lock[r] = s => state[r] \notin Live
  BY <1>range DEF StoreInv, OwnerInv
<1>published. /\ \A r \in Reports : dir[r] = "published" => Complete(r)
              /\ dir \in [Reports -> Places]
  BY DEF StoreInv, OwnerInv, ContentInv
<1>1. CASE StartRecovery(s) \/ StartRetention(s) \/ RecoverEnd(s)
  BY <1>1, <1>range, ScanToKeepsInv DEF StartRecovery, StartRetention, RecoverEnd, diskVars
<1>2. ASSUME NEW r \in Reports, RecoverSkip(s, r) \/ RecoverOpen(s, r) \/ ScavengeStat(s, r) PROVE StoreInv'
  <2>1. scan[s].todo \ {r} \in SUBSET Reports
    BY <1>range
  <2> QED
    BY <1>2, <1>range, <2>1, ScanToKeepsInv DEF RecoverSkip, RecoverOpen, ScavengeStat, diskVars
<1>3. CASE RecoverLock(s)
  BY <1>3, <1>range, ScanLockKeepsInv, Zenon DEF RecoverLock
<1>11. CASE RecoverBusy(s)
  BY <1>11, <1>range, LeaveEntryKeepsInv, Zenon DEF RecoverBusy, NextEntry
<1>4. CASE RecoverValidate(s)
  <2>1. CASE dir[cur] = "staging" /\ Complete(cur)
    <3>1. lock[cur] = s
      BY <1>4 DEF RecoverValidate, StoreInv, ScannerInv
    <3>2. ScanTo(s, "republish", scan[s].todo, cur) /\ UNCHANGED <<dir, files, temps, manifest, lock, ownerVars>>
      BY <1>4, <2>1 DEF RecoverValidate, Complete
    <3> QED
      BY <1>range, <2>1, <3>1, <3>2, ScanToKeepsInv, Zenon
  <2>2. CASE ~(dir[cur] = "staging" /\ Complete(cur))
    <3>1. NextEntry(s, "recover") /\ UNCHANGED <<dir, files, temps, manifest, ownerVars>>
      BY <1>4, <2>2, Zenon DEF RecoverValidate, Complete
    <3> QED
      BY <1>range, <3>1, LeaveEntryKeepsInv, Zenon DEF NextEntry
  <2> QED
    BY <2>1, <2>2
<1>5. CASE RecoverPublish(s)
  <2>1. lock[cur] = s /\ Complete(cur)
    BY <1>5 DEF RecoverPublish, StoreInv, ScannerInv
  <2>2. /\ dir' = [dir EXCEPT ![cur] = "published"]
        /\ NextEntry(s, "recover") /\ UNCHANGED <<files, temps, manifest, ownerVars>>
    BY <1>5 DEF RecoverPublish
  <2> HIDE DEF cur
  <2>3. /\ dir' \in [Reports -> Places]
        /\ \A r \in Reports : dir'[r] = IF r = cur THEN "published" ELSE dir[r]
    BY <1>published, <2>2, Zenon DEF Places
  <2>4. /\ \A r \in Reports : lock[r] # s => dir'[r] = dir[r]
        /\ \A r \in Reports : dir'[r] = "published" => Complete(r)
    BY <1>published, <2>1, <2>3
  <2> USE DEF cur
  <2> QED
    BY <1>range, <2>2, <2>3, <2>4, NextEntryKeepsInv DEF NextEntry
<1>6. CASE RecoverFail(s)
  <2>1. CASE UNCHANGED dir
    BY <1>6, <2>1, <1>range, LeaveEntryKeepsInv DEF RecoverFail, NextEntry
  <2>2. ASSUME scan[s].pc = "republish", NEW where \in {"quarantined", "published"},
               dir' = [dir EXCEPT ![cur] = where]
        PROVE  StoreInv'
    <3>1. lock[cur] = s /\ Complete(cur)
      BY <2>2 DEF StoreInv, ScannerInv
    <3>2. NextEntry(s, "recover") /\ UNCHANGED <<files, temps, manifest, ownerVars>>
      BY <1>6 DEF RecoverFail
    <3> HIDE DEF cur
    <3>3. /\ dir' \in [Reports -> Places]
          /\ \A r \in Reports : dir'[r] = IF r = cur THEN where ELSE dir[r]
      BY <1>published, <2>2, Zenon DEF Places
    <3>4. /\ \A r \in Reports : lock[r] # s => dir'[r] = dir[r]
          /\ \A r \in Reports : dir'[r] = "published" => Complete(r)
      BY <1>published, <3>1, <3>3
    <3> USE DEF cur
    <3> QED
      BY <1>range, <3>2, <3>3, <3>4, NextEntryKeepsInv DEF NextEntry
  <2> QED
    BY <1>6, <2>1, <2>2, Zenon DEF RecoverFail, FailedRename
<1>12. CASE ScavengeOpen(s)
  BY <1>12, <1>range, ScanToKeepsInv DEF ScavengeOpen, diskVars
<1>7. CASE ScavengeLock(s)
  <2>1. CASE lock[cur] = "free" /\ dir[cur] = "staging"
    BY <1>7, <1>range, <2>1, ScanLockKeepsInv DEF ScavengeLock
  <2>2. CASE lock[cur] # "free"
    BY <1>7, <1>range, <2>2, LeaveEntryKeepsInv, Zenon DEF ScavengeLock, NextEntry
  <2>3. CASE lock[cur] = "free" /\ dir[cur] # "staging"
    BY <1>7, <1>range, <2>3, ScanToKeepsInv DEF ScavengeLock
  <2> QED
    BY <2>1, <2>2, <2>3
<1>8. CASE ScavengeFile(s)
  <2>1. lock[cur] = s /\ dir[cur] # "published" /\ scan[s].pc = "delete"
    BY <1>8, Zenon DEF ScavengeFile, StoreInv, ScannerInv
  <2>2. /\ files' \in [Reports -> SUBSET Names] /\ temps' \in [Reports -> SUBSET Temporaries]
        /\ manifest' \in [Reports -> (SUBSET Names) \cup {NoManifest}]
        /\ \A r \in Reports : r # cur =>
              files'[r] = files[r] /\ temps'[r] = temps[r] /\ manifest'[r] = manifest[r]
        /\ manifest'[cur] \in {NoManifest, manifest[cur]}
        /\ UNCHANGED <<dir, lock, ownerVars, scan>>
    <3> USE DEF StoreInv, ContentInv
    <3>0. UNCHANGED <<dir, lock, ownerVars, scan>>
      BY <1>8, Zenon DEF ScavengeFile
    <3>1. CASE (\E a \in files[cur] : files' = [files EXCEPT ![cur] = @ \ {a}]) /\ UNCHANGED <<temps, manifest>>
      BY <1>range, <3>0, <3>1
    <3>2. CASE (\E t \in temps[cur] : temps' = [temps EXCEPT ![cur] = @ \ {t}]) /\ UNCHANGED <<files, manifest>>
      BY <1>range, <3>0, <3>2
    <3>3. CASE manifest' = [manifest EXCEPT ![cur] = NoManifest] /\ UNCHANGED <<files, temps>>
      BY <1>range, <3>0, <3>3, Zenon
    <3> QED
      BY <1>8, <3>1, <3>2, <3>3, Zenon DEF ScavengeFile
  <2> HIDE DEF cur
  <2>3. OwnerInv'
    BY <2>2 DEF StoreInv, OwnerInv, ownerVars
  <2>4. ContentInv'
    <3>1. state[cur] \notin Live /\ commit[cur] # "manifest"
      BY <1>range, <1>locked, <2>1 DEF StoreInv, OwnerInv, Live
    <3> QED
      BY <1>range, <2>1, <2>2, <3>1 DEF StoreInv, ContentInv, Complete, ExactDirectory, ownerVars, Live
  <2>5. ScannerInv'
    <3>1. \A u \in Scanners : scan[u].pc = "republish" => scan[u].cur # cur
      BY <2>1 DEF StoreInv, ScannerInv, cur
    <3>2. ASSUME NEW u \in Scanners, scan[u].pc = "republish" PROVE Complete(scan[u].cur)'
      <4>1. scan[u].cur \in Reports /\ scan[u].cur # cur /\ Complete(scan[u].cur)
        BY <3>1, <3>2 DEF StoreInv, ScannerInv
      <4> QED
        BY <2>2, <4>1, Zenon DEF Complete, ExactDirectory
    <3> QED
      BY <2>2, <3>2 DEF StoreInv, ScannerInv
  <2> QED
    BY <2>3, <2>4, <2>5 DEF StoreInv
<1>9. CASE ScavengeDirectory(s)
  <2>1. lock[cur] = s
    BY <1>9 DEF ScavengeDirectory, StoreInv, ScannerInv
  <2>2. /\ dir' = [dir EXCEPT ![cur] = "absent"]
        /\ NextEntry(s, "scavenge") /\ UNCHANGED <<files, temps, manifest, ownerVars>>
    BY <1>9, Zenon DEF ScavengeDirectory
  <2> HIDE DEF cur
  <2>3. /\ dir' \in [Reports -> Places]
        /\ \A r \in Reports : dir'[r] = IF r = cur THEN "absent" ELSE dir[r]
    BY <1>published, <2>2, Zenon DEF Places
  <2>4. /\ \A r \in Reports : lock[r] # s => dir'[r] = dir[r]
        /\ \A r \in Reports : dir'[r] = "published" => Complete(r)
    BY <1>published, <2>1, <2>3
  <2> USE DEF cur
  <2> QED
    BY <1>range, <2>2, <2>3, <2>4, NextEntryKeepsInv, SMTT(30) DEF NextEntry
<1>10. CASE ScanEnd(s)
  <2>1. {} \in SUBSET Reports
    OBVIOUS
  <2> QED
    BY <1>10, <2>1, LeaveEntryKeepsInv, Zenon DEF ScanEnd
<1> QED
  BY <1>1, <1>2, <1>3, <1>4, <1>5, <1>6, <1>7, <1>8, <1>9, <1>10, <1>11, <1>12, Zenon DEF Scanner

(* A scanner changes nothing of a report its owner has locked.             *)
LEMMA ScannerSparesOwned ==
  ASSUME StoreInv, NEW s \in Scanners, Scanner(s), NEW r \in Reports, lock[r] = "owner"
  PROVE  dir'[r] = dir[r] /\ files'[r] = files[r] /\ temps'[r] = temps[r] /\ manifest'[r] = manifest[r]
<1> DEFINE cur == scan[s].cur
           Kept == dir'[r] = dir[r] /\ files'[r] = files[r] /\ temps'[r] = temps[r] /\ manifest'[r] = manifest[r]
<1>1. scan[s].pc \in {"locked", "republish", "delete"} => cur # r
  BY ScannersAssumption DEF StoreInv, ScannerInv
<1>types. /\ dir \in [Reports -> Places] /\ files \in [Reports -> SUBSET Names]
          /\ temps \in [Reports -> SUBSET Temporaries]
          /\ manifest \in [Reports -> (SUBSET Names) \cup {NoManifest}]
  BY DEF StoreInv, OwnerInv, ContentInv
<1> HIDE DEF cur
<1>2. CASE UNCHANGED <<dir, files, temps, manifest>>
  BY <1>2
<1>3. CASE RecoverPublish(s) \/ ScavengeDirectory(s)
  BY <1>1, <1>3, <1>types DEF RecoverPublish, ScavengeDirectory, cur
<1>4. CASE RecoverFail(s)
  BY <1>1, <1>4, <1>types DEF RecoverFail, FailedRename, cur
<1>5. CASE ScavengeFile(s)
  BY <1>1, <1>5, <1>types DEF ScavengeFile, cur
<1> QED
  BY <1>2, <1>3, <1>4, <1>5, Zenon DEF Scanner, StartRecovery, StartRetention, RecoverEnd, RecoverSkip, RecoverOpen,
     RecoverLock, RecoverBusy, RecoverValidate, ScavengeStat, ScavengeOpen, ScavengeLock, ScanEnd, diskVars

-----------------------------------------------------------------------------

(* Before the first transaction nothing is published, locked or scanned. *)
LEMMA StoreInitially == Init => StoreInv
<1> SUFFICES ASSUME Init PROVE StoreInv
  OBVIOUS
<1>1. OwnerInv
  BY DEF Init, OwnerInv, Live, Stages, Places
<1>2. ContentInv
  <2>1. \A r \in Reports : dir[r] = "absent" /\ state[r] = "New" /\ commit[r] = "idle" /\ op[r] = "none"
                         /\ manifest[r] = NoManifest
    BY DEF Init
  <2>2. /\ files \in [Reports -> SUBSET Names] /\ temps \in [Reports -> SUBSET Temporaries]
        /\ registry \in [Reports -> SUBSET Names] /\ op \in [Reports -> Names \cup {"none"}]
        /\ manifest \in [Reports -> (SUBSET Names) \cup {NoManifest}]
    BY DEF Init
  <2> QED
    BY <2>1, <2>2 DEF ContentInv
<1>3. ScannerInv
  BY ReportsAssumption DEF Init, ScannerInv
<1> QED
  BY <1>1, <1>2, <1>3 DEF StoreInv

(* Every step keeps the invariant.                                         *)
LEMMA StoreStep ==
  ASSUME StoreInv, [Next]_vars
  PROVE  StoreInv'
<1>1. ASSUME NEW r \in Reports, Transaction(r) PROVE StoreInv'
  BY <1>1, TransactionKeepsOwner, TransactionKeepsContent, TransactionKeepsScanners DEF StoreInv
<1>2. ASSUME NEW r \in Reports, Age(r) PROVE StoreInv'
  <2> USE <1>2 DEF Age, ownerVars, StoreInv
  <2>1. OwnerInv'  BY DEF OwnerInv
  <2>2. ContentInv'  BY Zenon DEF ContentInv, Complete, ExactDirectory
  <2>3. ScannerInv'  BY DEF ScannerInv, Complete, ExactDirectory
  <2> QED
    BY <2>1, <2>2, <2>3
<1>3. ASSUME NEW s \in Scanners, Scanner(s) PROVE StoreInv'
  BY <1>3, ScannerKeepsInv
<1>4. CASE UNCHANGED vars
  <2> USE <1>4 DEF vars, diskVars, ownerVars, StoreInv
  <2>1. OwnerInv'  BY DEF OwnerInv
  <2>2. ContentInv'  BY Zenon DEF ContentInv, Complete, ExactDirectory
  <2>3. ScannerInv'  BY Zenon DEF ScannerInv, Complete, ExactDirectory
  <2> QED  BY <2>1, <2>2, <2>3
<1> QED
  BY <1>1, <1>2, <1>3, <1>4 DEF Next

(* The invariant, for every set of reports, names and scanners.            *)
THEOREM StoreInvariance == Spec => []StoreInv
  BY StoreStep, StoreInitially, PTL DEF Spec

(* Whoever publishes a report, its transaction or a recovery, and wherever *)
(* a process crashes, a visible report is complete.                        *)
THEOREM PublishedComplete == Spec => []PublishedIsComplete
<1>1. StoreInv => PublishedIsComplete
  BY Zenon DEF StoreInv, ContentInv, Complete, PublishedIsComplete
<1> QED
  BY <1>1, StoreInvariance, PTL

(* No step of a recovery or scavenger pass changes anything of a report    *)
(* whose transaction is past begin and not committed, and a Prepared one   *)
(* keeps its directory, with exactly the files of its manifest.            *)
THEOREM LiveUntouched == Spec => LiveTransactionUntouched
<1> DEFINE Untouched ==
      \A r \in Reports :
          /\ state[r] = "Prepared" =>
                /\ dir[r] # "absent"
                /\ manifest[r] = registry[r] /\ ExactDirectory(r, registry[r])
          /\ (\E s \in Scanners : Scanner(s)) /\ state[r] \in {"Open", "Preparing", "Prepared"} =>
                /\ dir'[r] = dir[r] /\ files'[r] = files[r]
                /\ temps'[r] = temps[r] /\ manifest'[r] = manifest[r]
<1>1. ASSUME StoreInv PROVE Untouched
  <2> SUFFICES ASSUME NEW r \in Reports
               PROVE  Untouched!(r)
    OBVIOUS
  <2>1. state[r] \in {"Open", "Preparing", "Prepared"} => lock[r] = "owner"
    BY <1>1 DEF StoreInv, OwnerInv, Live
  <2>2. state[r] = "Prepared" =>
           dir[r] # "absent" /\ manifest[r] = registry[r] /\ ExactDirectory(r, registry[r])
    BY <1>1 DEF StoreInv, OwnerInv, ContentInv, ExactDirectory
  <2> QED
    BY <1>1, <2>1, <2>2, ScannerSparesOwned, Zenon
<1>2. StoreInv /\ [Next]_vars => [Untouched]_vars
  BY <1>1, Zenon
<1> QED
  BY <1>2, StoreInvariance, PTL DEF Spec, LiveTransactionUntouched

-----------------------------------------------------------------------------
(***************************************************************************)
(* Retention passes never hide a report whose finalization is alive, for   *)
(* every set of reports, legacy files and limits, and any number of passes.*)
(*                                                                         *)
(* A live transaction holds its own lock (OwnerInv, as above); a pass      *)
(* hides only an entry it has locked itself, and no other pass can give    *)
(* that lock back, because passes exclude each other with the retention    *)
(* lock (PassInv).                                                         *)
(***************************************************************************)

Fields == {"pc", "limit", "seen", "entries", "old"}

PassInv ==
    /\ pass = [c \in Reports |-> pass[c]]
    /\ \A c \in Reports :
          /\ DOMAIN pass[c] = Fields
          /\ pass[c].limit \in {"age", "count", "bytes"}
          /\ pass[c].pc \in {"sweep", "scan", "limit", "inspect", "delete"} => rlock = c
          /\ pass[c].pc \in {"inspect", "delete"} =>
                /\ Head(pass[c].entries) \in Reports
                /\ lock[Head(pass[c].entries)] = "retention"

LiveInv == OwnerInv /\ PassInv

(* A transaction neither takes nor gives back somebody else's lock.        *)
LEMMA TransactionKeepsOthersLock ==
  ASSUME NEW r \in Reports, NEW q \in Reports, OwnerInv, Transaction(r), lock[q] = "retention"
  PROVE  lock'[q] = "retention"
  BY Zenon DEF OwnerInv, diskVars, ownerVars, Transaction, CreateStaging, OpenStaging, LockStaging, FinishWrite,
         FailWrite, StartWrite, RemoveFile, UnregisterFile, BeginCommit, BuildManifest, PublishManifest,
         SyncPrepared, CheckPrepared, PublishReport, ReleaseLease, Drop, Crash, OwnerEnds

(* The steps around the passes.                                            *)
LEMMA OthersKeepLive ==
  ASSUME LiveInv, NEW r \in Reports,
         ReportAges \/ TransactionStep(r) \/ Recover(r) \/ (Age(r) /\ UNCHANGED retentionVars)
  PROVE  LiveInv'
<1> USE DEF LiveInv
<1>1. CASE ReportAges
  BY <1>1, Zenon DEF ReportAges, vars, diskVars, ownerVars, OwnerInv, PassInv
<1>2. CASE TransactionStep(r)
  <2>1. Transaction(r) /\ UNCHANGED <<rlock, pass>>
    BY <1>2 DEF TransactionStep
  <2>2. OwnerInv'
    BY <2>1, TransactionKeepsOwner
  <2>3. \A q \in Reports : lock[q] = "retention" => lock'[q] = "retention"
    BY <2>1, TransactionKeepsOthersLock
  <2>4. PassInv'
    BY <2>1, <2>3 DEF PassInv
  <2> QED
    BY <2>2, <2>4
<1>3. CASE Recover(r)
  <2>1. PICK where \in {"published", "quarantined"} : dir' = [dir EXCEPT ![r] = where]
    BY <1>3, Zenon DEF Recover
  <2>2. lock[r] = "free" /\ UNCHANGED <<lock, state, commit, rlock, pass>>
    BY <1>3, Zenon DEF Recover, ownerVars, retentionVars
  <2>3. OwnerInv'
    BY <2>1, <2>2 DEF OwnerInv, Live, Places
  <2> QED
    BY <2>2, <2>3, Zenon DEF PassInv
<1>4. CASE Age(r) /\ UNCHANGED retentionVars
  BY <1>4, Zenon DEF Age, ownerVars, retentionVars, OwnerInv, PassInv
<1> QED
  BY <1>1, <1>2, <1>3, <1>4

(* A pass that ends, or goes back to its limits, keeps the others' locks.  *)
LEMMA PassEndsKeepsPass ==
  ASSUME LiveInv, NEW c \in Reports, PassEnds(c),
         \A q \in Reports : lock[q] = "retention" /\ rlock # c => lock'[q] = "retention"
  PROVE  PassInv'
<1>1. /\ pass' = [pass EXCEPT ![c] = [pc |-> "returned", limit |-> "age", seen |-> {}, entries |-> <<>>, old |-> {}]]
      /\ rlock' = IF rlock = c THEN "free" ELSE rlock
  BY DEF PassEnds, Returned, NoPass
<1>2. /\ pass'[c] = [pc |-> "returned", limit |-> "age", seen |-> {}, entries |-> <<>>, old |-> {}]
      /\ \A d \in Reports : d # c => pass'[d] = pass[d]
      /\ pass' = [d \in Reports |-> pass'[d]]
  BY <1>1, Zenon DEF LiveInv, PassInv
<1>3. \A d \in Reports : d # c /\ pass[d].pc \in {"sweep", "scan", "limit", "inspect", "delete"} =>
         rlock = d /\ rlock' = d
  BY <1>1 DEF LiveInv, PassInv
<1> QED
  BY <1>2, <1>3 DEF LiveInv, PassInv, Fields

(* What a step of pass c has to respect.                                   *)
PassStep(c) ==
    /\ pass' = [d \in Reports |-> pass'[d]]
    /\ \A d \in Reports : d # c => pass'[d] = pass[d]
    /\ DOMAIN pass'[c] = Fields /\ pass'[c].limit \in {"age", "count", "bytes"}
    /\ pass'[c].pc \in {"sweep", "scan", "limit", "inspect", "delete"} => rlock' = c
    /\ pass'[c].pc \in {"inspect", "delete"} =>
          /\ Head(pass'[c].entries) \in Reports
          /\ lock'[Head(pass'[c].entries)] = "retention"

(* A step of a pass keeps the other passes' locks.                         *)
LEMMA PassStepKeepsPass ==
  ASSUME LiveInv, NEW c \in Reports, PassStep(c),
         rlock' = rlock \/ (rlock = "free" /\ rlock' = c),
         \A q \in Reports : lock[q] = "retention" /\ rlock # c => lock'[q] = "retention"
  PROVE  PassInv'
<1>0. "free" \notin Reports
  BY RetentionAssumption
<1>1. \A d \in Reports : d # c /\ pass[d].pc \in {"sweep", "scan", "limit", "inspect", "delete"} =>
         rlock = d /\ rlock' = d
  BY <1>0 DEF LiveInv, PassInv
<1> QED
  BY <1>1 DEF LiveInv, PassInv, PassStep

(* The end of a limit leaves the pass at its limits or ends it.            *)
LEMMA EndLimitKeepsPass ==
  ASSUME LiveInv, NEW c \in Reports, EndLimit(c), rlock = c,
         \A q \in Reports : lock[q] = "retention" /\ rlock # c => lock'[q] = "retention"
  PROVE  PassInv'
<1>1. CASE PassEnds(c)
  BY <1>1, PassEndsKeepsPass
<1>2. ASSUME NEW limit \in {"count", "bytes"},
             pass' = [pass EXCEPT ![c].pc = "limit", ![c].limit = limit], rlock' = rlock
      PROVE  PassInv'
  <2>1. PassStep(c)
    BY <1>2, Zenon DEF PassStep, LiveInv, PassInv, Fields
  <2> QED
    BY <1>2, <2>1, PassStepKeepsPass
<1>3. pass[c].limit \in {"age", "count", "bytes"}
  BY DEF LiveInv, PassInv
<1> QED
  BY <1>1, <1>2, <1>3, Zenon DEF EndLimit

(* The steps of a pass that change no report and no report's lock.         *)
LEMMA QuietPassKeepsLive ==
  ASSUME LiveInv, NEW c \in Reports,
         \/ StartPass(c) \/ ScavengeEnds(c) \/ AcquireRetentionLock(c) \/ ReturnEarly(c)
         \/ SweepTombstone(c) \/ StartScan(c) \/ FinishScan(c) \/ LimitEnds(c)
         \/ RemoveLegacy(c) \/ DeleteFile(c) \/ PersistFinalDiagnostics(c)
  PROVE  LiveInv'
<1>0. UNCHANGED vars
  BY Zenon DEF StartPass, ScavengeEnds, AcquireRetentionLock, ReturnEarly, SweepTombstone, StartScan, FinishScan,
         LimitEnds, RemoveLegacy, DeleteFile, PersistFinalDiagnostics
<1>1. OwnerInv' /\ lock' = lock
  BY <1>0, Zenon DEF LiveInv, OwnerInv, vars, diskVars, ownerVars
<1>2. CASE StartPass(c) \/ ScavengeEnds(c)
  <2>1. PassStep(c) /\ rlock' = rlock
    BY <1>2 DEF StartPass, ScavengeEnds, Goto, PassStep, LiveInv, PassInv, Fields
  <2> QED
    BY <1>1, <2>1, PassStepKeepsPass DEF LiveInv
<1>3. CASE AcquireRetentionLock(c)
  <2>1. PassStep(c) /\ rlock = "free" /\ rlock' = c
    BY <1>3 DEF AcquireRetentionLock, Goto, PassStep, LiveInv, PassInv, Fields
  <2> QED
    BY <1>1, <2>1, PassStepKeepsPass DEF LiveInv
<1>4. CASE ReturnEarly(c)
  BY <1>1, <1>4, PassEndsKeepsPass, Zenon DEF ReturnEarly, LiveInv
<1>5. CASE SweepTombstone(c) \/ DeleteFile(c) \/ PersistFinalDiagnostics(c)
  BY <1>1, <1>5, Zenon DEF SweepTombstone, DeleteFile, PersistFinalDiagnostics, LiveInv, PassInv
<1>6. CASE StartScan(c)
  <2>1. PassStep(c) /\ rlock' = rlock
    BY <1>6, Zenon DEF StartScan, PassStep, LiveInv, PassInv, Fields
  <2> QED
    BY <1>1, <2>1, PassStepKeepsPass DEF LiveInv
<1>7. CASE FinishScan(c)
  <2>1. PICK entries, old :
           pass' = [pass EXCEPT ![c] = [pc |-> "limit", limit |-> "age", seen |-> {}, entries |-> entries, old |-> old]]
    BY <1>7, Zenon DEF FinishScan
  <2>2. PassStep(c) /\ rlock' = rlock
    BY <1>7, <2>1, Zenon DEF FinishScan, PassStep, LiveInv, PassInv, Fields
  <2> QED
    BY <1>1, <2>2, PassStepKeepsPass DEF LiveInv
<1>8. CASE LimitEnds(c)
  <2>1. rlock = c
    BY <1>8 DEF LimitEnds, LiveInv, PassInv
  <2> QED
    BY <1>1, <1>8, <2>1, EndLimitKeepsPass, Zenon DEF LimitEnds, LiveInv
<1>9. CASE RemoveLegacy(c)
  <2>1. PassStep(c) /\ rlock' = rlock
    BY <1>9, Zenon DEF RemoveLegacy, Candidate, PassStep, LiveInv, PassInv, Fields
  <2> QED
    BY <1>1, <2>1, PassStepKeepsPass DEF LiveInv
<1> QED
  BY <1>2, <1>3, <1>4, <1>5, <1>6, <1>7, <1>8, <1>9

(* The steps that do: scavenging, removing a report, and dying.            *)
LEMMA RemovingPassKeepsLive ==
  ASSUME LiveInv, NEW c \in Reports,
         \/ ScavengePending(c) \/ LockEntry(c) \/ HideEntry(c) \/ HideFails(c)
         \/ DeleteEnds(c) \/ CrashInPass(c)
  PROVE  LiveInv'
<1>1. CASE ScavengePending(c)
  <2>1. PICK r \in Reports : lock[r] = "free" /\ dir' = [dir EXCEPT ![r] = "absent"]
    BY <1>1, Zenon DEF ScavengePending, EmptyDirectory
  <2>2. UNCHANGED <<lock, state, commit, rlock, pass>>
    BY <1>1, Zenon DEF ScavengePending, ownerVars
  <2> QED
    BY <2>1, <2>2, Zenon DEF LiveInv, OwnerInv, PassInv, Live, Places
<1>2. CASE LockEntry(c)
  <2> DEFINE e == Head(pass[c].entries)
  <2>1. /\ e \in Reports /\ lock[e] = "free" /\ lock' = [lock EXCEPT ![e] = "retention"]
        /\ pass[c].pc = "limit" /\ pass' = [pass EXCEPT ![c].pc = "inspect"]
        /\ UNCHANGED <<dir, state, commit, rlock>>
    BY <1>2 DEF LockEntry, Candidate, ownerVars
  <2>2. OwnerInv'
    BY <2>1, Zenon DEF LiveInv, OwnerInv, Live
  <2>3. lock'[e] = "retention" /\ \A q \in Reports : lock[q] = "retention" => lock'[q] = "retention"
    BY <2>1 DEF LiveInv, OwnerInv
  <2>4. PassStep(c)
    BY <2>1, <2>3, Zenon DEF PassStep, LiveInv, PassInv, Fields
  <2> QED
    BY <2>1, <2>2, <2>3, <2>4, PassStepKeepsPass DEF LiveInv
<1>3. CASE HideEntry(c)
  <2> DEFINE e == Head(pass[c].entries)
  <2>1. /\ dir' = [dir EXCEPT ![e] = "absent"]
        /\ pass[c].pc = "inspect" /\ pass' = [pass EXCEPT ![c].pc = "delete"]
        /\ UNCHANGED <<lock, state, commit, rlock>>
    BY <1>3, Zenon DEF HideEntry, Hide, EmptyDirectory, ownerVars
  <2>2. e \in Reports /\ lock[e] = "retention"
    BY <2>1 DEF LiveInv, PassInv
  <2>3. OwnerInv'
    BY <2>1, <2>2 DEF LiveInv, OwnerInv, Live, Places
  <2>4. PassStep(c)
    BY <2>1, <2>2, Zenon DEF PassStep, LiveInv, PassInv, Fields
  <2> QED
    BY <2>1, <2>3, <2>4, PassStepKeepsPass DEF LiveInv
<1>4. CASE HideFails(c)
  <2> DEFINE e == Head(pass[c].entries)
  <2>1. /\ rlock = c /\ lock' = Unlocked /\ EndLimit(c)
        /\ e \in Reports /\ lock[e] = "retention"
        /\ UNCHANGED <<state, commit>>
    BY <1>4 DEF HideFails, ownerVars, LiveInv, PassInv
  <2>3. PICK where \in Places : dir' = [dir EXCEPT ![e] = where]
    <3>1. CASE UNCHANGED dir
      BY <2>1, <3>1 DEF LiveInv, OwnerInv
    <3>2. CASE dir' = [dir EXCEPT ![e] = "quarantined"] \/ dir' = [dir EXCEPT ![e] = "absent"]
      BY <3>2 DEF Places
    <3> QED
      BY <1>4, <3>1, <3>2, Zenon DEF HideFails, Hide, EmptyDirectory
  <2>2. OwnerInv'
    <3> HIDE DEF e
    <3>1. \A r \in Reports : state[r] \in Live => r # e /\ lock'[r] = "owner"
      BY <2>1 DEF Unlocked, LiveInv, OwnerInv
    <3>2. dir' \in [Reports -> Places] /\ \A r \in Reports : r # e => dir'[r] = dir[r]
      BY <2>1, <2>3 DEF LiveInv, OwnerInv
    <3>3. lock' = [r \in Reports |-> lock'[r]]
      BY <2>1 DEF Unlocked
    <3> QED
      BY <2>1, <3>1, <3>2, <3>3 DEF LiveInv, OwnerInv, Live
  <2> QED
    BY <2>1, <2>2, EndLimitKeepsPass, Zenon DEF LiveInv
<1>5. CASE DeleteEnds(c)
  <2>1. /\ rlock = c /\ lock' = Unlocked /\ pass' = [pass EXCEPT ![c].pc = "limit", ![c].entries = Tail(@)]
        /\ UNCHANGED <<dir, state, commit, rlock>>
    BY <1>5, Zenon DEF DeleteEnds, ownerVars, LiveInv, PassInv
  <2>2. OwnerInv'
    BY <2>1 DEF Unlocked, LiveInv, OwnerInv, Live
  <2>3. PassStep(c)
    BY <2>1 DEF PassStep, LiveInv, PassInv, Fields
  <2> QED
    BY <2>1, <2>2, <2>3, PassStepKeepsPass DEF LiveInv
<1>6. CASE CrashInPass(c)
  <2>1. /\ state' = [state EXCEPT ![c] = "Gone"] /\ commit' = [commit EXCEPT ![c] = "idle"]
        /\ lock' = [r \in Reports |-> IF (r = c /\ lock[r] = "owner") \/ (rlock = c /\ lock[r] = "retention")
                                      THEN "free" ELSE lock[r]]
        /\ PassEnds(c) /\ UNCHANGED dir
    BY <1>6, Zenon DEF CrashInPass
  <2>2. OwnerInv'
    BY <2>1, Zenon DEF LiveInv, OwnerInv, Live, Stages
  <2>3. \A q \in Reports : lock[q] = "retention" /\ rlock # c => lock'[q] = "retention"
    BY <2>1
  <2> QED
    BY <2>1, <2>2, <2>3, PassEndsKeepsPass DEF LiveInv
<1> QED
  BY <1>1, <1>2, <1>3, <1>4, <1>5, <1>6

-----------------------------------------------------------------------------

(* A root as earlier sessions left it has no live transaction and no     *)
(* pass.                                                               *)
LEMMA LiveInitially == RetentionInit => LiveInv
<1> SUFFICES ASSUME RetentionInit PROVE LiveInv
  OBVIOUS
<1>1. OwnerInv
  BY DEF RetentionInit, OwnerInv, Live, Stages, Places
<1>2. PassInv
  BY Zenon DEF RetentionInit, PassInv, NoPass, Fields
<1> QED
  BY <1>1, <1>2 DEF LiveInv

(* Whatever passes of this and of other processes do, and wherever they    *)
(* crash, a committed report stays published while its finalization lives. *)
THEOREM LiveReportsKept == RetentionSpec => []LiveReportKept
<1>1. ASSUME LiveInv, [RetentionNext]_allVars PROVE LiveInv'
  <2>1. CASE ReportAges
    BY <1>1, <2>1, ReportsAssumption, OthersKeepLive
  <2>2. ASSUME NEW r \in Reports, TransactionStep(r) \/ Recover(r) \/ (Age(r) /\ UNCHANGED retentionVars)
        PROVE  LiveInv'
    BY <1>1, <2>2, OthersKeepLive
  <2>3. ASSUME NEW c \in Reports, Pass(c) PROVE LiveInv'
    BY <1>1, <2>3, QuietPassKeepsLive, RemovingPassKeepsLive DEF Pass
  <2>4. CASE UNCHANGED allVars
    BY <1>1, <2>4, Zenon DEF allVars, vars, diskVars, ownerVars, retentionVars, LiveInv, OwnerInv, PassInv
  <2> QED
    BY <1>1, <2>1, <2>2, <2>3, <2>4 DEF RetentionNext
<1>2. LiveInv => LiveReportKept
  BY DEF LiveInv, OwnerInv, LiveReportKept
<1> QED
  BY <1>1, <1>2, LiveInitially, PTL DEF RetentionSpec

-----------------------------------------------------------------------------
(***************************************************************************)
(* A published entry is the validated one or is withdrawn, for any set of  *)
(* callers.                                                                *)
(*                                                                         *)
(* The property is not inductive.  FolderHeld says that the directory a    *)
(* caller opened stays the one under its name, which holds because nobody  *)
(* removes it and only its absence makes a caller create one.              *)
(* DestinationOwned says whose the destination is: a caller may rename or  *)
(* unlink whatever is there only because it is there alone between its own *)
(* rename and its own withdrawal.                                          *)
(***************************************************************************)

\* Where a caller has opened the directory, prepares its entry, has placed it,
\* and has found it to be the validated one.
Opened == {"validate", "parents"}
Preparing == {"source", "compare", "rename"}
Placed == {"verify", "recheck", "repair", "restore", "contain", "unlink", "stuck", "ok"}
Confirmed == {"recheck", "repair", "restore", "ok"}
PathSteps == {"open", "mkdir", "prepare", "reopen", "failed"} \cup Opened
               \cup Preparing \cup Placed

\* A caller's source name denotes an object of its own, or nothing.
EntriesTyped ==
  /\ source \in [Callers -> Objects \cup {NoObject}]
  /\ handle \in [Callers -> Objects \cup {NoObject}]
  /\ held \in [Callers -> Nat]
  /\ pathAt \in [Callers -> PathSteps]
  /\ folder \in [gen : Nat, mode : Modes]
  /\ fresh \in Nat \ {0}
  /\ \A p \in Callers : source[p] \in ObjectsOf(p) \cup {NoObject}

\* A caller holds the directory under the name, private once it opened the
\* parents.
FolderHeld ==
  \A p \in Callers :
    /\ pathAt[p] \in Opened \cup Preparing \cup Placed => folder.gen # 0 /\ held[p] = folder.gen
    /\ pathAt[p] \in Preparing \cup Placed => folder.mode = "private"

\* The destination is an object of p exactly while p is between its rename and
\* its withdrawal; after the comparison it is the validated one.
DestinationOwned ==
  \A p \in Callers :
    /\ pathAt[p] \in Placed <=> destination \in ObjectsOf(p)
    /\ pathAt[p] \in Confirmed => destination = handle[p]

PathInv == EntriesTyped /\ FolderHeld /\ DestinationOwned

LEMMA OwnersDiffer ==
  /\ \A p \in Callers : NoObject \notin ObjectsOf(p)
  /\ \A p, q \in Callers : p # q => ObjectsOf(p) \cap ObjectsOf(q) = {}
  /\ \A p \in Callers : ObjectsOf(p) \subseteq Objects
<1>1. \A p \in Callers : NoObject \notin ObjectsOf(p)
  BY CallersAssumption DEF NoObject, ObjectsOf, Own, Stray
<1>2. \A p, q \in Callers : p # q => ObjectsOf(p) \cap ObjectsOf(q) = {}
  BY DEF ObjectsOf, Own, Stray
<1> QED
  BY <1>1, <1>2 DEF Objects

LEMMA PathInitInv == PathInit => PathInv
<1> SUFFICES ASSUME PathInit PROVE PathInv
  OBVIOUS
<1>1. EntriesTyped
  BY OwnersDiffer DEF PathInit, EntriesTyped, PathSteps, ObjectsOf, Modes
<1>2. FolderHeld
  BY Zenon DEF PathInit, FolderHeld, Opened, Preparing, Placed
<1>3. DestinationOwned
  BY OwnersDiffer, Zenon DEF PathInit, DestinationOwned, Placed, Confirmed
<1> QED
  BY <1>1, <1>2, <1>3 DEF PathInv

(* PathGoto moves one caller.                                              *)
LEMMA GotoMoves ==
  ASSUME NEW p \in Callers, NEW from, NEW to \in PathSteps, PathInv, PathGoto(p, from, to)
  PROVE  /\ pathAt[p] = from
         /\ pathAt' \in [Callers -> PathSteps]
         /\ pathAt'[p] = to
         /\ \A q \in Callers : q # p => pathAt'[q] = pathAt[q]
  BY DEF PathGoto, PathInv, EntriesTyped

(* ensure_private_directory touches no entry.                              *)
LEMMA EnsureKeepsPaths ==
  ASSUME NEW p \in Callers, PathInv, EnsurePrivateDirectory(p)
  PROVE  PathInv'
<1> DEFINE Early == {"open", "mkdir", "prepare", "reopen", "validate", "parents", "failed"}
<1>0. Early \subseteq PathSteps /\ Early \cap Placed = {} /\ Confirmed \subseteq Placed
  BY DEF PathSteps, Opened, Placed, Confirmed
<1>1. UNCHANGED entryVars /\ \E from, to \in Early : PathGoto(p, from, to)
  BY Zenon DEF EnsurePrivateDirectory, OpenDirectory, CreateOrJoin, PrepareEntry,
         ReopenDirectory, ValidateDirectory, EnsureFails
<1>2. PICK from \in Early, to \in Early : PathGoto(p, from, to)
  BY <1>1
<1> HIDE DEF Early
<1>3. /\ pathAt[p] = from
      /\ pathAt' \in [Callers -> PathSteps]
      /\ pathAt'[p] = to
      /\ \A q \in Callers : q # p => pathAt'[q] = pathAt[q]
  BY <1>0, <1>2, GotoMoves
<1>4. DestinationOwned'
  BY <1>0, <1>1, <1>2, <1>3, Zenon DEF DestinationOwned, PathInv, entryVars
<1>5. /\ folder' \in [gen : Nat, mode : Modes]
      /\ fresh' \in Nat \ {0}
      /\ held' \in [Callers -> Nat]
      /\ folder.gen # 0 => folder'.gen = folder.gen /\ folder'.mode \in {folder.mode, "private"}
      /\ \A q \in Callers : q # p => held'[q] = held[q]
      /\ pathAt'[p] \in Opened => folder'.gen # 0 /\ held'[p] = folder'.gen
  <2>1. CASE OpenDirectory(p)
    BY <2>1, <1>3, Zenon DEF OpenDirectory, PathInv, EntriesTyped, PathGoto, Opened
  <2>2. CASE CreateOrJoin(p)
    BY <2>2, <1>3 DEF CreateOrJoin, PathInv, EntriesTyped, PathGoto, Opened, Modes
  <2>3. CASE PrepareEntry(p)
    BY <2>3, <1>3 DEF PrepareEntry, PathInv, EntriesTyped, PathGoto, Opened, Modes
  <2>4. CASE ReopenDirectory(p)
    BY <2>4, <1>3, Zenon DEF ReopenDirectory, PathInv, EntriesTyped, PathGoto, Opened
  <2>5. CASE ValidateDirectory(p)
    BY <2>5, <1>3 DEF ValidateDirectory, PathInv, EntriesTyped, FolderHeld, PathGoto, Opened, Modes
  <2>6. CASE EnsureFails(p)
    BY <2>6, <1>3, Zenon DEF EnsureFails, PathInv, EntriesTyped, PathGoto, Opened, folderVars
  <2> QED
    BY <2>1, <2>2, <2>3, <2>4, <2>5, <2>6, Zenon DEF EnsurePrivateDirectory
<1>6. EntriesTyped'
  BY <1>1, <1>3, <1>5, Zenon DEF EntriesTyped, PathInv, entryVars
<1>7. to \notin Preparing \cup Placed
  BY <1>0 DEF Early, Preparing, Placed
<1>8. FolderHeld'
  <2> SUFFICES ASSUME NEW q \in Callers
               PROVE  /\ pathAt'[q] \in Opened \cup Preparing \cup Placed
                           => folder'.gen # 0 /\ held'[q] = folder'.gen
                      /\ pathAt'[q] \in Preparing \cup Placed => folder'.mode = "private"
    BY Zenon DEF FolderHeld
  <2>1. CASE q = p
    BY <2>1, <1>3, <1>5, <1>7, Zenon
  <2>2. CASE q # p
    BY <2>2, <1>3, <1>5, Zenon DEF FolderHeld, PathInv
  <2> QED
    BY <2>1, <2>2, Zenon
<1> QED
  BY <1>4, <1>6, <1>8 DEF PathInv

\* What a step of publish_private_path does: it keeps the directory and the
\* other callers' objects, and changes whose the destination is only where the
\* caller's own position says so.
PublishStep(p, from, to) ==
  /\ UNCHANGED folderVars
  /\ from \in {"parents"} \cup Preparing \cup Placed
  /\ to \in {"failed"} \cup Preparing \cup Placed
  /\ PathGoto(p, from, to)
  /\ folder.mode = "private" \/ to = "failed"
  /\ source' \in [Callers -> Objects \cup {NoObject}]
  /\ handle' \in [Callers -> Objects \cup {NoObject}]
  /\ \A q \in Callers : source'[q] \in ObjectsOf(q) \cup {NoObject}
  /\ \A q \in Callers : q # p => handle'[q] = handle[q]
  /\ to \in Placed <=> destination' \in ObjectsOf(p)
  /\ to \in Confirmed => destination' = handle'[p]
  /\ \/ destination' = destination
     \/ destination' \in ObjectsOf(p) /\ destination = NoObject
     \/ destination' = NoObject /\ from \in Placed

LEMMA PublishStepKeepsPaths ==
  ASSUME NEW p \in Callers, NEW from, NEW to, PathInv, PublishStep(p, from, to)
  PROVE  PathInv'
<1> USE DEF PublishStep
<1>0. to \in PathSteps /\ Confirmed \subseteq Placed
  BY DEF PathSteps, Placed, Confirmed, Preparing
<1>1. /\ pathAt[p] = from
      /\ pathAt' \in [Callers -> PathSteps]
      /\ pathAt'[p] = to
      /\ \A q \in Callers : q # p => pathAt'[q] = pathAt[q]
  BY <1>0, GotoMoves, Zenon
<1>a. "failed" \notin Opened \cup Preparing \cup Placed
  BY DEF Opened, Preparing, Placed
<1>2. EntriesTyped'
  BY <1>1, Zenon DEF EntriesTyped, PathInv, folderVars
<1>3. from \in Opened \cup Preparing \cup Placed
  BY DEF Opened
<1>4. FolderHeld'
  <2> SUFFICES ASSUME NEW q \in Callers
               PROVE  /\ pathAt'[q] \in Opened \cup Preparing \cup Placed
                           => folder'.gen # 0 /\ held'[q] = folder'.gen
                      /\ pathAt'[q] \in Preparing \cup Placed => folder'.mode = "private"
    BY Zenon DEF FolderHeld
  <2>1. CASE q = p
    BY <2>1, <1>1, <1>a, <1>3, Zenon DEF FolderHeld, PathInv, folderVars
  <2>2. CASE q # p
    BY <2>2, <1>1, Zenon DEF FolderHeld, PathInv, folderVars
  <2> QED
    BY <2>1, <2>2, Zenon
<1>5. DestinationOwned'
  <2> SUFFICES ASSUME NEW q \in Callers
               PROVE  /\ pathAt'[q] \in Placed <=> destination' \in ObjectsOf(q)
                      /\ pathAt'[q] \in Confirmed => destination' = handle'[q]
    BY Zenon DEF DestinationOwned
  <2>1. CASE q = p
    BY <2>1, <1>1, Zenon
  <2>2. CASE q # p
    <3>1. /\ pathAt[q] \in Placed <=> destination \in ObjectsOf(q)
          /\ pathAt[p] \in Placed <=> destination \in ObjectsOf(p)
          /\ pathAt[q] \in Confirmed => destination = handle[q]
      BY Zenon DEF DestinationOwned, PathInv
    <3>2. /\ ObjectsOf(p) \cap ObjectsOf(q) = {}
          /\ NoObject \notin ObjectsOf(q)
      BY <2>2, OwnersDiffer, Zenon
    <3>3. pathAt'[q] = pathAt[q] /\ handle'[q] = handle[q]
      BY <2>2, <1>1, Zenon
    <3> QED
      BY <1>0, <1>1, <3>1, <3>2, <3>3, Zenon
  <2> QED
    BY <2>1, <2>2, Zenon
<1> QED
  BY <1>2, <1>4, <1>5 DEF PathInv

LEMMA PublishKeepsPaths ==
  ASSUME NEW p \in Callers, PathInv, PublishPrivatePath(p)
  PROVE  PathInv'
<1>0. /\ source \in [Callers -> Objects \cup {NoObject}]
      /\ handle \in [Callers -> Objects \cup {NoObject}]
      /\ \A q \in Callers : source[q] \in ObjectsOf(q) \cup {NoObject}
      /\ pathAt[p] \in Placed <=> destination \in ObjectsOf(p)
      /\ pathAt[p] \in Confirmed => destination = handle[p]
      /\ pathAt[p] \in Preparing \cup Placed => folder.mode = "private"
      /\ NoObject \notin ObjectsOf(p)
      /\ ObjectsOf(p) \subseteq Objects
  BY OwnersDiffer, Zenon DEF PathInv, EntriesTyped, DestinationOwned, FolderHeld
<1> USE DEF Preparing, Placed, Confirmed
<1> SUFFICES \E from, to : PublishStep(p, from, to)
  BY PublishStepKeepsPaths, Zenon
<1>1. CASE OpenParents(p)
  <2>1. PublishStep(p, "parents", "source")
    BY <1>0, <1>1, Zenon DEF OpenParents, PathGoto, PublishStep, entryVars
  <2> QED
    BY <2>1, Zenon
<1>2. CASE OpenSource(p)
  <2>1. PublishStep(p, "source", "compare")
    BY <1>0, <1>2, Zenon DEF OpenSource, PathGoto, PublishStep
  <2> QED
    BY <2>1, Zenon
<1>3. CASE ValidateSource(p)
  <2>1. PublishStep(p, "compare", "rename")
    BY <1>0, <1>3, Zenon DEF ValidateSource, PathGoto, PublishStep, entryVars
  <2> QED
    BY <2>1, Zenon
<1>4. CASE PublishPrivatePathAt(p)
  <2>1. PublishStep(p, "rename", "verify")
    BY <1>0, <1>4, Zenon DEF PublishPrivatePathAt, PathGoto, PublishStep
  <2> QED
    BY <2>1, Zenon
<1>5. CASE PublishFails(p)
  <2>1. \/ PublishStep(p, "parents", "failed")
        \/ PublishStep(p, "source", "failed")
        \/ PublishStep(p, "compare", "failed")
        \/ PublishStep(p, "rename", "failed")
    BY <1>0, <1>5, Zenon DEF PublishFails, PathGoto, PublishStep, entryVars
  <2> QED
    BY <2>1, Zenon
<1>6. CASE VerifyPublished(p)
  <2>1. \/ PublishStep(p, "verify", "recheck")
        \/ PublishStep(p, "verify", "contain")
    BY <1>0, <1>6, Zenon DEF VerifyPublished, PathGoto, PublishStep, entryVars
  <2> QED
    BY <2>1, Zenon
<1>7. CASE RecheckMode(p)
  <2>1. \/ PublishStep(p, "recheck", "ok")
        \/ PublishStep(p, "recheck", "repair")
    BY <1>0, <1>7, Zenon DEF RecheckMode, PathGoto, PublishStep, entryVars
  <2> QED
    BY <2>1, Zenon
<1>8. CASE RepairMode(p)
  <2>1. \/ PublishStep(p, "repair", "restore")
        \/ PublishStep(p, "repair", "contain")
    BY <1>0, <1>8, Zenon DEF RepairMode, PathGoto, PublishStep
  <2> QED
    BY <2>1, Zenon
<1>9. CASE RestoreSource(p)
  <2>1. \/ PublishStep(p, "restore", "failed")
        \/ PublishStep(p, "restore", "contain")
    BY <1>0, <1>9, Zenon DEF RestoreSource, PathGoto, PublishStep
  <2> QED
    BY <2>1, Zenon
<1>10. CASE QuarantineEntry(p)
  <2>1. \/ PublishStep(p, "contain", "failed")
        \/ PublishStep(p, "contain", "unlink")
    BY <1>0, <1>10, Zenon DEF QuarantineEntry, PathGoto, PublishStep
  <2> QED
    BY <2>1, Zenon
<1>11. CASE UnlinkEntry(p)
  <2>1. \/ PublishStep(p, "unlink", "failed")
        \/ PublishStep(p, "unlink", "stuck")
    BY <1>0, <1>11, Zenon DEF UnlinkEntry, PathGoto, PublishStep
  <2> QED
    BY <2>1, Zenon
<1> QED
  BY <1>1, <1>2, <1>3, <1>4, <1>5, <1>6, <1>7, <1>8, <1>9, <1>10, <1>11, Zenon DEF PublishPrivatePath

(* What other programs do to the source name or to a mode.                 *)
LEMMA OthersKeepPaths ==
  ASSUME PathInv,
         \/ \E p \in Callers : SourceReplaced(p)
         \/ \E o \in Objects : ModeDrifts(o)
  PROVE  PathInv'
<1>1. ASSUME NEW p \in Callers, SourceReplaced(p)
      PROVE  PathInv'
  <2>1. Stray(p) \in ObjectsOf(p) /\ Stray(p) \in Objects
    BY DEF ObjectsOf, Objects
  <2>2. /\ source' \in [Callers -> Objects \cup {NoObject}]
        /\ \A q \in Callers : source'[q] \in ObjectsOf(q) \cup {NoObject}
    BY <1>1, <2>1, Zenon DEF SourceReplaced, PathInv, EntriesTyped
  <2>3. UNCHANGED <<folderVars, destination, handle, pathAt>>
    BY <1>1, Zenon DEF SourceReplaced
  <2> QED
    BY <2>2, <2>3, Zenon DEF PathInv, EntriesTyped, FolderHeld, DestinationOwned, folderVars
<1>2. ASSUME NEW o \in Objects, ModeDrifts(o)
      PROVE  PathInv'
  BY <1>2, Zenon DEF ModeDrifts, PathInv, EntriesTyped, FolderHeld, DestinationOwned, folderVars
<1> QED
  BY <1>1, <1>2, Zenon

-----------------------------------------------------------------------------

(* The inductive invariant of ensure_private_directory and                 *)
(* publish_private_path holds for any set of callers.                      *)
THEOREM PathInvariance == PathSpec => []PathInv
<1>1. ASSUME PathInv, [PathNext]_pathVars
      PROVE  PathInv'
  <2>1. CASE PathNext
    BY <1>1, <2>1, EnsureKeepsPaths, PublishKeepsPaths, OthersKeepPaths, Zenon DEF PathNext
  <2>2. CASE UNCHANGED pathVars
    BY <1>1, <2>2, Zenon DEF pathVars, PathInv, EntriesTyped, FolderHeld, DestinationOwned
  <2> QED
    BY <1>1, <2>1, <2>2, Zenon
<1> QED
  BY PathInitInv, <1>1, PTL DEF PathSpec

(* publish_private_path, for any set of callers: one that returns Ok has   *)
(* what it validated under the destination name, in the private directory  *)
(* it ensured; one that fails has withdrawn its entry, unless both         *)
(* containment calls failed.                                               *)
THEOREM PublishedOrWithdrawn == PathSpec => []PublishIsAllOrNothing
<1>1. ASSUME PathInv
      PROVE  PublishIsAllOrNothing
  <2> SUFFICES ASSUME NEW p \in Callers
               PROVE  /\ pathAt[p] = "ok" =>
                           /\ destination = handle[p]
                           /\ folder = [gen |-> held[p], mode |-> "private"]
                      /\ pathAt[p] = "failed" => destination \notin ObjectsOf(p)
    BY Zenon DEF PublishIsAllOrNothing
  <2>1. "ok" \in Confirmed /\ "ok" \in Placed /\ "failed" \notin Placed
    BY DEF Confirmed, Placed
  <2>2. pathAt[p] = "ok" => folder.gen = held[p] /\ folder.mode = "private"
    BY <1>1, <2>1, Zenon DEF PathInv, FolderHeld
  <2>3. folder = [gen |-> folder.gen, mode |-> folder.mode]
    BY <1>1 DEF PathInv, EntriesTyped
  <2>4. pathAt[p] = "ok" => folder = [gen |-> held[p], mode |-> "private"]
    BY <2>2, <2>3
  <2> QED
    BY <1>1, <2>1, <2>4, Zenon DEF PathInv, DestinationOwned
<1> QED
  BY PathInvariance, <1>1, PTL
=============================================================================
