---------------------------- MODULE PrivatePaths ----------------------------
(***************************************************************************)
(* utils/paths.rs: the private directory every monitor of a user shares    *)
(* and the exclusive publication of an entry into it.  A caller first      *)
(* runs ensure_private_directory, which may race another caller that       *)
(* creates the same directory, and then publish_private_path, which        *)
(* renames its source to a destination name several callers may want.      *)
(* Around the rename the source may be replaced under its name and a mode  *)
(* may drift; the code checks what it published and withdraws it.          *)
(***************************************************************************)
EXTENDS Naturals, FiniteSets

CONSTANTS Callers       \* monitors that share the directory

ASSUME CallersAssumption == "nobody" \notin Callers

VARIABLES
  folder,       \* [gen |-> the directory under the name, 0 for none, mode]
  fresh,        \* generation the next mkdirat creates
  held,         \* per caller: generation of the directory it has opened
  source,       \* per caller: object under its source name
  destination,  \* object under the destination name
  pending,      \* per caller: objects it contained under .publish-*.pending
  exact,        \* objects whose mode is the private one
  handle,       \* per caller: object its open descriptor denotes
  pathAt        \* per caller: next call of the sequence

pathVars == <<folder, fresh, held, source, destination, pending, exact, handle,
              pathAt>>
folderVars == <<folder, fresh, held>>
entryVars == <<source, destination, pending, exact, handle>>

Own(p) == [owner |-> p, stray |-> FALSE]
Stray(p) == [owner |-> p, stray |-> TRUE]
ObjectsOf(p) == {Own(p), Stray(p)}
Objects == UNION {ObjectsOf(p) : p \in Callers}
NoObject == [owner |-> "nobody", stray |-> FALSE]
Modes == {"private", "narrow", "wide"}

PathTypeOK ==
  /\ folder \in [gen : 0..fresh, mode : Modes]
  /\ fresh \in 2..(2 + Cardinality(Callers))
  /\ held \in [Callers -> 0..fresh]
  /\ source \in [Callers -> Objects \union {NoObject}]
  /\ destination \in Objects \union {NoObject}
  /\ pending \in [Callers -> SUBSET Objects]
  /\ exact \subseteq Objects
  /\ handle \in [Callers -> Objects \union {NoObject}]

\* The directory may be missing, or there with the mode an earlier program
\* gave it; each caller has prepared its own private source.
PathInit ==
  /\ fresh = 2
  /\ \/ folder = [gen |-> 0, mode |-> "private"]
     \/ \E m \in Modes : folder = [gen |-> 1, mode |-> m]
  /\ held = [p \in Callers |-> 0]
  /\ source = [p \in Callers |-> Own(p)]
  /\ destination = NoObject
  /\ pending = [p \in Callers |-> {}]
  /\ exact = {Own(p) : p \in Callers}
  /\ handle = [p \in Callers |-> NoObject]
  /\ pathAt = [p \in Callers |-> "open"]

PathGoto(p, from, to) ==
  /\ pathAt[p] = from
  /\ pathAt' = [pathAt EXCEPT ![p] = to]

-----------------------------------------------------------------------------
\* open_directory_at_with_retry: a directory whose mode denies its owner gives
\* EACCES until the other creator corrects it or the deadline passes.
OpenDirectory(p) ==
  /\ UNCHANGED <<entryVars, folder, fresh>>
  /\ \/ /\ folder.gen = 0
        /\ PathGoto(p, "open", "mkdir")
        /\ UNCHANGED held
     \/ /\ folder.gen # 0
        /\ folder.mode = "narrow"
        /\ PathGoto(p, "open", "prepare")
        /\ UNCHANGED held
     \/ /\ folder.gen # 0
        /\ folder.mode # "narrow"
        /\ held' = [held EXCEPT ![p] = folder.gen]
        /\ PathGoto(p, "open", "validate")

\* mkdirat: EEXIST joins the directory another caller made first; the umask
\* may leave the new one unreadable to its owner.
CreateOrJoin(p) ==
  /\ PathGoto(p, "mkdir", "prepare")
  /\ UNCHANGED <<entryVars, held>>
  /\ \/ /\ folder.gen = 0
        /\ \E m \in {"private", "narrow"} : folder' = [gen |-> fresh, mode |-> m]
        /\ fresh' = fresh + 1
     \/ /\ folder.gen # 0
        /\ UNCHANGED <<folder, fresh>>

\* prepare_directory_entry corrects the mode under the name, then the
\* directory is opened without a retry.
PrepareEntry(p) ==
  /\ folder.gen # 0
  /\ folder' = [folder EXCEPT !.mode = "private"]
  /\ PathGoto(p, "prepare", "reopen")
  /\ UNCHANGED <<entryVars, fresh, held>>

ReopenDirectory(p) ==
  /\ folder.gen # 0
  /\ folder.mode # "narrow"
  /\ held' = [held EXCEPT ![p] = folder.gen]
  /\ PathGoto(p, "reopen", "validate")
  /\ UNCHANGED <<entryVars, folder, fresh>>

\* validate_private_handle(correct_mode = true) on the opened directory.
ValidateDirectory(p) ==
  /\ folder' = IF held[p] = folder.gen THEN [folder EXCEPT !.mode = "private"] ELSE folder
  /\ PathGoto(p, "validate", "parents")
  /\ UNCHANGED <<entryVars, fresh, held>>

\* Mutation of EnsureFails: the failing creator removes the directory a
\* concurrent caller has joined.
EnsureFailsRemoving(p) ==
  /\ \/ /\ \E step \in {"reopen", "validate"} : PathGoto(p, step, "failed")
        /\ folder' = [folder EXCEPT !.gen = 0]
     \/ /\ \E step \in {"open", "mkdir", "prepare"} : PathGoto(p, step, "failed")
        /\ UNCHANGED folder
  /\ UNCHANGED <<fresh, held, entryVars>>

\* Any of these calls may fail.  The directory is left where it is, because
\* another caller may already hold it open.
EnsureFails(p) ==
  /\ \E step \in {"open", "mkdir", "prepare", "reopen", "validate"} :
       PathGoto(p, step, "failed")
  /\ UNCHANGED <<folderVars, entryVars>>

-----------------------------------------------------------------------------
\* secure_parent opens both parents again and requires the exact mode.
OpenParents(p) ==
  /\ folder.gen # 0
  /\ folder.mode = "private"
  /\ PathGoto(p, "parents", "source")
  /\ UNCHANGED <<folderVars, entryVars>>

\* open_validated_publish_source: inspect, open, validate without correcting,
\* and compare the name with the descriptor.
OpenSource(p) ==
  /\ source[p] # NoObject
  /\ handle' = [handle EXCEPT ![p] = source[p]]
  /\ PathGoto(p, "source", "compare")
  /\ UNCHANGED <<folderVars, source, destination, pending, exact>>

ValidateSource(p) ==
  /\ handle[p] \in exact
  /\ source[p] = handle[p]
  /\ PathGoto(p, "compare", "rename")
  /\ UNCHANGED <<folderVars, entryVars>>

\* renameatx_np(RENAME_EXCL): moves whatever the source name denotes now.
PublishPrivatePathAt(p) ==
  /\ source[p] # NoObject
  /\ destination = NoObject
  /\ destination' = source[p]
  /\ source' = [source EXCEPT ![p] = NoObject]
  /\ PathGoto(p, "rename", "verify")
  /\ UNCHANGED <<folderVars, pending, exact, handle>>

\* Every call up to and including the rename returns its error at once; the
\* rename fails in particular when the destination exists.
PublishFails(p) ==
  /\ \E step \in {"parents", "source", "compare", "rename"} :
       PathGoto(p, step, "failed")
  /\ UNCHANGED <<folderVars, entryVars>>

\* Mutation of VerifyPublished: the entry is not compared with the descriptor.
VerifyPublishedNever(p) ==
  /\ PathGoto(p, "verify", "recheck")
  /\ UNCHANGED <<folderVars, entryVars>>

\* publish_entry_matches_handle: is the published entry the validated one?
\* An error of the comparison is contained like a mismatch.
VerifyPublished(p) ==
  /\ UNCHANGED <<folderVars, entryVars>>
  /\ \/ /\ destination = handle[p]
        /\ PathGoto(p, "verify", "recheck")
     \/ PathGoto(p, "verify", "contain")

\* validate_private_handle(correct_mode = false) after the rename.
RecheckMode(p) ==
  /\ UNCHANGED <<folderVars, entryVars>>
  /\ PathGoto(p, "recheck", IF handle[p] \in exact THEN "ok" ELSE "repair")

\* The mode drifted: correct it and give the entry its source name back, or
\* contain it when the correction fails.
RepairMode(p) ==
  /\ UNCHANGED <<folderVars, source, destination, pending, handle>>
  /\ \/ /\ exact' = exact \union {handle[p]}
        /\ PathGoto(p, "repair",
                    IF destination = handle[p] THEN "restore" ELSE "contain")
     \/ /\ PathGoto(p, "repair", "contain")
        /\ UNCHANGED exact

RestoreSource(p) ==
  /\ UNCHANGED <<folderVars, pending, exact, handle>>
  /\ \/ /\ source[p] = NoObject
        /\ source' = [source EXCEPT ![p] = destination]
        /\ destination' = NoObject
        /\ PathGoto(p, "restore", "failed")
     \/ /\ PathGoto(p, "restore", "contain")
        /\ UNCHANGED <<source, destination>>

\* quarantine_publish_entry: rename the entry to a fresh pending name, or
\* unlink it when that fails.
QuarantineEntry(p) ==
  /\ UNCHANGED <<folderVars, source, exact, handle>>
  /\ \/ /\ destination # NoObject
        /\ pending' = [pending EXCEPT ![p] = @ \union {destination}]
        /\ destination' = NoObject
        /\ PathGoto(p, "contain", "failed")
     \/ /\ PathGoto(p, "contain", "unlink")
        /\ UNCHANGED <<pending, destination>>

\* remove_untrusted_publish_entry; a directory that is not empty stays.
UnlinkEntry(p) ==
  /\ UNCHANGED <<folderVars, source, pending, exact, handle>>
  /\ \/ /\ destination' = NoObject
        /\ PathGoto(p, "unlink", "failed")
     \/ /\ PathGoto(p, "unlink", "stuck")
        /\ UNCHANGED destination

-----------------------------------------------------------------------------
\* Another program of the same user puts an entry under the source name, once.
SourceReplaced(p) ==
  /\ Stray(p) \notin {source[p], destination} \union pending[p]
  /\ source' = [source EXCEPT ![p] = Stray(p)]
  /\ \E private \in BOOLEAN :
       exact' = IF private THEN exact \union {Stray(p)} ELSE exact \ {Stray(p)}
  /\ handle[p] # Stray(p)
  /\ UNCHANGED <<folderVars, destination, pending, handle, pathAt>>

ModeDrifts(o) ==
  /\ o \in exact
  /\ exact' = exact \ {o}
  /\ UNCHANGED <<folderVars, source, destination, pending, handle, pathAt>>

EnsurePrivateDirectory(p) ==
  \/ OpenDirectory(p)
  \/ CreateOrJoin(p)
  \/ PrepareEntry(p)
  \/ ReopenDirectory(p)
  \/ ValidateDirectory(p)
  \/ EnsureFails(p)

PublishPrivatePath(p) ==
  \/ OpenParents(p)
  \/ OpenSource(p)
  \/ ValidateSource(p)
  \/ PublishPrivatePathAt(p)
  \/ PublishFails(p)
  \/ VerifyPublished(p)
  \/ RecheckMode(p)
  \/ RepairMode(p)
  \/ RestoreSource(p)
  \/ QuarantineEntry(p)
  \/ UnlinkEntry(p)

PathNext ==
  \/ \E p \in Callers :
       \/ EnsurePrivateDirectory(p)
       \/ PublishPrivatePath(p)
       \/ SourceReplaced(p)
  \/ \E o \in Objects : ModeDrifts(o)

PathSpec == PathInit /\ [][PathNext]_pathVars

-----------------------------------------------------------------------------
(***************************************************************************)
(* publish_private_path after ensure_private_directory: a caller that      *)
(* returns Ok has the object it validated under the destination name, in   *)
(* the directory it ensured, which is still the one under its name and     *)
(* private, whatever the callers that create or fail to create it at the   *)
(* same time do.  One that returns an error has left nothing of its own    *)
(* there, unless both containment calls failed.  No two succeed.           *)
(***************************************************************************)
PublishIsAllOrNothing ==
  \A p \in Callers :
    /\ pathAt[p] = "ok" =>
         destination = handle[p] /\ folder = [gen |-> held[p], mode |-> "private"]
    /\ pathAt[p] = "failed" => destination \notin ObjectsOf(p)

=============================================================================
