-------------------------- MODULE ReflinkArtifact --------------------------
(***************************************************************************)
(* One artifact directory of the file backend, system call by system call: *)
(* the files owner, disk and ready.json, the temporary file of an atomic   *)
(* write, and the agent dying between any two calls.  The agent repeats an *)
(* unfinished operation and a failed removal from their first call.        *)
(***************************************************************************)
EXTENDS Integers, FiniteSets

CONSTANTS
  MaxCrashes,    \* bound: times the agent dies
  MaxFailures,   \* bound: system calls that fail
  CrashInWrite   \* bound: may the agent die while an atomic write is under way?

ASSUME BoundsAssumption ==
  MaxCrashes \in Nat /\ MaxFailures \in Nat /\ CrashInWrite \in BOOLEAN

VARIABLES
  record,    \* the VM's database row on this artifact
  identity,  \* the row knows the file's inode (Generation::identity)
  dir,       \* the directory exists
  files,     \* owner, disk and ready.json, those that exist
  temps,     \* temporary files left or being written
  whole,     \* contents of the disk file: cloned, or created and empty
  active,    \* the VM's disk: its old file, or the whole or torn staged one
  pc, crashes, failures

row == <<record, identity>>
storage == <<dir, files, temps, whole, active>>
bounds == <<crashes, failures>>
vars == <<row, storage, pc, bounds>>

Making == {"make", "tag", "tagging", "look", "clear", "open", "clone", "seal", "sealing", "move", "made"}
Removing == {"remove", "unlink", "unseal", "untag", "rmdir", "removed"}
Writing == {"tagging", "sealing"}

Init ==
  /\ record = "none" /\ identity = FALSE
  /\ dir = FALSE /\ files = {} /\ temps = 0 /\ whole = FALSE /\ active = "old"
  /\ pc = "idle" /\ crashes = 0 /\ failures = 0

Pending == record \in {"create", "restore"}
Go(to) == pc' = to /\ UNCHANGED <<row, bounds>>

(***************************************************************************)
(* The record.                                                             *)
(***************************************************************************)
Admit ==
  /\ record = "none" /\ pc = "idle" /\ record' \in {"create", "restore"}
  /\ UNCHANGED <<identity, storage, pc, bounds>>

Attempt ==
  /\ pc = "idle"
  /\ \/ Pending /\ Go("make")
     \/ record = "retired" /\ Go("remove")
  /\ UNCHANGED storage

Finish ==
  /\ pc = "made" /\ pc' = "idle"
  /\ record' = IF record = "create" THEN "current" ELSE "retired"
  /\ identity' = TRUE
  /\ UNCHANGED <<storage, bounds>>

\* A failed create retires its artifact; a failed restore stays pending.
FailForgettingTemporary ==
  /\ pc' = "idle"
  /\ record' = IF pc \in Making /\ record = "create" THEN "retired" ELSE record
  /\ temps' = temps - 1
  /\ UNCHANGED <<identity, dir, files, whole, active, crashes>>
Fail ==
  /\ pc' = "idle"
  /\ record' = IF pc \in Making /\ record = "create" THEN "retired" ELSE record
  /\ temps' = IF pc \in Writing THEN temps - 1 ELSE temps
  /\ UNCHANGED <<identity, dir, files, whole, active, crashes>>

\* A newer backup, a deletion of the backup or of the VM (also of an unfinished one).
Retire ==
  /\ pc = "idle" /\ (record = "current" \/ Pending) /\ record' = "retired"
  /\ UNCHANGED <<identity, storage, pc, bounds>>

Forget ==
  /\ pc = "removed" /\ pc' = "idle" /\ record' = "gone"
  /\ UNCHANGED <<identity, storage, bounds>>

(***************************************************************************)
(* prepare_directory, create and restore.                                  *)
(***************************************************************************)
EmptyNever == FALSE
Empty == dir /\ files = {} /\ temps = 0
Owned == "owner" \in files

MakeDirectory ==
  /\ pc = "make"
  /\ \/ ~dir /\ dir' = TRUE /\ Go("tag")
     \/ Empty /\ Go("tag") /\ UNCHANGED dir
     \/ Owned /\ Go("look") /\ UNCHANGED dir
  /\ UNCHANGED <<files, temps, whole, active>>

\* atomic_write: a temporary file, then a rename over the target
WriteTemporary ==
  /\ \/ pc = "tag" /\ Go("tagging")
     \/ pc = "seal" /\ Go("sealing")
  /\ temps' = temps + 1
  /\ UNCHANGED <<dir, files, whole, active>>

Persist ==
  /\ \/ pc = "tagging" /\ files' = files \union {"owner"} /\ Go("look")
     \/ /\ pc = "sealing" /\ files' = files \union {"ready"}
        /\ Go(IF record = "create" THEN "made" ELSE "move")
  /\ temps' = temps - 1
  /\ UNCHANGED <<dir, whole, active>>

\* With a manifest a retry finds its backup, its finished rename or its stage.
SealedByDisk == "disk" \in files
Sealed == "ready" \in files

LookWithoutRename ==
  /\ pc = "look"
  /\ \/ ~Sealed /\ active = "old" /\ Go("clear")
     \/ Sealed /\ record = "create" /\ "disk" \in files /\ Go("made")
     \/ Sealed /\ record = "restore" /\ active = "old" /\ "disk" \in files /\ Go("move")
  /\ UNCHANGED storage
Look ==
  /\ pc = "look"
  /\ \/ ~Sealed /\ active = "old" /\ Go("clear")
     \/ Sealed /\ record = "create" /\ "disk" \in files /\ Go("made")
     \/ Sealed /\ record = "restore" /\ active # "old" /\ Go("made")
     \/ Sealed /\ record = "restore" /\ active = "old" /\ "disk" \in files /\ Go("move")
  /\ UNCHANGED storage

ClearDisk ==
  /\ pc = "clear" /\ files' = files \ {"disk"} /\ Go("open")
  /\ UNCHANGED <<dir, temps, whole, active>>

OpenDisk ==
  /\ pc = "open" /\ "disk" \notin files
  /\ files' = files \union {"disk"} /\ whole' = FALSE /\ Go("clone")
  /\ UNCHANGED <<dir, temps, active>>

CloneDisk ==
  /\ pc = "clone" /\ whole' = TRUE /\ Go("seal")
  /\ UNCHANGED <<dir, files, temps, active>>

MoveDisk ==
  /\ pc = "move"
  /\ active' = IF whole THEN "staged" ELSE "torn"
  /\ files' = files \ {"disk"} /\ Go("made")
  /\ UNCHANGED <<dir, temps, whole>>

(***************************************************************************)
(* remove: the disk first, so that a manifest without a disk is a removal  *)
(* (or a restore's rename) and never a backup.                             *)
(***************************************************************************)
StartRemoval ==
  /\ pc = "remove"
  /\ \/ ~dir /\ Go("removed")
     \/ Empty /\ Go("rmdir")
     \/ Owned /\ "disk" \in files /\ (identity => Sealed) /\ Go("unlink")
     \/ Owned /\ "disk" \notin files /\ Go("unseal")
  /\ UNCHANGED storage

UnlinkDisk ==
  /\ pc = "unlink" /\ files' = files \ {"disk"} /\ Go("unseal")
  /\ UNCHANGED <<dir, temps, whole, active>>

UnlinkManifest ==
  /\ pc = "unseal" /\ files' = files \ {"ready"} /\ Go("untag")
  /\ UNCHANGED <<dir, temps, whole, active>>

\* Anything else in the directory stops the removal.
OnlyOwner == Cardinality(files) + temps = 1
UnlinkOwner ==
  /\ pc = "untag" /\ OnlyOwner /\ files' = files \ {"owner"} /\ Go("rmdir")
  /\ UNCHANGED <<dir, temps, whole, active>>

RemoveDirectory ==
  /\ pc = "rmdir" /\ Empty /\ dir' = FALSE /\ Go("removed")
  /\ UNCHANGED <<files, temps, whole, active>>

\* The refusals of the calls above, whatever fails or not.
Refused ==
  \/ pc = "make" /\ dir /\ ~Empty /\ ~Owned
  \/ pc = "look" /\ Sealed /\ "disk" \notin files /\ ~(record = "restore" /\ active # "old")
  \/ pc = "look" /\ ~Sealed /\ active # "old"
  \/ pc = "remove" /\ dir /\ ~Empty /\ (~Owned \/ ("disk" \in files /\ identity /\ ~Sealed))
  \/ pc = "untag" /\ ~OnlyOwner
  \/ pc = "rmdir" /\ ~Empty
Refuse == Refused /\ Fail /\ UNCHANGED failures

CallFails ==
  /\ pc \in Making \union Removing
  /\ failures < MaxFailures /\ failures' = failures + 1 /\ Fail

Crash ==
  /\ pc # "idle" /\ crashes < MaxCrashes /\ crashes' = crashes + 1
  /\ pc \in Writing => CrashInWrite
  /\ pc' = "idle" /\ UNCHANGED <<row, storage, failures>>

Step ==
  \/ Attempt \/ Finish \/ Forget \/ MakeDirectory \/ WriteTemporary \/ Persist \/ Look
  \/ ClearDisk \/ OpenDisk \/ CloneDisk \/ MoveDisk
  \/ StartRemoval \/ UnlinkDisk \/ UnlinkManifest \/ UnlinkOwner \/ RemoveDirectory
  \/ Refuse
Next == Admit \/ Retire \/ Step \/ CallFails \/ Crash

Spec == Init /\ [][Next]_vars
\* The reconcile loop repeats an unfinished operation and a failed removal, and calls end.
FairSpec == Spec /\ WF_vars(Step)

(***************************************************************************)
(* Properties.                                                             *)
(***************************************************************************)
\* Every variable holds a value of its kind.
TypeOK ==
  /\ record \in {"none", "create", "restore", "current", "retired", "gone"}
  /\ identity \in BOOLEAN /\ dir \in BOOLEAN /\ whole \in BOOLEAN
  /\ files \in SUBSET {"owner", "disk", "ready"} /\ temps \in Nat
  /\ active \in {"old", "staged", "torn"}
  /\ pc \in {"idle"} \union Making \union Removing
  /\ crashes \in Nat /\ failures \in Nat

\* A published backup has its owner tag, its manifest and a wholly cloned disk, whatever
\* died or failed while it was made.
PublishedWhole ==
  record = "current" => dir /\ files = {"owner", "disk", "ready"} /\ whole

\* No restore, first or repeated, ever puts a half-cloned file in place of the VM's disk.
ActiveWhole == active # "torn"

\* What the backup protocol sees of the directory.
Held ==
  IF ~dir THEN "absent"
  ELSE IF {"ready", "disk"} \subseteq files /\ whole THEN "whole"
  ELSE IF Sealed /\ "disk" \notin files /\ active = "staged" THEN "moved"
  ELSE "partial"
A == INSTANCE Artifact WITH held <- Held

\* The directory behaves as one artifact: published and applied only when whole, taken
\* apart only once retired, forgotten only when nothing is left of it.
ImplementsArtifact == A!ArtifactSpec

\* An interrupted backup or restore settles by itself: the loop repeats the exact request.
OperationSettles == Pending ~> ~Pending

\* What a death inside an atomic write leaves behind.
Leftover == temps > IF pc \in Writing THEN 1 ELSE 0

\* It does so after any other interruption.
CleanSettles == Pending ~> (~Pending \/ Leftover)

\* A retired artifact is removed in the end, however often its removal was interrupted,
\* unless a temporary file was left in its directory.
CleanRemoved == record = "retired" ~> (record = "gone" \/ Leftover)

(***************************************************************************)
(* The inductive invariant.                                                *)
(***************************************************************************)
\* Why a manifest can be trusted: it is written after the disk is whole and taken away
\* after the disk is gone, a rename empties the directory of its disk but not of its
\* manifest, and removal works only on a retired artifact.
DirectoryInv ==
  /\ pc \in Writing => temps > 0
  /\ ~dir => files = {}
  /\ record = "none" => pc = "idle" /\ ~dir /\ active = "old"
  /\ pc \in Making => Pending
  /\ pc \in Removing => record = "retired"
  /\ active # "torn" /\ (active = "staged" => "disk" \notin files)
  /\ Sealed /\ "disk" \in files => whole
  /\ record \in {"create", "current"} => active = "old"
  /\ record = "restore" /\ active = "staged" => Sealed
  /\ Pending /\ Sealed /\ active = "old" => "disk" \in files
  /\ record = "current" => Owned /\ Sealed /\ "disk" \in files
  /\ pc \in Making \ {"make"} => dir
  /\ pc \in {"tag", "tagging"} => files = {}
  /\ pc \in Making \ {"make", "tag", "tagging"} => Owned
  /\ pc \in {"clear", "open", "clone", "seal", "sealing"} => ~Sealed /\ active = "old"
  /\ pc \in {"clone", "seal", "sealing"} => "disk" \in files
  /\ pc \in {"seal", "sealing"} => whole
  /\ pc = "move" => record = "restore" /\ active = "old" /\ Sealed
  /\ pc = "made" => Sealed /\ (record = "restore" => active = "staged")
  /\ pc \in {"unlink", "unseal", "untag", "rmdir"} => dir
  /\ pc \in {"unseal", "untag", "rmdir"} => "disk" \notin files
  /\ pc \in {"untag", "rmdir"} => "ready" \notin files
  /\ pc = "rmdir" => files = {}
  /\ pc = "removed" => ~dir
=============================================================================
