------------------------------ MODULE Artifact ------------------------------
(***************************************************************************)
(* What the agent's backup protocol relies on about one artifact of a VM:  *)
(* it is whole before it is published, a restore moves it to the disk only *)
(* when whole, and it is taken apart only after the record retired it.     *)
(* AgentBackup's CloneFile, WriteManifest, RenameStage and Apply treat a   *)
(* directory this way; ReflinkArtifact implements it file by file.         *)
(***************************************************************************)
VARIABLES
  record,  \* what the VM's database row says of it
  held     \* what is on storage

ArtifactInit == record = "none" /\ held = "absent"

\* backup_begin and backup_finish
Admitted == record = "none" /\ record' \in {"create", "restore"} /\ held' = held
Published == record = "create" /\ held = "whole" /\ record' = "current" /\ held' = held
Applied == record = "restore" /\ held = "moved" /\ record' = "retired" /\ held' = held
Retired == record \in {"create", "restore", "current"} /\ record' = "retired" /\ held' = held
Forgotten == record = "retired" /\ held = "absent" /\ record' = "gone" /\ held' = held

\* Context::create, restore and remove
Started == record \in {"create", "restore"} /\ held = "absent" /\ held' = "partial" /\ record' = record
Completed == record \in {"create", "restore"} /\ held = "partial" /\ held' = "whole" /\ record' = record
Moved == record = "restore" /\ held = "whole" /\ held' = "moved" /\ record' = record
Spoiled == record = "retired" /\ held \in {"whole", "moved"} /\ held' = "partial" /\ record' = record
Dropped == record = "retired" /\ held = "partial" /\ held' = "absent" /\ record' = record

ArtifactNext ==
  \/ Admitted \/ Published \/ Applied \/ Retired \/ Forgotten
  \/ Started \/ Completed \/ Moved \/ Spoiled \/ Dropped

ArtifactSpec == ArtifactInit /\ [][ArtifactNext]_<<record, held>>
=============================================================================
