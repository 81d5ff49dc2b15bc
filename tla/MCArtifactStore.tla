-------------------------- MODULE MCArtifactStore --------------------------
(* ArtifactStore for TLC; the sets are in the .cfg files. *)
EXTENDS ArtifactStore
=============================================================================
