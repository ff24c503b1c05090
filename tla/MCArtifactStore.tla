-------------------------- MODULE MCArtifactStore ---------------------------
(***************************************************************************)
(* Instances of ArtifactStore for TLC.                                     *)
(***************************************************************************)
EXTENDS ArtifactStore

\* Below, at and above the limits.
MCTtl == {-3, 1, 2, 3}
=============================================================================
