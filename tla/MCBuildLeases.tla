--------------------------- MODULE MCBuildLeases ---------------------------
(***************************************************************************)
(* Instances of BuildLeases for TLC.  Workers and digests are alike, and so *)
(* are operations of one kind.                                             *)
(***************************************************************************)
EXTENDS BuildProperties, TLC

Symmetry == Permutations(Op) \cup Permutations(Worker) \cup Permutations(Digest)
=============================================================================
