---------------------------- MODULE MCAppLifecycle ----------------------------
(***************************************************************************)
(* Two servers for model checking.                                         *)
(***************************************************************************)
EXTENDS AppProperties, TLC

CONSTANTS s1, s2

MCServer == {s1, s2}
ServerSymmetry == Permutations(MCServer)
=============================================================================
