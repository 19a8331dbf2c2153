----------------------------- MODULE MCRollouts -----------------------------
(***************************************************************************)
(* Three images for model checking: the one deployed before, the one now   *)
(* deployed, and one that never becomes ready.                             *)
(***************************************************************************)
EXTENDS RolloutProperties

CONSTANTS i1, i2, i3

MCImage == {i1, i2, i3}
MCBroken == {i3}
MCAsked == {<<"redeploy", None>>, <<"release", i1>>, <<"release", i3>>,
            <<"promote", i3>>, <<"rollback", i1>>}
=============================================================================
