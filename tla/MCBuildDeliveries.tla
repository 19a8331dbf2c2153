-------------------------- MODULE MCBuildDeliveries --------------------------
(***************************************************************************)
(* Pushes for model checking: `first` and `second` push two commits in     *)
(* order, `again` pushes the first commit once more and has no timestamp.  *)
(***************************************************************************)
EXTENDS BuildDeliveryProperties, TLC

CONSTANTS first, second, again, c1, c2

MCDelivery == {first, second, again}
MCCommit == {c1, c2}

(* `again` arrives on the day of the others: received_at sorts below them. *)
SameDayEvent ==
  first :> [commit |-> c1, at |-> 1, received |-> 0] @@
  second :> [commit |-> c2, at |-> 2, received |-> 0] @@
  again :> [commit |-> c1, at |-> NoTime, received |-> 0]

ASSUME PushesInOrder == UntimedBelow
=============================================================================
