---------------------------- MODULE FencedSlots ----------------------------
(***************************************************************************)
(* What the build coordinator promises of worker slots: each grant of a    *)
(* slot carries a new token, only the newest token of a slot can publish   *)
(* what was done under it, and no token publishes twice.                   *)
(***************************************************************************)
EXTENDS Naturals

CONSTANT Slot

VARIABLES
  newest,    \* newest[s]: the last token granted for s, 0 before any
  published  \* the tokens something was published under

vars == <<newest, published>>

Init ==
  /\ newest = [s \in Slot |-> 0]
  /\ published = {}

Grant(s) ==
  /\ newest' = [newest EXCEPT ![s] = newest'[s]]
  /\ newest'[s] \in Nat
  /\ \A r \in Slot : newest'[s] > newest[r]
  /\ UNCHANGED published

Publish(s) ==
  /\ newest[s] # 0
  /\ newest[s] \notin published
  /\ published' = published \cup {newest[s]}
  /\ UNCHANGED newest

Next == \E s \in Slot : Grant(s) \/ Publish(s)

Spec == Init /\ [][Next]_vars
=============================================================================
