----------------------- MODULE BuildDeliveryProperties -----------------------
(***************************************************************************)
(* What push deliveries must keep, however they are ordered, repeated, cut *)
(* short by a crash or retried by hand.                                    *)
(***************************************************************************)
EXTENDS BuildDeliveries

OlderEvent(d, e) == Timed(d) /\ Timed(e) /\ Event[d].at < Event[e].at

(* The payloads the theorems about the order of pushes are for: none that  *)
(* has no timestamp was received after the time of one that has.           *)
UntimedBelow ==
  \A d, e \in Delivery : Timed(d) /\ ~Timed(e) => SortKey(e) < SortKey(d)

(* The pushes whose commit an app runs or is about to run.                 *)
Coming(t) ==
  {d \in Delivery : d = app[t] \/ \E o \in Op : /\ op[o].delivery = d
                                             /\ child[o][t] \in {"pending", "running"}}

(* An app is never asked to go back from the commit of one push, that it   *)
(* runs or that is on its way, to the commit of an earlier one: not by a   *)
(* late or repeated webhook, nor by a retry of an old operation.  Only     *)
(* before a first push was accepted (last_delivery_id is empty) is every   *)
(* delivery taken for fresh.                                               *)
NeverBackwards ==
  [][\A o \in Op, t \in Target :
       child[o][t] = "none" /\ child'[o][t] # "none" /\ source.last # None
         => \A d \in Coming(t) : ~OlderEvent(op[o].delivery, d)]_vars

(* A delivery is only recorded as deployed when every target rolled its    *)
(* commit out, or had its child cancelled by hand, and none has gone back. *)
DeployedIsServed ==
  \A d \in Recorded : delivery[d].status = "deployed" =>
    \E o \in Op :
      /\ op[o].delivery = d
      /\ \A t \in Target :
           \/ child[o][t] = "cancelled"
           \/ child[o][t] = "done" /\ app[t] # None /\ ~OlderEvent(app[t], d)

(* A superseded or stale delivery rolls nothing further out: its operation *)
(* enqueues no other child, and unless its last step was done by then it   *)
(* does not do it, nor does it end as done.                                *)
SupersededStops ==
  [][\A o \in Op :
       /\ op[o].delivery \in Recorded
       /\ delivery[op[o].delivery].status \in {"stale", "superseded"}
       => /\ \A t \in Target : child[o][t] = "none" => child'[o][t] = "none"
          /\ op[o].pc # "finished" =>
               /\ op'[o].pc # "finished"
               /\ op'[o].status = "done" => op[o].status = "done"]_vars

(* However often a commit is pushed and its rows compacted away, one       *)
(* operation is enqueued for it, and more only by an operator's retry.     *)
OneOperationPerCommit ==
  \A o, p \in Op :
    /\ op[o].status # "none" /\ op[p].status # "none"
    /\ ~op[o].retry /\ ~op[p].retry
    /\ Event[op[o].delivery].commit = Event[op[p].delivery].commit
    => o = p
=============================================================================
