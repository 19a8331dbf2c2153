------------------------- MODULE RolloutProperties -------------------------
(***************************************************************************)
(* What a rollout must keep while it fails, crashes, is cancelled, and the *)
(* configuration changes under it.                                         *)
(***************************************************************************)
EXTENDS RolloutControl

(* The types of the state.                                                 *)
TypeOK ==
  /\ app \in [st: AppStatus, image: Image, rev: Rev, wanted: Rev \cup {0}, after: 0 .. MaxOps + 2]
  /\ manifest \in [due: BOOLEAN, older: 0 .. MaxOps]
  /\ replica \in [Replica -> [st: ReplicaStatus, bad: BOOLEAN, att: Label]]
  /\ box \in [Replica -> [label: Label, up: BOOLEAN]]
  /\ \A i \in DOMAIN history : history[i] \in [op: Op \cup {0}, image: Image, rev: Rev]
  /\ \A o \in DOMAIN ops : o \in Op /\ ops[o] \in OpRow
  /\ run \in RunRow

(* The blast radius of an image that never becomes ready is one replica,   *)
(* whatever operation brings it and however it ends.                       *)
BlastRadius == Cardinality({r \in Replica : box[r].label.image \in Broken}) <= 1

(* A rollout takes one replica out of service at a time; every further one *)
(* is the cost of a fault.                                                 *)
OneOutOfService ==
  Cardinality({r \in Replica : ~Healthy(r) \/ replica[r].st = "draining"})
    <= 1 + (MaxFaults - budget.faults)

(* An operation enters one row in the history, also when its step is run   *)
(* again after a crash.                                                    *)
RecordedOnce ==
  \A i \in DOMAIN history :
    history[i].op # 0 => \A j \in 1 .. i - 1 : history[j].op # history[i].op

(* A failed operation that nobody cancelled, and that no later one took    *)
(* over, can still restore what ran before it: its snapshot is there, or   *)
(* the container already runs it.                                          *)
CanRestore ==
  \A o \in DOMAIN ops :
    /\ ops[o].st = "compensating" /\ ~ops[o].cancel /\ ~Superseded(o)
    /\ "snapshot" \in ops[o].undo /\ ops[o].snap # NoLabel
    => ops[o].dir # None \/ box[1].label = ops[o].snap

(* An operation that ends as compensated, with no later one that took over *)
(* the app, leaves the revision of its snapshot on the first replica and   *)
(* the app out of deploying.                                               *)
CompensatedIsRestored ==
  [][\A o \in DOMAIN ops :
       /\ ops[o].st = "compensating" /\ ops'[o].st \in {"compensated", "cancelled"}
       /\ ~Superseded(o) /\ Completed(o, "snapshot") /\ ops[o].snap # NoLabel
       => box'[1].label = ops[o].snap /\ app'.st # "deploying"]_vars

(* What a release, a redeploy or a promotion stores or records as deployed *)
(* every replica has, unless three faults met: a crash of the panel        *)
(* between two steps, a container that died, and its failed restart.       *)
OnlyProvenIsStored ==
  [][LET o == run.op
         everywhere(i) == \A r \in Replica : box[r].label.image = i IN
     budget.faults + 3 > MaxFaults =>
       /\ Doing("commit", "go") /\ run' # run /\ app'.image # app.image => everywhere(app'.image)
       /\ history' # history /\ ops[o].kind # "rollback" => everywhere(history'[Len(history')].image)]_vars
=============================================================================
