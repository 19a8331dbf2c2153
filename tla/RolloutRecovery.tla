-------------------------- MODULE RolloutRecovery --------------------------
(***************************************************************************)
(* The compensations of the rollout operations, and what may happen to a   *)
(* runner: a cancel, a crash of the panel, the end of its attempts.        *)
(***************************************************************************)
EXTENDS Rollouts

Undoing(s) == run.ph = "undo" /\ s \in row.undo /\ s = (
  CASE "roll" \in row.undo -> "roll"
    [] "deploying" \in row.undo -> "deploying"
    [] OTHER -> "snapshot")

Undone(s) == Settle(run.op, Unwound(run.op, [row EXCEPT !.undo = @ \ {s}]))

(* A failed compensation leaves the row as it is; the engine walks again.  *)
WalkFails == Settle(run.op, [row |-> [row EXCEPT !.tried = TRUE], run |-> Idle])

UndoRoll ==
  /\ Undoing("roll")
  /\ replica' = [r \in Replica |->
       IF replica[r].st = "draining" THEN [replica[r] EXCEPT !.st = "running"] ELSE replica[r]]
  /\ Undone("roll")
  /\ UNCHANGED <<app, manifest, box, history, budget>>

UndoDeploying ==
  /\ Undoing("deploying")
  /\ app' = IF app.st = "deploying" THEN [app EXCEPT !.st = row.prev] ELSE app
  /\ Undone("deploying")
  /\ UNCHANGED <<manifest, replica, box, history, budget>>

(* Nothing to restore when there was no container.                         *)
UndoSnapshot ==
  /\ Undoing("snapshot")
  /\ app' = IF row.kind \in {"rollback", "promote"} THEN [app EXCEPT !.st = row.prev] ELSE app
  /\ IF row.snap = NoLabel THEN Undone("snapshot") ELSE Goes("restore") /\ UNCHANGED ops
  /\ UNCHANGED <<manifest, replica, box, history, budget>>

(* The container is started from the environment file of the snapshot; a   *)
(* run without that file fails once the old container is gone.             *)
Restore ==
  /\ run.ph = "restore"
  /\ IF row.dir = None /\ ~Matches(1, row.snap)
     THEN box' = [box EXCEPT ![1] = NoBox] /\ UNCHANGED budget /\ WalkFails
     ELSE Starts(1, row.snap, Goes("reprobe") /\ UNCHANGED ops, WalkFails)
  /\ UNCHANGED <<app, manifest, replica, history>>

(* A pull, an environment write or an inspection of the image fails.       *)
(* Mutant: the failure is logged and passed over. *)
RestoreIgnored ==
  /\ run.ph = "restore" /\ Fault /\ Undone("snapshot")
  /\ UNCHANGED <<app, manifest, replica, box, history>>
RestoreFails ==
  /\ run.ph = "restore" /\ Fault /\ WalkFails
  /\ UNCHANGED <<app, manifest, replica, box, history>>

(* Only a probe that saw the container unhealthy fails the compensation.   *)
Reprobe ==
  /\ run.ph = "reprobe"
  /\ \E seen \in BOOLEAN :
       LET st == IF seen /\ Healthy(1) THEN "running" ELSE "unhealthy" IN
       /\ Calls(seen)
       /\ replica' = WithReplica(1, st) /\ app' = [app EXCEPT !.st = st]
       /\ IF seen /\ ~Healthy(1) THEN WalkFails
          ELSE Goes("restored") /\ ops' = [ops EXCEPT ![run.op].dir = None]
  /\ UNCHANGED <<manifest, box, history>>

(* The row of the compensation is written.                                 *)
Restored ==
  /\ run.ph = "restored"
  /\ Undone("snapshot")
  /\ UNCHANGED <<app, manifest, replica, box, history, budget>>

Undo == UndoRoll \/ UndoDeploying \/ UndoSnapshot \/ Restore \/ RestoreFails \/ Reprobe \/ Restored

(* The sweep gives up on a compensation that has failed often enough.      *)
GiveUp ==
  /\ \E o \in DOMAIN ops :
       /\ ops[o].st = "compensating" /\ ops[o].tried /\ run.op # o
       /\ ops' = [ops EXCEPT ![o] = Over(@, "compensation_failed")]
  /\ UNCHANGED <<app, manifest, replica, box, history, run, budget>>

(* handleCancelOperation: a pending row is over, a running one is asked to *)
(* stop before its next step.                                              *)
Cancel ==
  /\ budget.edits > 0
  /\ budget' = [budget EXCEPT !.edits = @ - 1]
  /\ \E o \in DOMAIN ops :
       \/ ops[o].st = "pending" /\ ops' = [ops EXCEPT ![o] = Over(@, "cancelled")]
       \/ ops[o].st = "running" /\ ~ops[o].cancel /\ ops' = [ops EXCEPT ![o].cancel = TRUE]
  /\ UNCHANGED <<app, manifest, replica, box, history, run>>

(* The panel process dies; at its start, running rows become pending.      *)
Crash ==
  /\ run.op # 0 /\ Fault
  /\ run' = Idle
  /\ ops' = [o \in DOMAIN ops |->
       IF ops[o].st = "running" THEN [ops[o] EXCEPT !.st = "pending"] ELSE ops[o]]
  /\ UNCHANGED <<app, manifest, replica, box, history>>

Recovery == GiveUp \/ Cancel \/ Crash
=============================================================================
