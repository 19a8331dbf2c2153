---------------------------- MODULE AppOperations ----------------------------
(***************************************************************************)
(* The operations that act on an app as a whole and hold its key while     *)
(* they run: pause_app, unpause_app, restart_app and wake                  *)
(* (src/engine/ops/app-lifecycle.ts, wake.ts) and destroy_app.             *)
(*                                                                         *)
(* A step's result is recorded with its action, so a crash resumes the     *)
(* operation at the step it was in; the engine itself is modelled in       *)
(* Engine.  The children that act on one replica each are unordered.       *)
(***************************************************************************)
EXTENDS AppWaking

Kind == {"pause_app", "unpause_app", "restart_app", "wake", "destroy_app"}

(*   todo   replicas the operation has still to act on                     *)
(*   bad    a child, or the removal of a resource, has failed              *)
(*   live   a runner executes it and holds the key                         *)
(*   keyed  an operation, over or not, has the idempotency key wake:<app>  *)
OpPc == {"none", "pending", "acting", "waking", "woken", "failed",
         "removing", "detaching", "deleting"}
OpRow == [kind: Kind \cup {None}, pc: OpPc, todo: SUBSET Replica, bad: BOOLEAN,
          live: BOOLEAN, keyed: BOOLEAN]
NoOp == [kind |-> None, pc |-> "none", todo |-> {}, bad |-> FALSE,
         live |-> FALSE, keyed |-> FALSE]

Queued(k) == [op EXCEPT !.kind = k, !.pc = "pending"]
OpEnds == op' = [NoOp EXCEPT !.keyed = op.keyed] /\ held' = None

Enqueue ==
  /\ op.pc = "none" /\ Present /\ budget.ops > 0
  /\ \E k \in Kind \ {"wake"} : op' = Queued(k)
  /\ budget' = [budget EXCEPT !.ops = @ - 1]
  /\ UNCHANGED <<app, rows, box, srv, held, tick, waker, wake, runtime>>

(* handleWakeApp: the key names the app only, and enqueueOperation answers *)
(* with the operation that has it, whatever became of it.                  *)
RequestWake ==
  /\ app.st \in {"sleeping", "waking"} /\ budget.ops > 0
  /\ budget' = [budget EXCEPT !.ops = @ - 1]
  /\ \/ op.keyed /\ UNCHANGED op
     \/ ~op.keyed /\ op.pc = "none" /\ op' = [Queued("wake") EXCEPT !.keyed = TRUE]
  /\ UNCHANGED <<app, rows, box, srv, held, tick, waker, wake, runtime>>

(* The app-runtime controller queues destroy_app again for an app whose    *)
(* deletion was requested and has no active destroy_app.                   *)
QueueFinalizer ==
  /\ op.pc = "none" /\ Present /\ app.deleted /\ held = None
  /\ op' = Queued("destroy_app")
  /\ UNCHANGED <<app, rows, box, srv, held, tick, waker, wake, runtime, budget>>

(* check_precondition, check_sleeping                                      *)
Skips ==
  CASE op.kind = "pause_app"   -> app.st = "paused"
    [] op.kind = "unpause_app" -> app.st # "paused"
    [] op.kind = "restart_app" -> app.st \in {"paused", "sleeping", "destroying", "cleanup_failed"}
    [] op.kind = "wake"        -> ~Wakeable
    [] op.kind = "destroy_app" -> FALSE

FirstPc == CASE op.kind = "wake" -> "waking"
             [] op.kind = "destroy_app" -> "removing"
             [] OTHER -> "acting"

OpStart ==
  /\ op.pc = "pending" /\ held = None
  /\ IF Skips \/ (op.kind = "restart_app" /\ rows = <<>>)
     THEN OpEnds /\ UNCHANGED app
     ELSE /\ held' = "op"
          /\ op' = [op EXCEPT !.pc = FirstPc, !.todo = Ids, !.live = TRUE]
          /\ app' = IF op.kind = "destroy_app"
                    THEN [app EXCEPT !.deleted = TRUE, !.st = "destroying"]
                    ELSE app
  /\ UNCHANGED <<rows, box, srv, tick, waker, wake, runtime, budget>>

OpResume ==
  /\ op.pc \notin {"none", "pending"} /\ ~op.live /\ held = None
  /\ held' = "op" /\ op' = [op EXCEPT !.live = TRUE]
  /\ UNCHANGED <<app, rows, box, srv, tick, waker, wake, runtime, budget>>

(* apply_container_action, verify_replica and persist_replica_state of the *)
(* child for one replica.  Only a container that runs can be paused, and   *)
(* only one that exists restarted.                                         *)
Target == CASE op.kind = "pause_app"   -> [from |-> {"running", "paused"}, to |-> "paused"]
            [] op.kind = "unpause_app" -> [from |-> {"running", "paused"}, to |-> "running"]
            [] op.kind = "restart_app" -> [from |-> Container \ {NoContainer}, to |-> "running"]

OpAct ==
  /\ op.pc = "acting" /\ op.live
  /\ \E x \in op.todo :
       IF x \notin Ids
       THEN /\ op' = [op EXCEPT !.todo = @ \ {x}, !.bad = TRUE]
            /\ UNCHANGED <<rows, box, budget>>
       ELSE LET n == x[1]
                s == x[2] IN
            \E ok \in BOOLEAN :
              /\ Call(s, ok)
              /\ IF ok /\ box[s][n] \in Target.from
                 THEN /\ box' = Set(s, n, Target.to)
                      /\ rows' = WithStatus(rows, x, Target.to)
                      /\ op' = [op EXCEPT !.todo = @ \ {x}]
                 ELSE /\ op' = [op EXCEPT !.todo = @ \ {x}, !.bad = TRUE]
                      /\ UNCHANGED <<rows, box>>
  /\ UNCHANGED <<app, srv, held, tick, waker, wake, runtime>>

(* finalize_state, unless a child failed                                   *)
OpFinalize ==
  /\ op.pc = "acting" /\ op.live /\ op.todo = {}
  /\ app' = IF op.bad THEN app
            ELSE [app EXCEPT !.st =
                   IF op.kind = "pause_app" THEN "paused"
                   ELSE IF rows = <<>> THEN "stopped"
                   ELSE IF \A i \in DOMAIN rows : rows[i].st = "running" THEN "running"
                   ELSE "unhealthy"]
  /\ OpEnds
  /\ UNCHANGED <<rows, box, srv, tick, waker, wake, runtime, budget>>

(* start_containers, which skips an app that is not recoverable any more   *)
OpWake ==
  /\ op.pc = "waking" /\ op.live /\ wake.pc = "idle"
  /\ IF Wakeable /\ app.bed # None
     THEN WakeBegins("op") /\ UNCHANGED op
     ELSE op' = [op EXCEPT !.pc = "woken"] /\ UNCHANGED <<app, wake>>
  /\ UNCHANGED <<rows, box, srv, held, tick, waker, runtime, budget>>

OpWoken ==
  /\ op.pc \in {"woken", "failed"} /\ op.live
  /\ OpEnds
  /\ UNCHANGED <<app, rows, box, srv, tick, waker, wake, runtime, budget>>

(* stop_and_remove_containers: removeContainer ignores its exit status     *)
OpRemove ==
  /\ op.pc = "removing" /\ op.live
  /\ IF op.todo = {}
     THEN op' = [op EXCEPT !.pc = "detaching"] /\ UNCHANGED <<box, budget>>
     ELSE \E x \in op.todo :
            /\ op' = [op EXCEPT !.todo = @ \ {x}]
            /\ IF x \notin Ids THEN UNCHANGED <<box, budget>>
               ELSE \E ok \in BOOLEAN :
                      /\ Call(x[2], ok)
                      /\ box' = IF ok THEN Set(x[2], x[1], NoContainer) ELSE box
  /\ UNCHANGED <<app, rows, srv, held, tick, waker, wake, runtime>>

(* delete_volume: the provider may refuse to detach                        *)
OpDetach ==
  /\ op.pc = "detaching" /\ op.live
  /\ \/ op' = [op EXCEPT !.pc = "deleting"] /\ UNCHANGED budget
     \/ /\ app.volume /\ budget.faults > 0
        /\ budget' = [budget EXCEPT !.faults = @ - 1]
        /\ op' = [op EXCEPT !.pc = "deleting", !.bad = TRUE]
  /\ UNCHANGED <<app, rows, box, srv, held, tick, waker, wake, runtime>>

(* delete_db_rows, gated on the steps before it                            *)
OpDelete ==
  /\ op.pc = "deleting" /\ op.live
  /\ IF op.bad
     THEN app' = [app EXCEPT !.st = "cleanup_failed"] /\ UNCHANGED rows
     ELSE app' = [app EXCEPT !.st = "gone", !.bed = None] /\ rows' = <<>>
  /\ OpEnds
  /\ UNCHANGED <<box, srv, tick, waker, wake, runtime, budget>>

OperationStep ==
  \/ QueueFinalizer \/ OpStart \/ OpResume \/ OpAct \/ OpFinalize
  \/ OpWake \/ OpWoken \/ OpRemove \/ OpDetach \/ OpDelete
=============================================================================
