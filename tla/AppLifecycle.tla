---------------------------- MODULE AppLifecycle ----------------------------
(***************************************************************************)
(* One app and everything that acts on it: the workloads controller, the   *)
(* waker, the app-runtime controller, the sweep and an operation, with     *)
(* servers that are lost, containers that die and a panel that crashes.    *)
(***************************************************************************)
EXTENDS AppScaling, AppOperations

(* reconcileServersAndNetwork finds a server unavailable, back, or gone at *)
(* the provider.  It takes the server's key only.                          *)
ServerLost ==
  /\ budget.faults > 0
  /\ \E s \in Server :
       /\ Ready(s)
       /\ srv' = [srv EXCEPT ![s] = "unavailable"]
       /\ rows' = [i \in DOMAIN rows |->
                    IF rows[i].on = s THEN [rows[i] EXCEPT !.st = "unhealthy"] ELSE rows[i]]
  /\ budget' = [budget EXCEPT !.faults = @ - 1]
  /\ UNCHANGED <<app, box, held, tick, waker, wake, runtime, op>>

ServerReturns ==
  /\ \E s \in Server : srv[s] = "unavailable" /\ srv' = [srv EXCEPT ![s] = "ready"]
  /\ UNCHANGED <<app, rows, box, held, tick, waker, wake, runtime, op, budget>>

ServerMissing ==
  /\ \E s \in Server :
       /\ srv[s] = "unavailable"
       /\ srv' = [srv EXCEPT ![s] = "missing"]
       /\ box' = [box EXCEPT ![s] = [n \in Name |-> NoContainer]]
  /\ UNCHANGED <<app, rows, held, tick, waker, wake, runtime, op, budget>>

ContainerDies ==
  /\ budget.faults > 0
  /\ \E s \in Server, n \in Name : box[s][n] = "running" /\ box' = Set(s, n, "stopped")
  /\ budget' = [budget EXCEPT !.faults = @ - 1]
  /\ UNCHANGED <<app, rows, srv, held, tick, waker, wake, runtime, op>>

(* The panel process dies: what is in memory is lost, the operation will   *)
(* be resumed.                                                             *)
Crash ==
  /\ budget.faults > 0
  /\ budget' = [budget EXCEPT !.faults = @ - 1]
  /\ held' = None /\ tick' = IdleTick /\ waker' = "idle" /\ wake' = IdleWake /\ runtime' = {}
  /\ op' = [op EXCEPT !.live = FALSE]
  /\ UNCHANGED <<app, rows, box, srv>>

(* A deployed app with one replica, attested for the current revision      *)
Init ==
  \E s \in Server, v \in BOOLEAN :
    /\ app = [st |-> "running", desired |-> 1, bed |-> None, volume |-> v,
              deleted |-> FALSE, recent |-> TRUE, rolled |-> TRUE]
    /\ rows = <<[name |-> 0, on |-> s, st |-> "running", match |-> TRUE, ticks |-> 0]>>
    /\ box = [x \in Server |-> [n \in Name |->
                IF x = s /\ n = 0 THEN "running" ELSE NoContainer]]
    /\ srv = [x \in Server |-> "ready"]
    /\ held = None /\ tick = IdleTick /\ waker = "idle" /\ wake = IdleWake
    /\ runtime = {} /\ op = NoOp
    /\ budget = [faults |-> MaxFaults, ops |-> MaxOps, edits |-> MaxEdits]

PanelStep == TickStep \/ WakingStep \/ OperationStep

Next ==
  \/ PanelStep
  \/ Enqueue \/ RequestWake \/ EditDesired \/ Quiet
  \/ ServerLost \/ ServerReturns \/ ServerMissing \/ ContainerDies \/ Crash

Spec == Init /\ [][Next]_vars

TypeOK ==
  /\ app \in AppRow
  /\ rows \in Seq(ReplicaRow)
  /\ box \in [Server -> [Name -> Container]]
  /\ srv \in [Server -> {"ready", "unavailable", "missing"}]
  /\ held \in {None, "tick", "waker", "runtime", "op"}
  /\ tick \in TickRow
  /\ waker \in {"idle", "locking", "waking"}
  /\ wake \in WakeRow
  /\ runtime \in SUBSET Replica
  /\ op \in OpRow
  /\ budget \in [faults: 0 .. MaxFaults, ops: 0 .. MaxOps, edits: 0 .. MaxEdits]
=============================================================================
