------------------------------ MODULE AppState ------------------------------
(***************************************************************************)
(* The state that everything acting on one app shares: its row of `apps`,  *)
(* its rows of `replicas`, the containers on the servers, and the app's    *)
(* key in the scheduler's lock map.  The components that act on it are in  *)
(* AppScaling, AppWaking and AppOperations.                                *)
(*                                                                         *)
(* Each action runs to the next await of its component; a call to a server *)
(* takes effect in the action that follows it.  `faults` bounds the calls  *)
(* that fail on a ready server, container deaths, outages and crashes.     *)
(***************************************************************************)
EXTENDS Integers, Sequences, FiniteSets

CONSTANTS
  Server,       \* app servers, the panel left out
  MaxReplicas,  \* the app's max_replicas
  MaxName,      \* bound: container names 0 .. MaxName
  MaxFaults,    \* bound
  MaxOps,       \* bound: operations an operator enqueues
  MaxEdits,     \* bound: changes of desired_replicas by autoscaler and users
  None

ASSUME AppAssumption ==
  /\ None \notin Server /\ IsFiniteSet(Server)
  /\ None \notin {"tick", "waker", "runtime", "op"}
  /\ MaxReplicas \in Nat \ {0} /\ MaxName \in Nat \ {0}
  /\ MaxFaults \in Nat /\ MaxOps \in Nat /\ MaxEdits \in Nat

(* 0 is the container `<app>` of a deployment or a wake, n is `<app>-r<n>`.*)
Name == 0 .. MaxName

(* The identity of a row of `replicas`: no two on one server share a name, *)
(* while a name may be used on two servers, when an app that slept on one  *)
(* wakes before a lost one is forgotten.                                   *)
Replica == Name \X Server

AppStatus == {"running", "unhealthy", "sleeping", "waking", "paused", "stopped",
              "error", "destroying", "cleanup_failed", "gone"}
ReplicaStatus == {"running", "unhealthy", "attesting", "divergent", "draining",
                  "stopped", "paused"}

(*   bed      sleeping_server_id and sleeping_host_port                    *)
(*   volume   the app has a cloud volume, mounted by each of its containers*)
(*   deleted  deletion_requested_at is set                                 *)
(*   recent   last_request_at is within scale_to_zero_after                *)
(*   rolled   the deployed config_revision is the app's                    *)
AppRow == [st: AppStatus, desired: 0 .. MaxName + 1, bed: Server \cup {None},
           volume: BOOLEAN, deleted: BOOLEAN, recent: BOOLEAN, rolled: BOOLEAN]

(* `match`: attested without error, for the image, the environment and the *)
(* config_revision the app has now.                                        *)
ReplicaRow == [name: Name, on: Server, st: ReplicaStatus, match: BOOLEAN,
               ticks: 0 .. 2]

VARIABLES
  app,
  rows,     \* replicas, ORDER BY created_at ASC
  box,      \* box[s][n]: the container of that name on that server
  srv,      \* servers.status, and whether the provider still has the server
  held,     \* who holds the key app:<id>
  tick,     \* the workloads controller
  waker,    \* sharedWake: the one wake in flight for connections
  wake,     \* wakeApp, called by the waker or by an operation
  runtime,  \* the app-runtime controller
  op,       \* the operation on the app, at most one
  budget

vars == <<app, rows, box, srv, held, tick, waker, wake, runtime, op, budget>>

NoContainer == "none"
Container == {NoContainer, "running", "stopped", "paused"}

Present == app.st # "gone"
Id(r) == <<r.name, r.on>>
RowOf(x) == CHOOSE i \in DOMAIN rows : Id(rows[i]) = x
Ready(s) == srv[s] = "ready"
Current == {i \in DOMAIN rows : Ready(rows[i].on)}
IdsOf(I) == {Id(rows[i]) : i \in I}
Ids == IdsOf(DOMAIN rows)

(* db.updateReplicaStatus and its relatives on the row x, if it is there.  *)
WithStatus(rs, x, st) ==
  [i \in DOMAIN rs |-> IF Id(rs[i]) = x THEN [rs[i] EXCEPT !.st = st] ELSE rs[i]]
(* The k-th of the indices I in the order `before`.                        *)
Ranked(I, before(_, _), k) ==
  CHOOSE i \in I : Cardinality({j \in I : before(j, i)}) = k - 1
Earlier(i, j) == i < j
Without(rs, ids) ==
  LET kept == {i \in DOMAIN rs : Id(rs[i]) \notin ids}
  IN [k \in 1 .. Cardinality(kept) |-> rs[Ranked(kept, Earlier, k)]]
NewRow(n, s, st) == [name |-> n, on |-> s, st |-> st, match |-> FALSE, ticks |-> 0]

(* recordReplicaAttestation *)
Attested(rs, x, ok, current) ==
  [i \in DOMAIN rs |->
     IF Id(rs[i]) = x
     THEN [rs[i] EXCEPT !.st = IF ok THEN "running" ELSE "divergent", !.match = ok /\ current]
     ELSE rs[i]]

(* updateAppScaling with desired_replicas, and the trigger that any UPDATE *)
(* of that column fires, apps_bump_config_revision: no deployment and no   *)
(* attestation is of the app's revision any more.                          *)
WithDesired(a, d) == [a EXCEPT !.desired = d, !.rolled = FALSE]
Outdated(rs) == [i \in DOMAIN rs |-> [rs[i] EXCEPT !.match = FALSE]]

(* A remote call on s: it fails when the server is down, and may fail once *)
(* on a ready one.                                                         *)
Call(s, ok) ==
  IF Ready(s)
  THEN \/ ok /\ UNCHANGED budget
       \/ ~ok /\ budget.faults > 0 /\ budget' = [budget EXCEPT !.faults = @ - 1]
  ELSE ~ok /\ UNCHANGED budget

Set(s, n, c) == [box EXCEPT ![s][n] = c]

(* ordering of scaleDown: those that do not run first, then the newest     *)
Sooner(i, j) ==
  \/ rows[i].st # "running" /\ rows[j].st = "running"
  \/ (rows[i].st = "running") = (rows[j].st = "running") /\ i > j

(* buildUpstreams *)
Upstreams == {i \in DOMAIN rows : rows[i].st \in {"running", "unhealthy"}}
=============================================================================
