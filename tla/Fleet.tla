------------------------------- MODULE Fleet -------------------------------
(***************************************************************************)
(* The servers of the fleet and the rows that say what is on them: the     *)
(* provisioning of servers (ops/provision-server.ts, and the helper        *)
(* provision-server.ts inside a deployment), their deletion on request     *)
(* (ops/destroy-server.ts) and by the collector of empty servers           *)
(* (infrastructure-reconciler.ts), and the destruction of apps.            *)
(*                                                                         *)
(* A server's row and its machine at the provider have the same name; the  *)
(* name of a new one carries the number of the operation, so no two        *)
(* operations share one.  All servers are managed, none is the panel's or  *)
(* a build worker's.  An operation is enqueued and begins in one step.     *)
(***************************************************************************)
EXTENDS Naturals, FiniteSets, Sequences, FiniteSetsExt

CONSTANTS
  App, Server,
  Old,          \* the servers that are ready in the beginning
  Own,          \* the server a deployment of an app would provision
  Pool,         \* the capacity pool of each server and app
  Want,         \* the replicas each app asks for
  Home,         \* the server of each app that is deployed in the beginning
  Portable,     \* those of them that have a portable volume
  Submittable,  \* the kinds of operation that are requested
  None,
  MaxFaults,    \* crashes and calls that fail, hang or lose their answer
  MaxRequests   \* operations and destructions requested

ASSUME FleetAssumption ==
  /\ Old \subseteq Server /\ None \notin Server \cup {"free"}
  /\ Own \in [App -> Server] /\ Want \in [App -> Nat]
  /\ \A a, b \in App : Own[a] \notin Old /\ (Own[a] = Own[b] => a = b)
  /\ DOMAIN Home \subseteq App /\ \A a \in DOMAIN Home : Home[a] \in Old
  /\ Portable \subseteq DOMAIN Home
  /\ MaxFaults \in Nat /\ MaxRequests \in Nat

VARIABLES
  row,       \* the rows of servers
  machine,   \* how many machines the provider has under each name
  apps,      \* the apps that have a row
  reps,      \* the rows of replicas
  boxes,     \* the containers, on whatever machine
  held,      \* the rows of port_reservations
  vol,       \* where the provider has the volume of a portable app
  job,       \* the operations, one of a kind for each subject
  gc,        \* what the collector is doing about a server
  budget     \* what is left of faults and requests; silent: a host that did
             \* not answer was taken to have done what it was asked

vars == <<row, machine, apps, reps, boxes, held, vol, job, gc, budget>>
world == <<machine, boxes, vol>>
tables == <<row, apps, reps, held>>

FirstPort == 1

(* A container is of a replica of an app, and has its name and its port.   *)
Container(a, n, s, p) == [app |-> a, n |-> n, srv |-> s, port |-> p]

NoRow == [st |-> "none", known |-> FALSE, gc |-> FALSE]
Slot == ({"deploy", "migrate"} \X App) \cup ({"provision", "destroy"} \X Server)
NoJob == [st |-> "idle", at |-> "none", pc |-> "start", lock |-> {}, srv |-> None, to |-> None,
          port |-> 0, n |-> 0, new |-> 0, kids |-> {}, left |-> <<>>, sure |-> TRUE]

FleetInit ==
  LET first == {Container(a, 1, Home[a], FirstPort) : a \in DOMAIN Home}
  IN  /\ row = [s \in Server |-> IF s \in Old THEN [st |-> "ready", known |-> TRUE, gc |-> FALSE] ELSE NoRow]
      /\ machine = [s \in Server |-> IF s \in Old THEN 1 ELSE 0]
      /\ apps = DOMAIN Home /\ reps = first /\ boxes = first /\ held = {}
      /\ vol = [a \in App |-> IF a \in Portable THEN Home[a] ELSE None]
      /\ job = [s \in Slot |-> NoJob] /\ gc = [s \in Server |-> "idle"]
      /\ budget = [faults |-> MaxFaults, requests |-> MaxRequests, silent |-> FALSE]

Here(s) == row[s].st # "none"
Usable(s) == row[s].st = "ready"
Up(s) == machine[s] > 0
RepsOn(s) == {r \in reps : r.srv = s}
RepsOf(a) == {r \in reps : r.app = a}
BoxesOf(a) == {b \in boxes : b.app = a}

(***************************************************************************)
(* Operations                                                              *)
(***************************************************************************)
At(s, step, pc) == job[s].st = "running" /\ job[s].at = step /\ job[s].pc = pc
InFlight(s) == job[s].st \in {"running", "undoing"}
Locked(k) == (\E s \in Slot : InFlight(s) /\ k \in job[s].lock) \/ (k \in Server /\ gc[k] # "idle")

Request(s, at, lock) ==
  /\ s[1] \in Submittable /\ job[s].st = "idle" /\ budget.requests > 0
  /\ \A k \in lock : ~Locked(k)
  /\ budget' = [budget EXCEPT !.requests = @ - 1]
  /\ job' = [job EXCEPT ![s] = [NoJob EXCEPT !.st = "running", !.at = at, !.lock = lock]]

Fault == budget.faults > 0 /\ budget' = [budget EXCEPT !.faults = @ - 1]
HostSilent == budget.faults > 0 /\ budget' = [budget EXCEPT !.faults = @ - 1, !.silent = TRUE]

Goto(s, pc) == job' = [job EXCEPT ![s].pc = pc]
Step(s, at) == job' = [job EXCEPT ![s].at = at, ![s].pc = "start"]
End(s, st) == job' = [job EXCEPT ![s].st = st, ![s].lock = {}]

(* Mutant: the container is not undone when a later step fails.            *)
CompletedButRun(s) ==
  CASE s[1] = "provision" /\ job[s].at = "create" -> <<"row">>
    [] s[1] = "provision" /\ job[s].at \in {"boot", "ready"} -> <<"create", "row">>
    [] s[1] = "deploy" /\ job[s].at = "insert" -> <<"pick">>
    [] s[1] = "deploy" /\ job[s].at \in {"run", "health", "scale"} -> <<"insert", "pick">>
    [] OTHER -> <<>>

(* The completed steps of an operation that have something to undo, the    *)
(* last one first.                                                         *)
Completed(s) ==
  CASE s[1] = "provision" /\ job[s].at = "create" -> <<"row">>
    [] s[1] = "provision" /\ job[s].at \in {"boot", "ready"} -> <<"create", "row">>
    [] s[1] = "deploy" /\ job[s].at = "insert" -> <<"pick">>
    [] s[1] = "deploy" /\ job[s].at = "run" -> <<"insert", "pick">>
    [] s[1] = "deploy" /\ job[s].at \in {"health", "scale"} -> <<"run", "insert", "pick">>
    [] OTHER -> <<>>

Throw(s) ==
  IF Completed(s) = <<>> THEN End(s, "failed")
  ELSE job' = [job EXCEPT ![s].st = "undoing", ![s].left = Completed(s)]

Undoes(s, step) == job[s].st = "undoing" /\ Head(job[s].left) = step
Undone(s) ==
  IF Len(job[s].left) = 1 THEN End(s, "compensated")
  ELSE job' = [job EXCEPT ![s].left = Tail(@)]

(* The panel dies: a step begins again, a collection is forgotten.         *)
Dies ==
  /\ Fault
  /\ job' = [s \in Slot |-> IF InFlight(s) THEN [job[s] EXCEPT !.pc = "start", !.sure = FALSE] ELSE job[s]]
  /\ gc' = [s \in Server |-> "idle"]

Crash ==
  /\ \E s \in Slot : InFlight(s)
  /\ Dies
  /\ UNCHANGED <<tables, world>>

(* What a step did is done; the engine may die before it records that.     *)
Records(s, at) ==
  \/ Step(s, at) /\ UNCHANGED <<gc, budget>>
  \/ Dies

(***************************************************************************)
(* Machines                                                                *)
(***************************************************************************)
(* What is on a machine goes with it; block volumes stay.                  *)
Demolish(s) ==
  /\ machine' = [machine EXCEPT ![s] = 0]
  /\ boxes' = {b \in boxes : b.srv # s}
  /\ vol' = [a \in App |-> IF vol[a] = s THEN "free" ELSE vol[a]]

(* Replicas and reservations go with the row of their server.              *)
Forget(s) ==
  /\ row' = [row EXCEPT ![s] = NoRow]
  /\ reps' = reps \ RepsOn(s)
  /\ held' = {h \in held : h.srv # s}

(* gcServerIfEmpty only records the wish, or takes it back.                *)
GcIfEmpty(rows, left, s) ==
  [rows EXCEPT ![s].gc = Here(s) /\ {r \in left : r.srv = s} = {}]

(* createServer under name n: done and recorded; done, and the engine dies *)
(* or the answer is lost; or refused.                                      *)
CreateMachine(s, n, goesOn) ==
  \/ /\ machine' = [machine EXCEPT ![n] = @ + 1]
     /\ \/ /\ row' = IF Here(n) THEN [row EXCEPT ![n].st = "provisioning", ![n].known = TRUE] ELSE row
           /\ goesOn /\ UNCHANGED <<gc, budget>>
        \/ Dies /\ UNCHANGED row
        \/ Fault /\ Throw(s) /\ UNCHANGED <<row, gc>>
  \/ Fault /\ Throw(s) /\ UNCHANGED <<row, machine, gc>>

(* Mutant: the provider is not asked whether the machine is there.         *)
NeverFound(n) == FALSE

(* listServers has a machine of that name, created before the engine died. *)
FoundByName(n) == machine[n] > 0

(***************************************************************************)
(* provision_server                                                        *)
(***************************************************************************)
ProvisionServer(n) ==
  /\ n \notin Old \cup {Own[a] : a \in App}
  /\ Request(<<"provision", n>>, "row", {"create-server"})
  /\ UNCHANGED <<tables, world, gc>>

InsertServerRow(n) ==
  /\ At(<<"provision", n>>, "row", "start")
  /\ row' = [row EXCEPT ![n] = IF Here(n) THEN @ ELSE [NoRow EXCEPT !.st = "creating"]]
  /\ Records(<<"provision", n>>, "create")
  /\ UNCHANGED <<apps, reps, held, world>>

(* A machine that the row knows, or that has its name, is adopted.         *)
CreateCloudServer(n) ==
  LET s == <<"provision", n>>
  IN  /\ At(s, "create", "start")
      /\ IF row[n].known \/ FoundByName(n)
         THEN /\ row' = IF Here(n) THEN [row EXCEPT ![n].st = "provisioning", ![n].known = TRUE] ELSE row
              /\ Step(s, "boot") /\ UNCHANGED <<machine, gc, budget>>
         ELSE CreateMachine(s, n, Step(s, "boot"))
      /\ UNCHANGED <<apps, reps, held, boxes, vol>>

(* waitForBoot to captureHostKey, then markReady.                          *)
BootServer(n) ==
  LET s == <<"provision", n>>
  IN  /\ At(s, "boot", "start")
      /\ IF Up(n) THEN Step(s, "ready") ELSE Throw(s)
      /\ UNCHANGED <<tables, world, gc, budget>>

BootFails(n) ==
  /\ At(<<"provision", n>>, "boot", "start") /\ Fault
  /\ Throw(<<"provision", n>>)
  /\ UNCHANGED <<tables, world, gc>>

MarkReady(n) ==
  /\ At(<<"provision", n>>, "ready", "start")
  /\ row' = IF Here(n) THEN [row EXCEPT ![n].st = "ready"] ELSE row
  /\ End(<<"provision", n>>, "done")
  /\ UNCHANGED <<apps, reps, held, world, gc, budget>>

UndoCreate(n) ==
  /\ Undoes(<<"provision", n>>, "create")
  /\ Demolish(n) /\ Undone(<<"provision", n>>)
  /\ UNCHANGED <<tables, gc, budget>>

(* The deletion throws: the operation ends, for an operator to look at.    *)
UndoCreateFails(n) ==
  /\ Undoes(<<"provision", n>>, "create") /\ Fault
  /\ End(<<"provision", n>>, "compensation_failed")
  /\ UNCHANGED <<tables, world, gc>>

UndoRow(n) ==
  /\ Undoes(<<"provision", n>>, "row")
  /\ Forget(n) /\ Undone(<<"provision", n>>)
  /\ UNCHANGED <<apps, world, gc, budget>>

(***************************************************************************)
(* destroy_app, in one step; a host that does not answer is no failure     *)
(* there.                                                                  *)
(***************************************************************************)
DestroyApp(a) ==
  /\ a \in apps /\ ~Locked(a)
  /\ boxes' = boxes \ BoxesOf(a)
  /\ apps' = apps \ {a}
  /\ reps' = reps \ RepsOf(a)
  /\ row' = [s \in Server |-> IF \E r \in RepsOf(a) : r.srv = s
                              THEN GcIfEmpty(row, reps \ RepsOf(a), s)[s] ELSE row[s]]
  /\ vol' = [vol EXCEPT ![a] = IF @ = None THEN None ELSE "free"]
  /\ UNCHANGED <<held, machine, gc>>

DestroyRequested(a) ==
  /\ "destroyApp" \in Submittable /\ budget.requests > 0
  /\ budget' = [budget EXCEPT !.requests = @ - 1]
  /\ DestroyApp(a) /\ UNCHANGED job

(***************************************************************************)
(* destroy_server                                                          *)
(***************************************************************************)
(* Its keys are the server's and those of the apps that are on it then.    *)
DestroyServer(s) ==
  /\ Here(s)
  /\ Request(<<"destroy", s>>, "list", {s} \cup {r.app : r \in RepsOn(s)})
  /\ UNCHANGED <<tables, world, gc>>

ListApps(s) ==
  LET d == <<"destroy", s>>
  IN  /\ At(d, "list", "start")
      /\ job' = [job EXCEPT ![d].at = "children", ![d].kids = {r.app : r \in RepsOn(s)}]
      /\ UNCHANGED <<tables, world, gc, budget>>

(* The child waits for the key of its app.                                 *)
ChildDestroys(s, a) ==
  LET d == <<"destroy", s>>
  IN  /\ At(d, "children", "start") /\ a \in job[d].kids
      /\ DestroyApp(a)
      /\ job' = [job EXCEPT ![d].kids = @ \ {a}]
      /\ UNCHANGED budget

(* A child that fails, or finds its app gone.                              *)
ChildEnds(s, a) ==
  LET d == <<"destroy", s>>
  IN  /\ At(d, "children", "start") /\ a \in job[d].kids /\ ~Locked(a)
      /\ \/ /\ a \notin apps
            /\ job' = [job EXCEPT ![d].kids = @ \ {a}] /\ UNCHANGED <<row, budget>>
         \/ /\ a \in apps /\ Fault
            /\ row' = [row EXCEPT ![s].st = IF Here(s) THEN "cleanup_failed" ELSE @]
            /\ End(d, "failed")
      /\ UNCHANGED <<apps, reps, held, world, gc>>

ChildrenOver(s) ==
  LET d == <<"destroy", s>>
  IN  /\ At(d, "children", "start") /\ job[d].kids = {}
      /\ Step(d, "cloud")
      /\ UNCHANGED <<tables, world, gc, budget>>

DeleteCloudServer(s) ==
  LET d == <<"destroy", s>>
  IN  /\ At(d, "cloud", "start")
      /\ IF row[s].known THEN Demolish(s) ELSE UNCHANGED world
      /\ Records(d, "rows")
      /\ UNCHANGED tables

(* The row is kept, and marked, when the provider did not delete.          *)
DeleteCloudServerFails(s) ==
  LET d == <<"destroy", s>>
  IN  /\ At(d, "cloud", "start") /\ row[s].known /\ Fault
      /\ row' = [row EXCEPT ![s].st = "cleanup_failed"]
      /\ End(d, "failed")
      /\ UNCHANGED <<apps, reps, held, world, gc>>

DeleteServerRows(s) ==
  /\ At(<<"destroy", s>>, "rows", "start")
  /\ Forget(s) /\ End(<<"destroy", s>>, "done")
  /\ UNCHANGED <<apps, world, gc, budget>>

(***************************************************************************)
(* reconcileServerGc                                                       *)
(***************************************************************************)
GcChecks(s) ==
  /\ Here(s) /\ row[s].gc /\ ~Locked(s)
  /\ IF RepsOn(s) = {} THEN gc' = [gc EXCEPT ![s] = "deleting"] /\ UNCHANGED row
     ELSE row' = [row EXCEPT ![s].gc = FALSE] /\ UNCHANGED gc
  /\ UNCHANGED <<apps, reps, held, world, job, budget>>

GcDeletes(s) ==
  /\ gc[s] = "deleting" /\ row[s].known
  /\ Demolish(s)
  /\ gc' = [gc EXCEPT ![s] = "deleted"]
  /\ UNCHANGED <<tables, job, budget>>

(* The provider fails, before or after the deletion.                       *)
GcFails(s) ==
  /\ gc[s] \in {"deleting", "deleted"} /\ row[s].known /\ Fault
  /\ gc' = [gc EXCEPT ![s] = "idle"]
  /\ UNCHANGED <<tables, world, job>>

(* Mutant: the row goes whatever the provider answered.                    *)
GcForgetsAnyway(s) == gc[s] # "idle"

GcMayForget(s) == gc[s] = "deleted"

GcForgets(s) ==
  /\ GcMayForget(s)
  /\ Forget(s)
  /\ gc' = [gc EXCEPT ![s] = "idle"]
  /\ UNCHANGED <<apps, world, job, budget>>
=============================================================================
