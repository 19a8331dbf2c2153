--------------------------- MODULE FleetPlacement ---------------------------
(***************************************************************************)
(* What puts apps on the servers of Fleet: the first deployment of an app  *)
(* (ops/deploy.ts) up to the replicas it adds, and the setup of one more   *)
(* replica (scale/scale-up.ts), for a deployment or for a migration.       *)
(* Every container of an app listens on the port of its first replica.     *)
(***************************************************************************)
EXTENDS Fleet

NextReplicaHostPort(s) ==
  IF RepsOn(s) = {} THEN FirstPort ELSE Max({r.port : r \in RepsOn(s)}) + 1

(* Ready servers of the pool, without those above the load threshold.      *)
Candidates(a) == {s \in Server : Usable(s) /\ Pool[s] = Pool[a]}

(* Mutant: only replicas are looked at, not what others have claimed.      *)
FreeOfReplicas(s, p) == \A r \in RepsOn(s) : r.port # p

PortFree(s, p) ==
  /\ \A r \in RepsOn(s) : r.port # p
  /\ \A h \in held : h.srv = s => h.port # p

(* Docker starts a container where its machine is and nothing else has the *)
(* port; one of the same name is removed first.                            *)
Squatter(s, c) == {b \in boxes : b.srv = s /\ b.app = c.app /\ b.n = c.n}
Startable(s, c) == Up(s) /\ \A b \in boxes \ Squatter(s, c) : b.srv = s => b.port # c.port
Started(s, c) == (boxes \ Squatter(s, c)) \cup {c}

(***************************************************************************)
(* deploy                                                                  *)
(***************************************************************************)
Deploy(a) ==
  /\ a \notin apps \cup Portable
  /\ Request(<<"deploy", a>>, "pick", {})
  /\ UNCHANGED <<tables, world, gc>>

(* A server the request names, or one of the pool; one of its own only if  *)
(* the pool has none.                                                      *)
PickServer(a) ==
  LET d == <<"deploy", a>>
  IN  /\ At(d, "pick", "start")
      /\ \/ \E s \in Server : Usable(s) /\ job' = [job EXCEPT ![d].at = "insert", ![d].srv = s]
         \/ Candidates(a) = {} /\ Goto(d, "row")
      /\ UNCHANGED <<tables, world, gc, budget>>

(* provisionServer: the placeholder goes in before the provider is asked.  *)
OwnRow(a) ==
  LET d == <<"deploy", a>>
      n == Own[a]
  IN  /\ At(d, "pick", "row")
      /\ job' = [job EXCEPT ![d].pc = IF row[n].known THEN "boot" ELSE "create", ![d].n = IF Here(n) THEN 1 ELSE 0]
      /\ row' = [row EXCEPT ![n] = IF Here(n) THEN @ ELSE [NoRow EXCEPT !.st = "creating"]]
      /\ UNCHANGED <<apps, reps, held, world, gc, budget>>

(* A machine found by name is adopted only under a row that was there      *)
(* before.                                                                 *)
OwnMachine(a) ==
  LET d == <<"deploy", a>>
      n == Own[a]
  IN  /\ At(d, "pick", "create")
      /\ CASE FoundByName(n) /\ job[d].n = 1 ->
                /\ row' = IF Here(n) THEN [row EXCEPT ![n].st = "provisioning", ![n].known = TRUE] ELSE row
                /\ Goto(d, "boot") /\ UNCHANGED <<machine, gc, budget>>
           [] FoundByName(n) /\ job[d].n # 1 ->
                row' = [row EXCEPT ![n] = NoRow] /\ Throw(d) /\ UNCHANGED <<machine, gc, budget>>
           [] OTHER -> CreateMachine(d, n, Goto(d, "boot"))
      /\ UNCHANGED <<apps, reps, held, boxes, vol>>

OwnReady(a) ==
  LET d == <<"deploy", a>>
      n == Own[a]
  IN  /\ At(d, "pick", "boot")
      /\ \/ /\ IF Up(n) /\ Here(n)
               THEN /\ row' = [row EXCEPT ![n].st = "ready"]
                    /\ job' = [job EXCEPT ![d].at = "insert", ![d].pc = "start", ![d].srv = n]
               ELSE Throw(d) /\ UNCHANGED row
            /\ UNCHANGED budget
         \/ Fault /\ Throw(d) /\ UNCHANGED row
      /\ UNCHANGED <<apps, reps, held, world, gc>>

(* The app, its first replica and its port, in one transaction.            *)
InsertApp(a) ==
  LET d == <<"deploy", a>>
      s == job[d].srv
      p == NextReplicaHostPort(s)
  IN  /\ At(d, "insert", "start")
      /\ \/ \E r \in RepsOf(a) :
              /\ r.n = 1 /\ r.srv = s
              /\ job' = [job EXCEPT ![d].at = "run", ![d].port = r.port]
              /\ UNCHANGED <<apps, reps, gc, budget>>
         \/ /\ Here(s) /\ a \notin apps
            /\ apps' = apps \cup {a}
            /\ reps' = reps \cup {Container(a, 1, s, p)}
            /\ \/ job' = [job EXCEPT ![d].at = "run", ![d].port = p] /\ UNCHANGED <<gc, budget>>
               \/ Dies
         \/ /\ IF a \in apps THEN ~\E r \in RepsOf(a) : r.n = 1 /\ r.srv = s ELSE ~Here(s)
            /\ Throw(d) /\ UNCHANGED <<apps, reps, gc, budget>>
      /\ UNCHANGED <<row, held, world>>

(* A container that runs already is adopted.                               *)
RunContainer(a) ==
  LET d == <<"deploy", a>>
      s == job[d].srv
      c == Container(a, 1, s, job[d].port)
  IN  /\ At(d, "run", "start")
      /\ IF c \in boxes \/ (Here(s) /\ Startable(s, c))
         THEN boxes' = Started(s, c) /\ Records(d, "health")
         ELSE Throw(d) /\ UNCHANGED <<boxes, gc, budget>>
      /\ UNCHANGED <<tables, machine, vol>>

(* The image does not start and what was created is removed, or the host   *)
(* falls silent in between.                                                *)
RunFails(a) ==
  LET d == <<"deploy", a>>
      s == job[d].srv
      c == Container(a, 1, s, job[d].port)
  IN  /\ At(d, "run", "start")
      /\ \/ Fault /\ boxes' = boxes \ Squatter(s, c)
         \/ HostSilent /\ Startable(s, c) /\ boxes' = Started(s, c)
      /\ Throw(d)
      /\ UNCHANGED <<tables, machine, vol, gc>>

(* health_check and record_deployment_history.                             *)
HealthCheck(a) ==
  LET d == <<"deploy", a>>
      c == Container(a, 1, job[d].srv, job[d].port)
  IN  /\ At(d, "health", "start")
      /\ \/ /\ IF c \in boxes /\ c \in reps /\ a \in apps THEN Step(d, "scale") ELSE Throw(d)
            /\ UNCHANGED budget
         \/ Fault /\ Throw(d)
      /\ UNCHANGED <<tables, world, gc>>

Missing(a) == Want[a] > Cardinality(RepsOf(a))

FinalizeDeploy(a) ==
  LET d == <<"deploy", a>>
  IN  /\ At(d, "scale", "start") /\ ~(a \in apps /\ Missing(a))
      /\ IF a \in apps /\ Want[a] = Cardinality(RepsOf(a)) THEN End(d, "done") ELSE Throw(d)
      /\ UNCHANGED <<tables, world, gc, budget>>

UndoRun(a) ==
  LET d == <<"deploy", a>>
  IN  /\ Undoes(d, "run")
      /\ \/ boxes' = boxes \ Squatter(job[d].srv, Container(a, 1, job[d].srv, job[d].port)) /\ UNCHANGED budget
         \/ HostSilent /\ UNCHANGED boxes
      /\ Undone(d)
      /\ UNCHANGED <<tables, machine, vol, gc>>

UndoInsert(a) ==
  /\ Undoes(<<"deploy", a>>, "insert")
  /\ apps' = apps \ {a}
  /\ reps' = reps \ RepsOf(a)
  /\ Undone(<<"deploy", a>>)
  /\ UNCHANGED <<row, held, world, gc, budget>>

UndoPick(a) ==
  LET d == <<"deploy", a>>
  IN  /\ Undoes(d, "pick")
      /\ row' = GcIfEmpty(row, reps, job[d].srv)
      /\ Undone(d)
      /\ UNCHANGED <<apps, reps, held, world, gc, budget>>

(***************************************************************************)
(* scaleUp: claim the port, start the container, probe it, insert its row. *)
(* d is a deployment that adds a replica or a migration to job[d].to.      *)
(***************************************************************************)
(* The first number after i whose name no replica of the app has.          *)
FreshName(a, i) ==
  Min({n \in (i + 1)..(i + 1 + Cardinality(RepsOf(a))) : \A r \in RepsOf(a) : r.n # n})

PrimaryPort(a, s) ==
  IF RepsOf(a) = {} THEN NextReplicaHostPort(s) ELSE (CHOOSE r \in RepsOf(a) : TRUE).port

Claim(d, s, p) == [srv |-> s, port |-> p, by |-> d]
Release(d) == held' = held \ {Claim(d, job[d].to, job[d].port)}

(* A server of the pool; none is provisioned without approval.  The claim  *)
(* throws before there is anything to clean up.                            *)
ReserveHostPort(a) ==
  LET d == <<"deploy", a>>
  IN  /\ At(d, "scale", "start") /\ a \in apps /\ Missing(a)
      /\ \/ \E s \in Candidates(a) :
              LET p == PrimaryPort(a, s)
              IN  IF PortFree(s, p)
                  THEN /\ held' = held \cup {Claim(d, s, p)}
                       /\ job' = [job EXCEPT ![d].pc = "place", ![d].to = s, ![d].port = p,
                                             ![d].new = FreshName(a, Cardinality(RepsOf(a)))]
                  ELSE Throw(d) /\ UNCHANGED held
         \/ Candidates(a) = {} /\ Throw(d) /\ UNCHANGED held
      /\ UNCHANGED <<row, apps, reps, world, gc, budget>>

NewContainer(d) == Container(d[2], job[d].new, job[d].to, job[d].port)
Removed(d) == boxes \ Squatter(job[d].to, NewContainer(d))

(* The container goes, if the host obeys, and so does the claim; then the  *)
(* caller has its error.                                                   *)
SetupFails(d, left, throws) ==
  /\ boxes' = left
  /\ row' = GcIfEmpty(row, reps, job[d].to)
  /\ Release(d) /\ throws
  /\ UNCHANGED <<apps, reps, machine, vol, gc>>

StartReplica(d, at, throws) ==
  /\ At(d, at, "place")
  /\ \/ /\ Startable(job[d].to, NewContainer(d))
        /\ boxes' = Started(job[d].to, NewContainer(d))
        /\ Goto(d, "probe")
        /\ UNCHANGED <<tables, machine, vol, gc, budget>>
     \/ /\ ~Startable(job[d].to, NewContainer(d))
        /\ SetupFails(d, Removed(d), throws) /\ UNCHANGED budget

(* The row goes in when the container answers, and with its claim goes.    *)
InsertReplica(d, at, goesOn, throws) ==
  /\ At(d, at, "probe")
  /\ \/ /\ NewContainer(d) \in boxes /\ d[2] \in apps /\ Here(job[d].to)
        /\ reps' = reps \cup {NewContainer(d)}
        /\ goesOn
        /\ UNCHANGED <<row, apps, world, gc, budget>>
     \/ /\ ~(NewContainer(d) \in boxes /\ d[2] \in apps /\ Here(job[d].to))
        /\ SetupFails(d, Removed(d), throws) /\ UNCHANGED budget
     \/ Fault /\ SetupFails(d, Removed(d), throws)
     \/ HostSilent /\ SetupFails(d, boxes, throws)

ScaleStarts(a) ==
  LET d == <<"deploy", a>> IN StartReplica(d, "scale", Throw(d))

ScaleInserts(a) ==
  LET d == <<"deploy", a>> IN InsertReplica(d, "scale", Release(d) /\ Goto(d, "start"), Throw(d))
=============================================================================
