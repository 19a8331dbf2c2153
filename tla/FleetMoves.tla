----------------------------- MODULE FleetMoves -----------------------------
(***************************************************************************)
(* The migration of a replica, with or without a volume (ops/migrate.ts    *)
(* and scale/migrate.ts), and with it all that happens to the fleet.       *)
(*                                                                         *)
(* A migration has no compensation: what throws after a volume migration   *)
(* began to stop the container is rolled back inside the step.             *)
(***************************************************************************)
EXTENDS FleetPlacement

HasVolume(m) == vol[m[2]] # None
(* The replica that moves, as its row has it.                              *)
Source(m) == Container(m[2], job[m].n, job[m].srv, job[m].port)

Migrate(a, r, s) ==
  LET m == <<"migrate", a>>
  IN  /\ r \in RepsOf(a) /\ s \in Server
      /\ m[1] \in Submittable /\ job[m].st = "idle" /\ budget.requests > 0 /\ ~Locked(a)
      /\ budget' = [budget EXCEPT !.requests = @ - 1]
      /\ job' = [job EXCEPT ![m] = [NoJob EXCEPT !.st = "running", !.at = "validate", !.lock = {a},
                                                 !.srv = r.srv, !.n = r.n, !.port = r.port, !.to = s]]
      /\ UNCHANGED <<tables, world, gc>>

(* load_and_validate and preflight_image.                                  *)
LoadAndValidate(a) ==
  LET m == <<"migrate", a>>
  IN  /\ At(m, "validate", "start")
      /\ IF Source(m) \in reps /\ Usable(job[m].to) /\ job[m].srv # job[m].to
         THEN Step(m, "perform") ELSE End(m, "failed")
      /\ UNCHANGED <<tables, world, gc, budget>>

OnTarget(m) == {r \in RepsOf(m[2]) : r.srv = job[m].to}

(* The probe of a retry: the replica is gone, and one is on the target.    *)
AlreadyMigrated(m) ==
  /\ Source(m) \notin reps /\ OnTarget(m) # {}
  /\ vol[m[2]] \in {None, job[m].to}

MigrateReplica(a) ==
  LET m == <<"migrate", a>>
  IN  /\ At(m, "perform", "start")
      /\ CASE Usable(job[m].to) /\ AlreadyMigrated(m) -> Step(m, "verify") /\ UNCHANGED held
           [] Usable(job[m].to) /\ Source(m) \in reps /\ PortFree(job[m].to, job[m].port) ->
                /\ held' = held \cup {Claim(m, job[m].to, job[m].port)}
                /\ job' = [job EXCEPT ![m].pc = "preflight",
                                      ![m].new = FreshName(a, Cardinality(RepsOf(a)))]
           [] OTHER -> End(m, "failed") /\ UNCHANGED held
      /\ UNCHANGED <<row, apps, reps, world, gc, budget>>

(* Nothing may publish the port on the target, but what a former attempt   *)
(* left under the name the new replica is expected to get; the volume, if  *)
(* there is one, is found at the source, or detached or on the target by a *)
(* former attempt.                                                         *)
PortPreflight(a) ==
  LET m == <<"migrate", a>>
      others == {b \in boxes : b.srv = job[m].to /\ b.port = job[m].port
                               /\ ~(b.app = a /\ b.n = Cardinality(RepsOf(a)) + 1)}
  IN  /\ At(m, "perform", "preflight")
      /\ \/ /\ Up(job[m].to) /\ others = {}
            /\ Goto(m, IF HasVolume(m) THEN "stop" ELSE "place")
            /\ UNCHANGED <<held, budget>>
         \/ /\ (~(Up(job[m].to) /\ others = {}) /\ UNCHANGED budget) \/ Fault
            /\ Release(m) /\ End(m, "failed")
      /\ UNCHANGED <<row, apps, reps, world, gc>>

(* The container is stopped where it is; a host that does not answer       *)
(* passes for one where it is gone.                                        *)
StopSource(a) ==
  LET m == <<"migrate", a>>
  IN  /\ At(m, "perform", "stop")
      /\ \/ boxes' = boxes \ {Source(m)} /\ UNCHANGED budget
         \/ HostSilent /\ UNCHANGED boxes
      /\ Goto(m, CASE vol[a] = job[m].to -> "place" [] vol[a] = "free" -> "attach" [] OTHER -> "detach")
      /\ UNCHANGED <<tables, machine, vol, gc>>

(* Mutant: an error ends the step before anything is rolled back.          *)
NotRolledBack(m) == End(m, "failed")

(* What the step throws: the claim goes, and with a volume the rollback    *)
(* begins.                                                                 *)
MigrationThrows(m) == IF HasVolume(m) THEN Goto(m, "back") ELSE End(m, "failed")

DetachVolume(a) ==
  LET m == <<"migrate", a>>
  IN  /\ At(m, "perform", "detach")
      /\ \/ vol' = [vol EXCEPT ![a] = "free"] /\ Goto(m, "attach") /\ UNCHANGED <<held, budget>>
         \/ Fault /\ MigrationThrows(m) /\ Release(m) /\ UNCHANGED vol
      /\ UNCHANGED <<row, apps, reps, machine, boxes, gc>>

(* What cannot be attached to the target is attached to the source again;  *)
(* an attached volume may fail to mount.                                   *)
AttachVolume(a) ==
  LET m == <<"migrate", a>>
  IN  /\ At(m, "perform", "attach")
      /\ \/ /\ Up(job[m].to) /\ vol' = [vol EXCEPT ![a] = job[m].to]
            /\ \/ Goto(m, "place") /\ UNCHANGED <<held, budget>>
               \/ Fault /\ MigrationThrows(m) /\ Release(m)
         \/ /\ (~Up(job[m].to) /\ UNCHANGED budget) \/ Fault
            /\ vol' = [vol EXCEPT ![a] = IF Up(job[m].srv) THEN job[m].srv ELSE @]
            /\ MigrationThrows(m) /\ Release(m)
      /\ UNCHANGED <<row, apps, reps, machine, boxes, gc>>

(* Phase D; a replica that a former attempt left on the target would hold  *)
(* the port, so none is found here.                                        *)
StartOnTarget(a) ==
  LET m == <<"migrate", a>> IN StartReplica(m, "perform", MigrationThrows(m))

(* The claim is kept until the migration ends.                             *)
InsertOnTarget(a) ==
  LET m == <<"migrate", a>>
  IN  InsertReplica(m, "perform", Goto(m, "drop") /\ UNCHANGED held, MigrationThrows(m))

(* The old replica's row goes; a stateless one was running until now, and  *)
(* nobody looks whether its host did stop it.                              *)
DropSource(a) ==
  LET m == <<"migrate", a>>
  IN  /\ At(m, "perform", "drop")
      /\ \/ boxes' = (IF HasVolume(m) THEN boxes ELSE boxes \ {Source(m)}) /\ UNCHANGED budget
         \/ ~HasVolume(m) /\ HostSilent /\ UNCHANGED boxes
      /\ reps' = reps \ {Source(m)}
      /\ Goto(m, "sync")
      /\ UNCHANGED <<row, apps, held, machine, vol, gc>>

(* syncAppIngress throws when the panel's config cannot be written.        *)
SyncMoved(a) ==
  LET m == <<"migrate", a>>
  IN  /\ At(m, "perform", "sync")
      /\ \/ row' = GcIfEmpty(row, reps, job[m].srv) /\ Step(m, "verify") /\ UNCHANGED budget
         \/ Fault /\ MigrationThrows(m) /\ UNCHANGED row
      /\ Release(m)
      /\ UNCHANGED <<apps, reps, world, gc>>

(* rollbackMigrateWithVolume: the volume goes back and the container is    *)
(* started again, each if it can be.                                       *)
RollBack(a) ==
  LET m == <<"migrate", a>>
      src == job[m].srv
  IN  /\ At(m, "perform", "back")
      /\ vol' = [vol EXCEPT ![a] = IF Up(src) THEN src ELSE "free"]
      /\ boxes' = IF Startable(src, Source(m)) THEN Started(src, Source(m)) ELSE boxes
      /\ End(m, "failed")
      /\ UNCHANGED <<tables, machine, gc, budget>>

(* A call of the rollback fails, which is only logged.                     *)
RollBackFails(a) ==
  LET m == <<"migrate", a>>
      src == job[m].srv
  IN  /\ At(m, "perform", "back") /\ Fault
      /\ \/ UNCHANGED vol
         \/ vol' = [vol EXCEPT ![a] = "free"]
         \/ Up(src) /\ vol' = [vol EXCEPT ![a] = src]
      /\ \/ UNCHANGED boxes
         \/ vol'[a] # src /\ Startable(src, Source(m)) /\ boxes' = Started(src, Source(m))
      /\ job' = [job EXCEPT ![m].st = "failed", ![m].lock = {}, ![m].sure = FALSE]
      /\ UNCHANGED <<tables, machine, gc>>

(* verify_replica_healthy to gc_empty_servers.                             *)
VerifyMoved(a) ==
  LET m == <<"migrate", a>>
      fine == \E r \in OnTarget(m) : r \in boxes
  IN  /\ At(m, "verify", "start")
      /\ \/ /\ fine /\ End(m, "done") /\ row' = GcIfEmpty(row, reps, job[m].srv) /\ UNCHANGED budget
         \/ ((~fine /\ UNCHANGED budget) \/ Fault) /\ End(m, "failed") /\ UNCHANGED row
      /\ UNCHANGED <<apps, reps, held, world, gc>>

(***************************************************************************)
(* The specification                                                       *)
(***************************************************************************)
Provisions(n) ==
  \/ ProvisionServer(n)
  \/ job[<<"provision", n>>].st # "idle" /\
       (InsertServerRow(n) \/ CreateCloudServer(n) \/ BootServer(n) \/ BootFails(n) \/ MarkReady(n)
        \/ UndoCreate(n) \/ UndoCreateFails(n) \/ UndoRow(n))

Destroys(s) ==
  \/ DestroyServer(s)
  \/ job[<<"destroy", s>>].st = "running" /\
       (ListApps(s) \/ ChildrenOver(s) \/ DeleteCloudServer(s) \/ DeleteCloudServerFails(s)
        \/ DeleteServerRows(s) \/ \E a \in App : ChildDestroys(s, a) \/ ChildEnds(s, a))

Collects(s) == GcChecks(s) \/ GcDeletes(s) \/ GcFails(s) \/ GcForgets(s)

Deploys(a) ==
  \/ Deploy(a)
  \/ job[<<"deploy", a>>].st = "running" /\
       (PickServer(a) \/ OwnRow(a) \/ OwnMachine(a) \/ OwnReady(a) \/ InsertApp(a) \/ RunContainer(a)
        \/ RunFails(a) \/ HealthCheck(a) \/ ReserveHostPort(a) \/ ScaleStarts(a) \/ ScaleInserts(a)
        \/ FinalizeDeploy(a))
  \/ job[<<"deploy", a>>].st = "undoing" /\ (UndoRun(a) \/ UndoInsert(a) \/ UndoPick(a))

Moves(a) ==
  \/ \E r \in reps, s \in Server : Migrate(a, r, s)
  \/ job[<<"migrate", a>>].st = "running" /\
       (LoadAndValidate(a) \/ MigrateReplica(a) \/ PortPreflight(a) \/ StopSource(a) \/ DetachVolume(a)
        \/ AttachVolume(a) \/ StartOnTarget(a) \/ InsertOnTarget(a) \/ DropSource(a) \/ SyncMoved(a)
        \/ RollBack(a) \/ RollBackFails(a) \/ VerifyMoved(a))

Next ==
  \/ Crash
  \/ \E s \in Server : Provisions(s) \/ Destroys(s) \/ Collects(s)
  \/ \E a \in App : Deploys(a) \/ Moves(a) \/ DestroyRequested(a)

Spec == FleetInit /\ [][Next]_vars
=============================================================================
