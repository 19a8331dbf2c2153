---------------------------- MODULE BuildLeases ----------------------------
(***************************************************************************)
(* Builds on shared workers: the lease table of                            *)
(* src/shared/db/build-worker-leases.ts, withWorker of                     *)
(* src/engine/build-coordinator.ts, the fail-over of                       *)
(* src/engine/build-failover.ts, the artifact and checkpoint tables of     *)
(* src/shared/db/build-artifacts.ts, and the build step of                 *)
(* src/engine/ops/build-delivery.ts and webhook-build-source.ts that ties  *)
(* them together, across restarts of the engine.                           *)
(*                                                                         *)
(* Time is what is left: a lease has `left` ticks to live, an observation  *)
(* of a worker is `age` ticks old.  An action is a segment between two     *)
(* awaits, or a transaction.                                               *)
(***************************************************************************)
EXTENDS Naturals, FiniteSets

CONSTANTS
  Op,          \* build operations; a retry by the operator is another one
  WebhookOps,  \* those of kind webhook_build_source
  Worker,
  Target,      \* the images one build pushes, named by their sort order
  Digest,      \* what a push may yield; builds need not be reproducible
  Ttl,         \* BUILD_LEASE_TTL_SECONDS
  MaxAge,      \* BUILD_OBSERVATION_MAX_AGE_SECONDS
  MaxCrashes,  \* bound: restarts of the engine
  None         \* no lease, no artifact, no worker

ASSUME BuildAssumption ==
  /\ WebhookOps \subseteq Op
  /\ Target \subseteq Nat
  /\ Target # {}
  /\ Ttl \in Nat \ {0}
  /\ MaxAge \in Nat
  /\ MaxCrashes \in Nat
  /\ None \notin Worker
  /\ None \notin [worker: Worker, digest: Digest]

VARIABLES
  status,      \* status[o]: live, built (step recorded) or over (terminal row)
  cancel,      \* the operations whose cancellation was requested
  runner,      \* runner[o]: where the build step of o is suspended
  workers,     \* build_workers: what the last observation found
  leases,      \* build_worker_leases, slot 0 of each worker
  artifacts,   \* build_artifacts
  checkpoint,  \* build_result_checkpoints: the worker recorded
  issued,      \* how many tokens exist
  newest,      \* history: the last token issued for each worker
  published,   \* history: the tokens whose result the step returned
  crashes      \* restarts so far, only counted to bound them

rows == <<status, cancel, artifacts, checkpoint>>
history == <<issued, newest, published>>
vars == <<rows, runner, workers, leases, history, crashes>>

(* `probing` and `working`: withWorker before and after it has its lease;   *)
(* `saved`: the checkpoint is written, the fence not yet passed.            *)
Lease == [op: Op, token: Nat, left: 0..Ttl]
Artifact == [worker: Worker, digest: Digest]
Runner == [pc: {"idle", "probing", "working", "saved"},  \* as said above
           task: {"build", "verify"},           \* step.run or step.probe
           attempt: 1..2, excluded: SUBSET Worker,
           asked: SUBSET Worker, candidates: SUBSET Worker,
           worker: Worker \cup {None}, token: Nat, lost: BOOLEAN,
           pushed: SUBSET Target]
Idle == [pc |-> "idle", task |-> "build", attempt |-> 1, excluded |-> {},
         asked |-> {}, candidates |-> {}, worker |-> None, token |-> 0,
         lost |-> FALSE, pushed |-> {}]

TypeOK ==
  /\ status \in [Op -> {"live", "built", "over"}]
  /\ cancel \subseteq Op
  /\ runner \in [Op -> Runner]
  /\ workers \in [Worker -> [online: BOOLEAN, roomy: BOOLEAN, age: 0..(MaxAge + 1)]]
  /\ leases \in [Worker -> Lease \cup {None}]
  /\ artifacts \in [Op -> [Target -> Artifact \cup {None}]]
  /\ checkpoint \in [Op -> Worker \cup {None}]
  /\ issued \in Nat
  /\ newest \in [Worker -> 0..issued]
  /\ published \subseteq 1..issued
  /\ crashes \in 0..MaxCrashes

Init ==
  /\ status = [o \in Op |-> "live"]
  /\ cancel = {}
  /\ runner = [o \in Op |-> Idle]
  /\ workers = [w \in Worker |-> [online |-> FALSE, roomy |-> FALSE, age |-> MaxAge + 1]]
  /\ leases = [w \in Worker |-> None]
  /\ artifacts = [o \in Op |-> [t \in Target |-> None]]
  /\ checkpoint = [o \in Op |-> None]
  /\ issued = 0
  /\ newest = [w \in Worker |-> 0]
  /\ published = {}
  /\ crashes = 0

-----------------------------------------------------------------------------
(* The lease table. *)

Leased(w) == leases[w] # None
OwnedBy(w, o) == Leased(w) /\ leases[w].op = o
Expired(w) == Leased(w) /\ leases[w].left = 0
Terminal(o) == status[o] = "over"

Eligible(w) == workers[w].online /\ workers[w].roomy /\ workers[w].age <= MaxAge

(* The rows the acquiring transaction first deletes: those of operations   *)
(* that are over ...                                                       *)
Reapable(w) == Leased(w) /\ Terminal(leases[w].op)

(* ... and, unless o goes on with the lease it has, those of o and every   *)
(* expired one.                                                            *)
(* Mutants: expired leases of others are kept; so is one's own. *)
StaleOwnOnly(w, o) == Reapable(w) \/ OwnedBy(w, o)
StaleOthersOnly(w, o) == Reapable(w) \/ Expired(w)
Stale(w, o) == Reapable(w) \/ OwnedBy(w, o) \/ Expired(w)

Without(gone) == [w \in Worker |-> IF w \in gone THEN None ELSE leases[w]]

Renewable(o, w) ==
  /\ OwnedBy(w, o)
  /\ ~Reapable(w)
  /\ ~Expired(w)
  /\ w \in runner[o].candidates
  /\ Eligible(w)

(* The workers whose slot o can take, once stale leases are gone. *)
Takeable(o) ==
  {w \in runner[o].candidates : Eligible(w) /\ (Leased(w) => Stale(w, o))}

(* heartbeatBuildWorkerLease and releaseBuildWorkerLease know a lease by   *)
(* its operation and token, whatever worker it is for.                     *)
Mine(o, w) == OwnedBy(w, o) /\ leases[w].token = runner[o].token
Holds(o) == \E w \in Worker : Mine(o, w) /\ ~Expired(w)
(* Mutant: the release, too, wants an unexpired lease. *)
ReleasedLive(o) == Without({w \in Worker : Mine(o, w) /\ ~Expired(w)})
Released(o) == Without({w \in Worker : Mine(o, w)})

(* randomUUID: a token nobody had. *)
Fresh == issued + 1

-----------------------------------------------------------------------------
(* The build step up to its lease. *)

(* withWorker asks every worker that is not excluded and whose server is   *)
(* ready.                                                                  *)
Asking(task, attempt, excluded, ready) ==
  [Idle EXCEPT !.pc = "probing", !.task = task, !.attempt = attempt,
     !.excluded = excluded, !.asked = ready \ excluded]

Recorded(o) == {t \in Target : artifacts[o][t] # None}

(* recoverBuild wants every target recorded; the webhook's probe also the  *)
(* checkpoint.                                                             *)
(* Mutant: part of the targets are enough. *)
RecoverableInPart(o) == Recorded(o) # {} /\ (o \in WebhookOps => checkpoint[o] # None)
Recoverable(o) == Recorded(o) = Target /\ (o \in WebhookOps => checkpoint[o] # None)

(* The engine starts or resumes o; cancellation is looked at first. *)
Start(o) ==
  /\ status[o] = "live"
  /\ runner[o].pc = "idle"
  /\ o \notin cancel
  /\ \E ready \in SUBSET Worker :
       runner' = [runner EXCEPT ![o] =
         Asking(IF Recoverable(o) THEN "verify" ELSE "build", 1, {}, ready)]
  /\ UNCHANGED <<rows, workers, leases, history, crashes>>

StartCancelled(o) ==
  /\ status[o] = "live"
  /\ runner[o].pc = "idle"
  /\ o \in cancel
  /\ status' = [status EXCEPT ![o] = "over"]
  /\ UNCHANGED <<cancel, artifacts, checkpoint, runner, workers, leases, history, crashes>>

(* One probe of the Promise.all answers: the row is updated, and the       *)
(* worker is a candidate if it is online and has the right architecture.   *)
Observe(o, w) ==
  /\ runner[o].pc = "probing"
  /\ w \in runner[o].asked
  /\ \E online, roomy, amd64 \in BOOLEAN :
       /\ workers' = [workers EXCEPT ![w] =
            [online |-> online, roomy |-> roomy, age |-> 0]]
       /\ runner' = [runner EXCEPT ![o].asked = @ \ {w},
            ![o].candidates = IF online /\ amd64 THEN @ \cup {w} ELSE @]
  /\ UNCHANGED <<rows, leases, history, crashes>>

Answered(o) == runner[o].pc = "probing" /\ runner[o].asked = {}

Holding(x, w, token) == [x EXCEPT !.pc = "working", !.worker = w, !.token = token]

(* tryAcquireBuildWorkerLease goes on with the lease o already has ...     *)
Renew(o, w) ==
  /\ Answered(o)
  /\ Renewable(o, w)
  /\ leases' = [Without({v \in Worker : Reapable(v)}) EXCEPT ![w].left = Ttl]
  /\ runner' = [runner EXCEPT ![o] = Holding(@, w, leases[w].token)]
  /\ UNCHANGED <<rows, workers, history, crashes>>

(* ... or takes the first slot in its order that is free (the order,       *)
(* affinity, free disk and last use, is left open) ...                     *)
Take(o, w) ==
  /\ Answered(o)
  /\ \A v \in Worker : ~Renewable(o, v)
  /\ w \in Takeable(o)
  /\ leases' = [Without({v \in Worker : Stale(v, o)}) EXCEPT
       ![w] = [op |-> o, token |-> Fresh, left |-> Ttl]]
  /\ issued' = Fresh
  /\ newest' = [newest EXCEPT ![w] = Fresh]
  /\ runner' = [runner EXCEPT ![o] = Holding(@, w, Fresh)]
  /\ UNCHANGED <<rows, workers, published, crashes>>

(* step.probe came to nothing: step.run starts from scratch. *)
FallThrough(o) ==
  \E ready \in SUBSET Worker :
    runner' = [runner EXCEPT ![o] = Asking("build", 1, {}, ready)]

(* The end of the build step; a step that throws ends the operation. *)
LeaveBuilt(o) ==
  /\ status' = [status EXCEPT ![o] = "built"]
  /\ runner' = [runner EXCEPT ![o] = Idle]
LeaveFailed(o) ==
  /\ status' = [status EXCEPT ![o] = "over"]
  /\ runner' = [runner EXCEPT ![o] = Idle]

(* withWorker throws: fatal to step.run, a fall-through in step.probe. *)
Throws(o) ==
  \/ runner[o].task = "verify" /\ FallThrough(o) /\ UNCHANGED status
  \/ runner[o].task = "build" /\ LeaveFailed(o)

(* ... or finds no capacity. *)
Refused(o) ==
  /\ Answered(o)
  /\ \A v \in Worker : ~Renewable(o, v)
  /\ Takeable(o) = {}
  /\ leases' = Without({v \in Worker : Stale(v, o)})
  /\ Throws(o)
  /\ UNCHANGED <<cancel, artifacts, checkpoint, workers, history, crashes>>

-----------------------------------------------------------------------------
(* The build step under its lease. *)

InTask(o, task) == runner[o].pc = "working" /\ runner[o].task = task

(* The interval: a lease that is gone, replaced or expired is lost for     *)
(* good.                                                                   *)
Heartbeat(o) ==
  /\ runner[o].pc = "working"
  /\ IF Holds(o)
     THEN /\ leases' = [w \in Worker |->
               IF Mine(o, w) THEN [leases[w] EXCEPT !.left = Ttl] ELSE leases[w]]
          /\ UNCHANGED runner
     ELSE /\ runner' = [runner EXCEPT ![o].lost = TRUE]
          /\ UNCHANGED leases
  /\ UNCHANGED <<rows, workers, history, crashes>>

(* assertMatchingIdentity against the checkpoint and the first artifact by *)
(* name; operation, repository and commit always match.                    *)
(* Mutant: only the target's own row is looked at. *)
SameBuildLoosely(o) == TRUE
First(o) == CHOOSE t \in Recorded(o) : \A u \in Recorded(o) : t <= u
SameBuild(o) ==
  /\ checkpoint[o] \in {None, runner[o].worker}
  /\ Recorded(o) # {} => artifacts[o][First(o)].worker = runner[o].worker

(* recordBuildArtifact. *)
(* Mutant: a replay overwrites the digest. *)
RecordableOver(o, t, a) ==
  /\ SameBuild(o)
  /\ artifacts[o][t] # None => artifacts[o][t].worker = a.worker
Recordable(o, t, a) ==
  /\ SameBuild(o)
  /\ artifacts[o][t] \in {None, a}

(* A target is pushed, its digest verified and recorded (onArtifact); a    *)
(* record that is refused makes the build throw.                           *)
Push(o, t, d) ==
  LET a == [worker |-> runner[o].worker, digest |-> d]
  IN  /\ InTask(o, "build")
      /\ t \notin runner[o].pushed
      /\ Recordable(o, t, a)
      /\ artifacts' = [artifacts EXCEPT ![o][t] = a]
      /\ runner' = [runner EXCEPT ![o].pushed = @ \cup {t}]
      /\ UNCHANGED <<status, cancel, checkpoint, workers, leases, history, crashes>>

PushRefused(o, t, d) ==
  /\ InTask(o, "build")
  /\ t \notin runner[o].pushed
  /\ ~Recordable(o, t, [worker |-> runner[o].worker, digest |-> d])
  /\ leases' = Released(o)
  /\ LeaveFailed(o)
  /\ UNCHANGED <<cancel, artifacts, checkpoint, workers, history, crashes>>

(* The build or the verification throws, at any await; the lease is        *)
(* released in the finally.                                                *)
BuildThrows(o) ==
  /\ runner[o].pc = "working"
  /\ leases' = Released(o)
  /\ Throws(o)
  /\ UNCHANGED <<cancel, artifacts, checkpoint, workers, history, crashes>>

(* withBuildFailover: the worker disconnected, timed out, or was busy with *)
(* another process.                                                        *)
(* Mutant: a build that left artifacts fails over too. *)
FailsOverAnyway(o) == runner[o].attempt < 2 /\ o \notin cancel
FailsOver(o) ==
  /\ runner[o].attempt < 2
  /\ o \notin cancel
  /\ Recorded(o) = {}

Unavailable(o) ==
  /\ InTask(o, "build")
  /\ FailsOver(o)
  /\ leases' = Released(o)
  /\ \E ready \in SUBSET Worker :
       runner' = [runner EXCEPT ![o] = Asking("build", 2, {runner[o].worker}, ready)]
  /\ UNCHANGED <<rows, workers, history, crashes>>

(* The last look at the lease before the result is used. *)
(* Mutant: the result is used without looking. *)
FenceOpen(o) == TRUE
Fence(o) == ~runner[o].lost /\ Holds(o)

Publishes(o) ==
  /\ published' = published \cup {runner[o].token}
  /\ UNCHANGED <<issued, newest>>
  /\ LeaveBuilt(o)

(* Every target is pushed: the checkpoint is saved ... *)
SaveCheckpoint(o) ==
  /\ InTask(o, "build")
  /\ runner[o].pushed = Target
  /\ SameBuild(o)
  /\ checkpoint' = [checkpoint EXCEPT ![o] = runner[o].worker]
  /\ runner' = [runner EXCEPT ![o].pc = "saved"]
  /\ UNCHANGED <<status, cancel, artifacts, workers, leases, history, crashes>>

(* ... and the lease confirmed and released; a loss is fatal to the step.  *)
BuildReturns(o) ==
  /\ runner[o].pc = "saved"
  /\ leases' = Released(o)
  /\ \/ Fence(o) /\ Publishes(o)
     \/ ~Fence(o) /\ LeaveFailed(o) /\ UNCHANGED history
  /\ UNCHANGED <<cancel, artifacts, checkpoint, workers, crashes>>

(* Every recorded digest is in the registry: the lease is confirmed, or    *)
(* lost.  A digest that is gone is a BuildThrows: step.run builds again.   *)
Verified(o) ==
  /\ InTask(o, "verify")
  /\ leases' = Released(o)
  /\ \/ Fence(o) /\ Publishes(o)
     \/ ~Fence(o) /\ FallThrough(o) /\ UNCHANGED <<status, history>>
  /\ UNCHANGED <<cancel, artifacts, checkpoint, workers, crashes>>

-----------------------------------------------------------------------------
(* What happens around the builds. *)

(* requestCancel. *)
Cancel(o) ==
  /\ status[o] = "live"
  /\ cancel' = cancel \cup {o}
  /\ UNCHANGED <<status, artifacts, checkpoint, runner, workers, leases, history, crashes>>

(* A forced finalization races a resumed run: its row is over, its runner  *)
(* is not.                                                                 *)
Finalize(o) ==
  /\ status[o] = "live"
  /\ status' = [status EXCEPT ![o] = "over"]
  /\ UNCHANGED <<cancel, artifacts, checkpoint, runner, workers, leases, history, crashes>>

(* handleGetBuildWorkers probes too, but does not record the free disk. *)
FleetView(w) ==
  /\ \E online \in BOOLEAN :
       workers' = [workers EXCEPT ![w].online = online, ![w].age = 0]
  /\ UNCHANGED <<rows, runner, leases, history, crashes>>

(* Time passes; an interval timer may come late. *)
(* Mutant: the time left is not clipped at zero. *)
ElapsesFreely(w) == Leased(w)
Elapses(w) == Leased(w) /\ ~Expired(w)
Tick ==
  /\ leases' = [w \in Worker |->
       IF Elapses(w) THEN [leases[w] EXCEPT !.left = @ - 1] ELSE leases[w]]
  /\ workers' = [w \in Worker |->
       IF workers[w].age <= MaxAge THEN [workers[w] EXCEPT !.age = @ + 1] ELSE workers[w]]
  /\ UNCHANGED <<rows, runner, history, crashes>>

(* The engine dies and starts again: rows stay, the remote process too. *)
Crash ==
  /\ crashes < MaxCrashes
  /\ crashes' = crashes + 1
  /\ runner' = [o \in Op |-> Idle]
  /\ UNCHANGED <<rows, workers, leases, history>>

RunnerStep(o) ==
  \/ Start(o) \/ StartCancelled(o) \/ Refused(o)
  \/ \E w \in Worker : Observe(o, w) \/ Renew(o, w) \/ Take(o, w)
  \/ \E t \in Target, d \in Digest : Push(o, t, d) \/ PushRefused(o, t, d)
  \/ BuildThrows(o) \/ Unavailable(o) \/ SaveCheckpoint(o) \/ BuildReturns(o)
  \/ Verified(o)

Next ==
  \/ \E o \in Op : RunnerStep(o) \/ Heartbeat(o) \/ Cancel(o) \/ Finalize(o)
  \/ \E w \in Worker : FleetView(w)
  \/ Tick
  \/ Crash

Spec == Init /\ [][Next]_vars
=============================================================================
