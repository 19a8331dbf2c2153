------------------------------ MODULE Rollouts ------------------------------
(***************************************************************************)
(* One app with several replicas and the operations that put a revision on *)
(* them: redeploy, with or without a candidate configuration, rollback,    *)
(* promote and reload_app, with the app-runtime controller that requests   *)
(* and repairs rollouts, and the edits that do not wait for any of them.   *)
(*                                                                         *)
(* All of them hold the key app:<id>, so one runs at a time.  An action    *)
(* runs to the next await.  `faults` bounds the remote calls that fail,    *)
(* the container deaths and the crashes.                                   *)
(***************************************************************************)
EXTENDS Integers, Sequences, FiniteSets

CONSTANTS
  Replicas,   \* number of replicas, none of which is on a lost server
  Image,      \* immutable digests
  Broken,     \* images whose containers never pass readiness
  Before, Now,\* the image before the last deployment, and the last one's
  Asked,      \* bound: the operations, with their images, that users ask for
  MaxOps,     \* bound: operations enqueued
  MaxFaults,  \* bound
  MaxEdits,   \* bound: edits and cancellations
  None

ASSUME RolloutAssumption ==
  /\ Replicas \in Nat \ {0} /\ None \notin Image
  /\ Broken \subseteq Image /\ {Before, Now} \subseteq Image \ Broken
  /\ Asked \subseteq {"redeploy", "release", "rollback", "promote", "reload_app"} \X (Image \cup {None})
  /\ MaxOps \in Nat /\ MaxFaults \in Nat /\ MaxEdits \in Nat

Replica == 1 .. Replicas
Op == 1 .. MaxOps
Rev == 1 .. 3 + MaxEdits + MaxOps + MaxFaults

Kind == {"redeploy", "release", "rollback", "promote", "reload_app"}

(* The steps with an effect, in order; a release is a redeploy with a      *)
(* candidate.  sync_ingress and the preflights only may fail, which the    *)
(* steps next to them may too.                                             *)
(* Mutants: the snapshot is discarded before the deployment is recorded;   *)
(* the configuration is committed before the other replicas have it.       *)
StepsDiscardFirst(k) ==
  IF k = "promote" THEN <<"target", "snapshot", "swap", "roll", "health", "discard", "record">>
  ELSE <<"snapshot", "deploying", "pull", "roll", "health", "discard", "record">>
StepsCommitFirst(k) ==
  IF k = "release" THEN <<"snapshot", "deploying", "pull", "validate", "commit", "roll",
                          "health", "record", "discard">>
  ELSE <<"reload">>
Steps(k) ==
  CASE k = "redeploy" -> <<"snapshot", "deploying", "pull", "roll", "health", "record", "discard">>
    [] k = "release"  -> <<"snapshot", "deploying", "pull", "validate", "roll", "commit",
                           "health", "record", "discard">>
    [] k = "rollback" -> <<"target", "snapshot", "swap", "health", "record", "discard">>
    [] k = "promote"  -> <<"target", "snapshot", "swap", "roll", "health", "record", "discard">>
    [] k = "reload_app" -> <<"reload">>

Undoable == {"roll", "deploying", "snapshot"}

(* A revision: an image with a config_revision, as container labels and    *)
(* deployments carry it.                                                   *)
Label == [image: Image \cup {None}, rev: Rev \cup {0}]
NoLabel == [image |-> None, rev |-> 0]

AppStatus == {"running", "unhealthy", "deploying"}
ReplicaStatus == {"running", "unhealthy", "attesting", "divergent", "draining"}
OpStatus == {"pending", "running", "compensating", "done", "compensated",
             "cancelled", "compensation_failed"}
Active == {"pending", "running", "compensating"}

(*   pc    forward steps with a completed row                              *)
(*   undo  completed steps whose compensation is still owed                *)
(*   built, snap, prev   outputs of the steps                              *)
(*   dir   the snapshot directory the operation owns on the host           *)
(*   tried a walk of its compensations failed                              *)
OpRow == [kind: Kind, image: Image \cup {None}, st: OpStatus, pc: 0 .. 9,
          undo: SUBSET Undoable, built: Image \cup {None}, snap: Label,
          prev: AppStatus, dir: Image \cup {None}, cancel: BOOLEAN, tried: BOOLEAN]

(*   goal  what the step in progress brings about, read when it began      *)
(*   bad   a replica failed, and reload_app goes on to the next            *)
RunRow == [op: Op \cup {0}, r: Replica, goal: Label, prev: AppStatus, bad: BOOLEAN,
           ph: {"idle", "go", "start", "probe", "attest", "post", "wrote",
                "undo", "restore", "reprobe", "restored"}]

VARIABLES
  app,      \* status, image_ref, config_revision, and the requested rollout
  manifest, \* the last apply_manifest of a stored image: whether it is still to
            \* run, and the operations that are older than it
  replica,  \* replica[r]: status, attestation_error set or not, revision attested
  box,      \* box[r]: the labels of its container, and whether it runs
  history,  \* deployment_history
  ops,      \* operations on the app, by id
  run,      \* the runner of the operation that holds the key
  budget

vars == <<app, manifest, replica, box, history, ops, run, budget>>

NoBox == [label |-> NoLabel, up |-> FALSE]
Up(l) == [label |-> l, up |-> TRUE]
Healthy(r) == box[r].up /\ box[r].label.image \notin Broken
Deployed == history[Len(history)]
Idle == [op |-> 0, r |-> 1, goal |-> NoLabel, prev |-> "running", bad |-> FALSE, ph |-> "idle"]

(* operations(kind, image) as they are enqueued                            *)
NewOp(k, i) == [kind |-> k, image |-> i, st |-> "pending", pc |-> 0, undo |-> {},
                built |-> None, snap |-> NoLabel, prev |-> "running", dir |-> None,
                cancel |-> FALSE, tried |-> FALSE]
ActiveOf(kinds) == \E o \in DOMAIN ops : ops[o].kind \in kinds /\ ops[o].st \in Active

row == ops[run.op]
Step(o) == Steps(ops[o].kind)[ops[o].pc + 1]
Has(x, s) == \E i \in 1 .. x.pc : Steps(x.kind)[i] = s
Completed(o, s) == Has(ops[o], s)
Doing(s, ph) == run.op # 0 /\ run.ph = ph /\ row.st = "running" /\ Step(run.op) = s
Goes(ph) == run' = [run EXCEPT !.ph = ph]

(* A remote call may fail.                                                 *)
Fault == budget.faults > 0 /\ budget' = [budget EXCEPT !.faults = @ - 1]
Calls(ok) == \/ ok /\ UNCHANGED budget
             \/ ~ok /\ Fault

WithReplica(r, st) == [replica EXCEPT ![r].st = st]
Matches(r, l) == box[r].up /\ box[r].label = l
(* recordReplicaAttestation                                                *)
Attestation(l, ok) ==
  IF ok THEN [st |-> "running", bad |-> FALSE, att |-> l]
  ELSE [st |-> "divergent", bad |-> TRUE, att |-> NoLabel]

-----------------------------------------------------------------------------
(* The runner, as far as these operations tell: see Engine.                *)

(* A later row that names the app is a claim on it, also a manifest's.     *)
Superseded(o) == o < Len(ops) \/ o <= manifest.older

(* Of an operation that is over no output is read again.                   *)
Over(x, st) == [NewOp(x.kind, None) EXCEPT !.st = st]

Unwound(o, x) ==
  IF x.undo = {} \/ Superseded(o)
  THEN [row |-> Over(x, IF x.cancel THEN "cancelled" ELSE "compensated"), run |-> Idle]
  ELSE [row |-> x, run |-> [Idle EXCEPT !.op = o, !.ph = "undo"]]

Failed(o, x) ==
  Unwound(o, [x EXCEPT !.st = "compensating", !.undo = {s \in Undoable : Has(x, s)}])

(* What the next step works towards: candidateApp for a redeploy, the      *)
(* target's digest for the others, and the revision stored now.            *)
Goal(o, x, s) ==
  CASE s \in {"target", "snapshot", "deploying", "validate", "discard"} -> NoLabel
    [] s = "commit" -> [image |-> app.image, rev |-> app.rev]
    [] s = "reload" -> [image |-> Deployed.image, rev |-> app.rev]
    [] s \in {"pull", "swap"} ->
         [image |-> IF x.kind = "redeploy" THEN app.image ELSE x.image,
          rev   |-> IF x.kind = "release" THEN app.rev + 1 ELSE app.rev]
    [] s = "roll" -> [image |-> x.built, rev |-> IF x.kind = "release" THEN app.rev + 1 ELSE app.rev]
    [] OTHER -> [image |-> x.built, rev |-> app.rev]

Forward(o, x) ==
  IF x.pc = Len(Steps(x.kind)) THEN [row |-> Over(x, "done"), run |-> Idle]
  ELSE IF x.cancel THEN Failed(o, x)
  ELSE [row |-> [x EXCEPT !.st = "running"],
        run |-> [Idle EXCEPT !.op = o, !.ph = "go",
                             !.goal = Goal(o, x, Steps(x.kind)[x.pc + 1])]]

Settle(o, to) == ops' = [ops EXCEPT ![o] = to.row] /\ run' = to.run
Throw == Settle(run.op, Failed(run.op, row))

OpStart ==
  /\ run.op = 0
  /\ \E o \in DOMAIN ops :
       \/ /\ ops[o].st = "pending" /\ \A p \in 1 .. o - 1 : ops[p].st # "pending"
          /\ Settle(o, Forward(o, ops[o]))
       \/ ops[o].st = "compensating" /\ Settle(o, Unwound(o, ops[o]))
  /\ UNCHANGED <<app, manifest, replica, box, history, budget>>

(* The row of the step is written with its output, and the next one begins *)
StepDone ==
  /\ run.ph = "wrote"
  /\ LET s == Step(run.op) IN
     Settle(run.op, Forward(run.op,
       [row EXCEPT !.pc = @ + 1,
          !.snap = IF s = "snapshot" THEN run.goal ELSE @,
          !.built = IF s \in {"pull", "swap"} THEN run.goal.image ELSE @,
          !.prev = IF s \in {"target", "deploying"} THEN run.prev ELSE @]))
  /\ UNCHANGED <<app, manifest, replica, box, history, budget>>

(* A step throws before it has changed anything more: a pull, a write of   *)
(* the environment, an inspection or the ingress failed.                   *)
StepFails ==
  /\ run.ph \in {"go", "start", "post"} /\ row.st = "running"
  /\ Step(run.op) \notin {"target", "deploying", "discard"}
  /\ run.ph = "post" => Step(run.op) = "health"
  /\ Fault /\ Throw
  /\ UNCHANGED <<app, manifest, replica, box, history>>

-----------------------------------------------------------------------------
(* Forward steps.                                                          *)

Target ==
  /\ Doing("target", "go")
  /\ run' = [run EXCEPT !.prev = app.st, !.ph = "wrote"]
  /\ UNCHANGED <<app, manifest, replica, box, history, ops, budget>>

(* probe adopts the directory if it holds the image the app has now; run   *)
(* saves that image, or nothing when there is no container.                *)
Snapshot ==
  /\ Doing("snapshot", "go")
  /\ LET none == row.dir # app.image /\ box[1].label.image = None IN
     /\ ops' = IF none THEN ops ELSE [ops EXCEPT ![run.op].dir = app.image]
     /\ run' = [run EXCEPT !.ph = "wrote", !.goal =
                  IF none THEN NoLabel ELSE [image |-> app.image, rev |-> app.rev]]
  /\ UNCHANGED <<app, manifest, replica, box, history, budget>>

SetDeploying ==
  /\ Doing("deploying", "go")
  /\ run' = [run EXCEPT !.prev = app.st, !.ph = "wrote"]
  /\ app' = [app EXCEPT !.st = "deploying"]
  /\ UNCHANGED <<manifest, replica, box, history, ops, budget>>

(* startAppReplica keeps a running container of exactly this revision and  *)
(* replaces any other, which may fail after the old one was removed.       *)
Starts(r, l, done, fail) ==
  \/ Matches(r, l) /\ UNCHANGED <<box, budget>> /\ done
  \/ ~Matches(r, l) /\ box' = [box EXCEPT ![r] = Up(l)] /\ UNCHANGED budget /\ done
  \/ ~Matches(r, l) /\ box' = [box EXCEPT ![r] = NoBox] /\ Fault /\ fail

(* pull_and_run_candidate, swap_container: the first replica only          *)
Swap ==
  /\ Doing("pull", "go") \/ Doing("swap", "go")
  /\ Starts(1, run.goal, Goes("wrote") /\ UNCHANGED ops, Throw)
  /\ UNCHANGED <<app, manifest, replica, history>>

(* validate_candidate, before anything is stored.  A probe that cannot     *)
(* reach the host counts as a failure.                                     *)
Validate ==
  /\ Doing("validate", "go")
  /\ \E seen \in BOOLEAN :
       /\ Calls(seen)
       /\ IF seen /\ Healthy(1) THEN Goes("wrote") /\ UNCHANGED ops ELSE Throw
  /\ UNCHANGED <<app, manifest, replica, box, history>>

(* rollingRedeploy takes the replicas one by one, the first included.      *)
(* Mutant: every replica is drained before the first one is replaced. *)
RollDrainsAll ==
  /\ Doing("roll", "go")
  /\ Goes("start")
  /\ replica' = [r \in Replica |-> [replica[r] EXCEPT !.st = "draining"]]
  /\ UNCHANGED <<app, manifest, box, history, ops, budget>>
RollDrain ==
  /\ Doing("roll", "go")
  /\ IF Replicas = 1 THEN Goes("wrote") /\ UNCHANGED replica
     ELSE Goes("start") /\ replica' = WithReplica(run.r, "draining")
  /\ UNCHANGED <<app, manifest, box, history, ops, budget>>

(* reloadAppEnvironment does the same with the image that is deployed, but *)
(* a replica that fails does not stop it.                                  *)
ReloadDrain ==
  /\ Doing("reload", "go")
  /\ IF app.st = "deploying" THEN Goes("wrote") /\ UNCHANGED replica
     ELSE /\ Goes("start")
          /\ replica' = IF Replicas > 1 THEN WithReplica(run.r, "draining") ELSE replica
  /\ UNCHANGED <<app, manifest, box, history, ops, budget>>

(* Mutant: all replicas are replaced at once. *)
RollStartsAll ==
  /\ Doing("roll", "start")
  /\ box' = [r \in Replica |-> Up(run.goal)]
  /\ Goes("probe")
  /\ UNCHANGED <<app, manifest, replica, history, ops, budget>>
RollStart ==
  /\ Doing("roll", "start") \/ Doing("reload", "start")
  /\ Starts(run.r, run.goal, Goes("probe") /\ UNCHANGED ops, Throw)
  /\ UNCHANGED <<app, manifest, replica, history>>

(* The next replica, or after the last one the end of the step.            *)
Beyond(last) ==
  IF run.r = last THEN [run EXCEPT !.ph = "post"] ELSE [run EXCEPT !.r = @ + 1, !.ph = "go"]

(* Readiness of the replica at hand.  One that is ready is attested next;  *)
(* the roll and the health check of a redeploy stop at one that is not.    *)
Probe ==
  /\ Doing("roll", "probe") \/ (Doing("health", "go") /\ row.kind \in {"redeploy", "release"})
  /\ \E seen \in BOOLEAN :
       /\ Calls(seen)
       /\ IF seen /\ Healthy(run.r)
          THEN Goes("attest") /\ replica' = WithReplica(run.r, "attesting") /\ UNCHANGED ops
          ELSE Throw /\ replica' = WithReplica(run.r, "unhealthy")
  /\ UNCHANGED <<app, manifest, box, history>>

ReloadProbe ==
  /\ Doing("reload", "probe")
  /\ \E seen \in BOOLEAN :
       /\ Calls(seen)
       /\ IF seen /\ Healthy(run.r)
          THEN Goes("attest") /\ replica' = WithReplica(run.r, "attesting")
          ELSE /\ run' = [Beyond(Replicas) EXCEPT !.bad = TRUE]
               /\ replica' = WithReplica(run.r, "unhealthy")
  /\ UNCHANGED <<app, manifest, box, history, ops>>

(* The health check of rollback and promote looks at the first replica,    *)
(* and sets the status of the app before it attests.                       *)
SwapProbe ==
  /\ Doing("health", "go") /\ row.kind \in {"rollback", "promote"}
  /\ \E seen \in BOOLEAN :
       /\ Calls(seen)
       /\ IF seen /\ Healthy(1)
          THEN /\ Goes("attest") /\ UNCHANGED ops
               /\ replica' = WithReplica(1, "attesting") /\ app' = [app EXCEPT !.st = "running"]
          ELSE Throw /\ app' = [app EXCEPT !.st = "unhealthy"] /\ UNCHANGED replica
  /\ UNCHANGED <<manifest, box, history>>

Attest ==
  /\ Doing("roll", "attest") \/ Doing("health", "attest")
  /\ \E seen \in BOOLEAN :
       LET ok == seen /\ Matches(run.r, run.goal) IN
       /\ Calls(seen)
       /\ replica' = [replica EXCEPT ![run.r] = Attestation(run.goal, ok)]
       /\ IF ok
          THEN /\ run' = Beyond(IF row.kind = "rollback" \/ (row.kind = "promote" /\ Step(run.op) = "health")
                                THEN 1 ELSE Replicas)
               /\ UNCHANGED ops
          ELSE Throw
  /\ UNCHANGED <<app, manifest, box, history>>

ReloadAttest ==
  /\ Doing("reload", "attest")
  /\ \E seen \in BOOLEAN :
       LET ok == seen /\ Matches(run.r, run.goal) IN
       /\ Calls(seen)
       /\ replica' = [replica EXCEPT ![run.r] = Attestation(run.goal, ok)]
       /\ run' = [Beyond(Replicas) EXCEPT !.bad = run.bad \/ ~ok]
  /\ UNCHANGED <<app, manifest, box, history, ops>>

(* The end of a step over the replicas: health_check of a redeploy and     *)
(* reload_app set the status of the app, the other two have done so.       *)
Rolled ==
  /\ run.ph = "post" /\ row.st = "running"
  /\ IF run.bad THEN Throw ELSE Goes("wrote") /\ UNCHANGED ops
  /\ app' = IF Step(run.op) = "reload" \/ (Step(run.op) = "health" /\ row.kind \in {"redeploy", "release"})
            THEN [app EXCEPT !.st = IF run.bad THEN "unhealthy" ELSE "running"] ELSE app
  /\ UNCHANGED <<manifest, replica, box, history, budget>>

(* A change of the stored configuration, at revision v; an open request    *)
(* for a rollout follows it (apps_bump_config_revision).                   *)
StoredAt(a, image, v) ==
  [a EXCEPT !.image = image, !.rev = v, !.wanted = IF @ > 0 THEN v ELSE 0]

(* commit_candidate_config.  normalizeAppConfigRevision folds every change *)
(* since the step began, its own and others, into one revision; a step     *)
(* that finds nothing changed takes the commit for torn.                   *)
Commit ==
  /\ Doing("commit", "go")
  /\ IF row.image = run.goal.image /\ app.rev = run.goal.rev
     THEN Throw /\ UNCHANGED app
     ELSE /\ app' = StoredAt(app, IF row.image = run.goal.image THEN app.image ELSE row.image,
                             run.goal.rev + 1)
          /\ Goes("wrote") /\ UNCHANGED ops
  /\ UNCHANGED <<manifest, replica, box, history, budget>>

(* insertDeployment: the row of an operation is inserted once.             *)
(* Mutant: a step that is run again inserts again. *)
DeploymentAgain(o, v) == Append(history, [op |-> o, image |-> ops[o].built, rev |-> v])
Deployment(o, v) ==
  IF \E i \in DOMAIN history : history[i].op = o THEN history
  ELSE Append(history, [op |-> o, image |-> ops[o].built, rev |-> v])

Cleared(a, through) == IF a.wanted <= through THEN [a EXCEPT !.wanted = 0, !.after = 0] ELSE a

Record ==
  /\ Doing("record", "go")
  /\ IF row.kind \in {"redeploy", "release"}
     THEN /\ history' = Deployment(run.op, run.goal.rev)
          /\ app' = Cleared(app, run.goal.rev)
     ELSE /\ history' = Deployment(run.op, app.rev)
          /\ app' = StoredAt(app, row.built, app.rev + 1)
  /\ Goes("wrote")
  /\ UNCHANGED <<manifest, replica, box, ops, budget>>

(* discard_revision_snapshot never fails.                                  *)
Discard ==
  /\ Doing("discard", "go")
  /\ ops' = [ops EXCEPT ![run.op].dir = None]
  /\ Goes("wrote")
  /\ UNCHANGED <<app, manifest, replica, box, history, budget>>

ForwardStep ==
  \/ Target \/ Snapshot \/ SetDeploying \/ Swap \/ Validate
  \/ RollDrain \/ ReloadDrain \/ RollStart \/ Probe \/ ReloadProbe \/ SwapProbe
  \/ Attest \/ ReloadAttest \/ Rolled \/ Commit \/ Record \/ Discard
=============================================================================
