--------------------------- MODULE RolloutControl ---------------------------
(***************************************************************************)
(* What acts on the app beside its operations: the requests of users, the  *)
(* edits of the stored configuration, which wait for no operation, and the *)
(* periodic controllers, with the specification of the whole.              *)
(***************************************************************************)
EXTENDS RolloutRecovery

CanEnqueue == Len(ops) < MaxOps
Enqueue(k, i) == ops' = Append(ops, NewOp(k, i))

(* Users redeploy, release an image, promote the image of another app, or  *)
(* roll back to a recorded deployment.                                     *)
Request ==
  /\ CanEnqueue
  /\ \E q \in Asked :
       /\ q[1] = "rollback" => \E d \in DOMAIN history : history[d].image = q[2]
       /\ Enqueue(q[1], q[2])
  /\ UNCHANGED <<app, manifest, replica, box, history, run, budget>>

EditsLeft == budget.edits > 0 /\ budget' = [budget EXCEPT !.edits = @ - 1]

(* A change of the scaling or of the linked environment.                   *)
Edit ==
  /\ EditsLeft /\ app' = StoredAt(app, app.image, app.rev + 1)
  /\ UNCHANGED <<manifest, replica, box, history, ops, run>>

(* requestAppRollout                                                       *)
Requested(a) == [a EXCEPT !.wanted = a.rev, !.after = Len(history)]

(* A manifest stored without a rollout: applyExistingAppConfig requests    *)
(* the rollout and enqueues apply_manifest, which requests it once more.   *)
StoreImage ==
  /\ EditsLeft /\ ~manifest.due
  /\ \E i \in Image \ {app.image} : app' = Requested(StoredAt(app, i, app.rev + 1))
  /\ manifest' = [due |-> TRUE, older |-> Len(ops)]
  /\ UNCHANGED <<replica, box, history, ops, run>>

ApplyManifest ==
  /\ manifest.due /\ manifest' = [manifest EXCEPT !.due = FALSE]
  /\ app' = Requested(app)
  /\ UNCHANGED <<replica, box, history, ops, run, budget>>

-----------------------------------------------------------------------------
(* reconcileAppRuntime holds the key of the app, and passes over an app    *)
(* that is neither running nor unhealthy.  A request that a deployment has *)
(* met is cleared where that is recorded, in Record; its own clearing of   *)
(* such a request never has anything to do.                                *)
Superseding == Len(history) > app.after /\ Deployed.rev >= app.wanted
Free == run.op = 0 /\ app.st \in {"running", "unhealthy"}

RollOut ==
  /\ Free /\ app.wanted > 0 /\ ~Superseding
  /\ ~ActiveOf({"redeploy", "release"}) /\ CanEnqueue /\ Enqueue("redeploy", None)
  /\ UNCHANGED <<app, manifest, replica, box, history, run, budget>>

(* The attestation of every replica; a second failure in a row of one asks *)
(* for a repair.  `missed` is the one whose inspection fails.              *)
AttestAll ==
  /\ Free /\ app.wanted = 0 /\ Deployed.rev = app.rev
  /\ LET l == [image |-> Deployed.image, rev |-> app.rev] IN
     \E missed \in Replica \cup {0} :
       LET ok(r) == r # missed /\ Matches(r, l) IN
       /\ Calls(missed = 0)
       /\ replica' = [r \in Replica |-> Attestation(l, ok(r))]
       /\ IF /\ \E r \in Replica : ~ok(r) /\ replica[r].st = "divergent" /\ replica[r].bad
             /\ ~ActiveOf({"reload_app"})
          THEN CanEnqueue /\ Enqueue("reload_app", None)
          ELSE UNCHANGED ops
  /\ UNCHANGED <<app, manifest, box, history, run>>

(* checkReplicaHealth, when no operation holds the key.  From its second   *)
(* failure on a replica is restarted, or made anew from the last           *)
(* deployment when the restart fails.                                      *)
SeenHealthy ==
  /\ run.op = 0
  /\ \E r \in Replica :
       /\ Healthy(r) /\ replica[r].st # "divergent" /\ ~replica[r].bad
       /\ replica' = WithReplica(r, "running")
  /\ UNCHANGED <<app, manifest, box, history, ops, run, budget>>

SeenUnhealthy ==
  /\ run.op = 0
  /\ \E r \in Replica :
       /\ ~Healthy(r)
       /\ replica' = WithReplica(r, "unhealthy")
       /\ \/ UNCHANGED <<box, budget>>
          \/ /\ Free /\ box[r].label # NoLabel
             /\ box' = [box EXCEPT ![r].up = TRUE] /\ UNCHANGED budget
          \/ /\ Free /\ box' = [box EXCEPT ![r] = Up([image |-> Deployed.image, rev |-> app.rev])]
             /\ Calls(box[r].label = NoLabel)
  /\ UNCHANGED <<app, manifest, history, ops, run>>

(* The status of the app follows its replicas, also during an operation.   *)
Propagate ==
  /\ app.st \in {"running", "unhealthy"}
  /\ app' = [app EXCEPT !.st = IF \A r \in Replica : replica[r].st = "running"
                               THEN "running" ELSE "unhealthy"]
  /\ UNCHANGED <<manifest, replica, box, history, ops, run, budget>>

(* reconcileStaleAppStates: an app left in deploying is healed when the    *)
(* records say that every replica runs what is deployed.  A deployment of  *)
(* rollback and promote has no env_hash, and an older revision.            *)
Heal ==
  /\ app.st = "deploying" /\ ~ActiveOf(Kind) /\ Deployed.rev = app.rev
  /\ \A r \in Replica : replica[r] = [st |-> "running", bad |-> FALSE,
                                      att |-> [image |-> Deployed.image, rev |-> app.rev]]
  /\ app' = [app EXCEPT !.st = "running"]
  /\ UNCHANGED <<manifest, replica, box, history, ops, run, budget>>

ContainerDies ==
  /\ Fault
  /\ \E r \in Replica : box[r].up /\ box' = [box EXCEPT ![r].up = FALSE]
  /\ UNCHANGED <<app, manifest, replica, history, ops, run>>

-----------------------------------------------------------------------------
(* An app rolled out everywhere at its second deployment.                  *)
Init ==
  LET l == [image |-> Now, rev |-> 2] IN
  /\ app = [st |-> "running", image |-> Now, rev |-> 2, wanted |-> 0, after |-> 0]
  /\ manifest = [due |-> FALSE, older |-> 0]
  /\ replica = [r \in Replica |-> [st |-> "running", bad |-> FALSE, att |-> l]]
  /\ box = [r \in Replica |-> Up(l)]
  /\ history = <<[op |-> 0, image |-> Before, rev |-> 1], [op |-> 0, image |-> Now, rev |-> 2]>>
  /\ ops = <<>> /\ run = Idle
  /\ budget = [faults |-> MaxFaults, edits |-> MaxEdits]

Controllers ==
  RollOut \/ AttestAll \/ SeenHealthy \/ SeenUnhealthy \/ Propagate \/ Heal

Next ==
  \/ OpStart \/ StepDone \/ StepFails \/ ForwardStep \/ Undo \/ Recovery
  \/ Request \/ Edit \/ StoreImage \/ ApplyManifest \/ ContainerDies \/ Controllers

Spec == Init /\ [][Next]_vars
=============================================================================
