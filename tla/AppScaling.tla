----------------------------- MODULE AppScaling -----------------------------
(***************************************************************************)
(* The workloads controller (src/engine/reconciler.ts): one tick probes    *)
(* the replicas, restarts what stays unhealthy, propagates health to the   *)
(* app, lets the autoscaler write desired_replicas, and makes the replicas *)
(* match it.  The tick is single-flight, so its parts share one record.    *)
(*                                                                         *)
(* The metrics behind an autoscaler decision are not modelled: any target  *)
(* its branches allow may be chosen.  Probes of one tick run one after the *)
(* other here; they concern different rows.                                *)
(***************************************************************************)
EXTENDS AppState

HealthExempt == {"paused", "stopped"}
RestartThreshold == 2

(*   todo     replicas of the snapshot still to be probed                  *)
(*   at, on   the replica being worked on and its server                   *)
(*   seen     the replicas the tick listed when it began                   *)
(*   want     desired replicas when convergence began                      *)
(*   orig     current replicas then, on ready servers; lost: the others    *)
(*   count    replicas on ready servers by now                             *)
(*   current  no config_revision since convergence read the app            *)
(*   victims  what scaleDown still has to remove, in its order             *)
TickPc == {"idle", "health", "judge", "restart", "recreate", "scale", "converge",
           "grow", "check", "attest", "undo", "drain", "stop", "finish"}
Converging == {"grow", "check", "attest", "undo", "drain", "stop", "finish"}
TickRow == [pc: TickPc, todo: SUBSET Replica, at: Name \cup {None}, on: Server \cup {None},
            sick: BOOLEAN, seen: SUBSET Replica, want: 0 .. MaxName + 1,
            orig: SUBSET Replica, lost: SUBSET Replica, count: Nat, current: BOOLEAN,
            victims: Seq(Replica)]
IdleTick == [pc |-> "idle", todo |-> {}, at |-> None, on |-> None, sick |-> FALSE,
             seen |-> {}, want |-> 0, orig |-> {}, lost |-> {}, count |-> 0,
             current |-> FALSE, victims |-> <<>>]

TickStart ==
  /\ tick.pc = "idle" /\ Present
  /\ tick' = [IdleTick EXCEPT
       !.pc = "health", !.seen = Ids,
       !.todo = IdsOf({j \in DOMAIN rows : rows[j].st \notin HealthExempt})]
  /\ UNCHANGED <<app, rows, box, srv, held, waker, wake, runtime, op, budget>>

Probed(t) == [t EXCEPT !.pc = "health", !.todo = @ \ {<<t.at, t.on>>}, !.at = None,
                       !.on = None, !.sick = FALSE]

(* probeAppHealth; a server that cannot be reached is inconclusive.        *)
Probe ==
  /\ tick.pc = "health"
  /\ \E x \in tick.todo :
       IF x \notin Ids
       THEN /\ tick' = [tick EXCEPT !.todo = @ \ {x}]
            /\ UNCHANGED budget
       ELSE \E ok \in BOOLEAN :
              /\ Call(x[2], ok)
              /\ tick' = IF ok
                         THEN [tick EXCEPT !.pc = "judge", !.at = x[1], !.on = x[2],
                                           !.sick = box[x[2]][x[1]] # "running"]
                         ELSE [tick EXCEPT !.todo = @ \ {x}]
  /\ UNCHANGED <<app, rows, box, srv, held, waker, wake, runtime, op>>

Examined == <<tick.at, tick.on>>
Defers(x) == x \notin Ids \/ rows[RowOf(x)].st \in HealthExempt \/ held # None

(* The result is checked against the live row and the lock, then applied.  *)
Judge ==
  /\ tick.pc = "judge"
  /\ IF Defers(Examined)
     THEN tick' = Probed(tick) /\ UNCHANGED rows
     ELSE LET i == RowOf(Examined)
              ticks == IF rows[i].ticks < RestartThreshold THEN rows[i].ticks + 1 ELSE RestartThreshold
          IN IF ~tick.sick
             THEN /\ rows' = [rows EXCEPT ![i].ticks = 0,
                                          ![i].st = IF @ = "divergent" THEN @ ELSE "running"]
                  /\ tick' = Probed(tick)
             ELSE /\ rows' = [rows EXCEPT ![i].ticks = ticks, ![i].st = "unhealthy"]
                  /\ tick' = IF ticks = RestartThreshold /\ app.st \in {"running", "unhealthy"}
                             THEN [tick EXCEPT !.pc = "restart"]
                             ELSE Probed(tick)
  /\ UNCHANGED <<app, box, srv, held, waker, wake, runtime, op, budget>>

ResetTicks(x) == [i \in DOMAIN rows |-> IF Id(rows[i]) = x THEN [rows[i] EXCEPT !.ticks = 0] ELSE rows[i]]

(* `docker restart`, decided before the await that ends here               *)
Restart ==
  /\ tick.pc = "restart"
  /\ \E ok \in BOOLEAN :
       /\ Call(tick.on, ok)
       /\ IF ok /\ box[tick.on][tick.at] # NoContainer
          THEN /\ box' = Set(tick.on, tick.at, "running")
               /\ rows' = ResetTicks(Examined)
               /\ tick' = Probed(tick)
          ELSE /\ tick' = [tick EXCEPT !.pc = "recreate"]
               /\ UNCHANGED <<rows, box>>
  /\ UNCHANGED <<app, srv, held, waker, wake, runtime, op>>

(* recreateReplica: `docker run` from the image of the snapshot            *)
Recreate ==
  /\ tick.pc = "recreate"
  /\ \E ok \in BOOLEAN :
       /\ Call(tick.on, ok)
       /\ IF ok THEN box' = Set(tick.on, tick.at, "running") /\ rows' = ResetTicks(Examined)
                ELSE UNCHANGED <<rows, box>>
  /\ tick' = Probed(tick)
  /\ UNCHANGED <<app, srv, held, waker, wake, runtime, op>>

(* Status propagation, over the replicas of the snapshot, read again       *)
Propagate ==
  /\ tick.pc = "health" /\ tick.todo = {}
  /\ LET fresh == {i \in DOMAIN rows : /\ Id(rows[i]) \in tick.seen
                                       /\ Ready(rows[i].on)
                                       /\ rows[i].st \notin HealthExempt}
         healthy == fresh # {} /\ \A i \in fresh : rows[i].st = "running"
     IN app' = IF app.st \in {"running", "unhealthy"}
               THEN [app EXCEPT !.st = IF healthy THEN "running" ELSE "unhealthy"]
               ELSE app
  /\ tick' = [tick EXCEPT !.pc = "scale"]
  /\ UNCHANGED <<rows, box, srv, held, waker, wake, runtime, op, budget>>

EffectiveMax == IF app.volume THEN 1 ELSE MaxReplicas


(* What evaluateAutoScale may decide, with min_replicas = 0                *)
AutoscaleTargets ==
  LET count == Cardinality({i \in DOMAIN rows : rows[i].st # "stopped"}) IN
  IF app.st \in {"sleeping", "waking", "gone"} \/ count = 0 THEN {}
  ELSE (count + 1 .. EffectiveMax) \cup (1 .. count - 1)
         \cup (IF count = 1 /\ ~app.recent THEN {0} ELSE {})

(* An UPDATE of desired_replicas and the trigger it fires                  *)
SetDesired(d) ==
  /\ app' = WithDesired(app, d)
  /\ rows' = Outdated(rows)
  /\ wake' = [wake EXCEPT !.current = FALSE]

Autoscale ==
  /\ tick.pc = "scale"
  /\ tick' = [tick EXCEPT !.pc = "converge"]
  /\ \/ UNCHANGED <<app, rows, wake, budget>>
     \/ \E d \in AutoscaleTargets \ {app.desired} :
          /\ budget.edits > 0
          /\ budget' = [budget EXCEPT !.edits = @ - 1]
          /\ SetDesired(d)
  /\ UNCHANGED <<box, srv, held, waker, runtime, op>>

(* A user's change of the scaling configuration                            *)
EditDesired ==
  /\ Present /\ budget.edits > 0
  /\ \E d \in 1 .. MaxReplicas \ {app.desired} : SetDesired(d)
  /\ budget' = [budget EXCEPT !.edits = @ - 1]
  /\ tick' = [tick EXCEPT !.current = FALSE]
  /\ UNCHANGED <<box, srv, held, waker, runtime, op>>

(* ------------------------ convergeAppReplicas ------------------------- *)

Wanted == IF app.volume /\ app.desired > 1 THEN 1 ELSE app.desired

(* Mutant: a volume app is rescheduled like any other. *)
ReschedulesVolumes ==
  \/ app.st \notin {"running", "unhealthy"}
  \/ Cardinality(Current) = Wanted /\ Current = DOMAIN rows

(* No rescheduling of a volume app that has no replica on a ready server   *)
NothingToConverge ==
  \/ app.st \notin {"running", "unhealthy"}
  \/ Cardinality(Current) = Wanted /\ Current = DOMAIN rows
  \/ Current = {} /\ app.volume

Removals ==
  [k \in 1 .. Cardinality(Current) - Wanted |-> Id(rows[Ranked(Current, Sooner, k)])]

ConvergeStart ==
  /\ tick.pc = "converge"
  /\ LET cur == Cardinality(Current)
         begun == [tick EXCEPT !.want = Wanted, !.orig = IdsOf(Current),
                               !.lost = Ids \ IdsOf(Current), !.count = cur,
                               !.current = TRUE, !.todo = {}, !.seen = {}]
     IN \/ /\ NothingToConverge \/ held # None
           /\ tick' = IdleTick /\ UNCHANGED held
        \/ /\ ~NothingToConverge /\ held = None
           /\ cur < Wanted
           /\ held' = "tick" /\ tick' = [begun EXCEPT !.pc = "grow"]
        \/ /\ ~NothingToConverge /\ held = None
           /\ cur > Wanted
           /\ held' = "tick" /\ tick' = [begun EXCEPT !.pc = "drain", !.victims = Removals]
        \/ /\ ~NothingToConverge /\ held = None
           /\ cur = Wanted /\ Wanted > 0
           /\ held' = "tick" /\ tick' = [begun EXCEPT !.pc = "finish"]
        \/ /\ ~NothingToConverge /\ held = None  \* toRemove[-1].server_id throws
           /\ cur = Wanted /\ Wanted = 0
           /\ tick' = IdleTick /\ UNCHANGED held
  /\ UNCHANGED <<app, rows, box, srv, waker, wake, runtime, op, budget>>

EndTick == tick' = IdleTick /\ held' = None

(* A failed iteration removes its container, if the server answers, and    *)
(* its row; then rollbackScaleUp runs.                                     *)
GiveUp(s, n) ==
  /\ box' = IF Ready(s) THEN Set(s, n, NoContainer) ELSE box
  /\ rows' = Without(rows, {<<n, s>>})
  /\ tick' = [tick EXCEPT !.pc = "undo", !.at = None, !.on = None]

(* All replicas publish the same host port, so the preflight refuses a     *)
(* server that runs another container of the app.                          *)
PortTaken(s, n) == \E m \in Name \ {n} : box[s][m] \in {"running", "paused"}

(* One iteration of scaleUp: pick a server and a name, preflight, pull, run*)
NextNames == {n \in Name \ {x[1] : x \in Ids} : n > tick.count}

Grow ==
  /\ tick.pc = "grow"
  /\ \/ \E s \in {x \in Server : Ready(x)}, n \in NextNames, ok \in BOOLEAN :
          /\ \A m \in NextNames : n <= m
          /\ Call(s, ok)
          /\ IF ok /\ ~PortTaken(s, n)
             THEN /\ box' = Set(s, n, "running")
                  /\ tick' = [tick EXCEPT !.pc = "check", !.at = n, !.on = s]
                  /\ UNCHANGED rows
             ELSE GiveUp(s, n)
     \/ /\ \A s \in Server : ~Ready(s)
        /\ tick' = [tick EXCEPT !.pc = "undo"]
        /\ UNCHANGED <<rows, box, budget>>
  /\ UNCHANGED <<app, srv, held, waker, wake, runtime, op>>

GrowCheck ==
  /\ tick.pc = "check"
  /\ \E ok \in BOOLEAN :
       /\ Call(tick.on, ok)
       /\ IF ok /\ box[tick.on][tick.at] = "running"
          THEN /\ rows' = Append(rows, NewRow(tick.at, tick.on, "attesting"))
               /\ tick' = [tick EXCEPT !.pc = "attest"]
               /\ UNCHANGED box
          ELSE GiveUp(tick.on, tick.at)
  /\ UNCHANGED <<app, srv, held, waker, wake, runtime, op>>

GrowAttest ==
  /\ tick.pc = "attest"
  /\ \E ok \in BOOLEAN :
       /\ Call(tick.on, ok)
       /\ IF ok /\ box[tick.on][tick.at] = "running"
          THEN /\ rows' = Attested(rows, Examined, TRUE, tick.current)
               /\ tick' = [tick EXCEPT !.pc = IF tick.count + 1 < tick.want THEN "grow" ELSE "finish",
                                       !.count = @ + 1, !.at = None, !.on = None]
               /\ UNCHANGED box
          ELSE GiveUp(tick.on, tick.at)
  /\ UNCHANGED <<app, srv, held, waker, wake, runtime, op>>

(* rollbackScaleUp: every row that is not one of the original replicas on  *)
(* ready servers goes; a container whose server does not answer stays.     *)
Undo ==
  /\ tick.pc = "undo"
  /\ LET gone == {i \in DOMAIN rows : Id(rows[i]) \notin tick.orig} IN
     /\ rows' = Without(rows, IdsOf(gone))
     /\ box' = [s \in Server |-> [n \in Name |->
                 IF Ready(s) /\ \E i \in gone : rows[i].on = s /\ rows[i].name = n
                 THEN NoContainer ELSE box[s][n]]]
  /\ EndTick
  /\ UNCHANGED <<app, srv, waker, wake, runtime, op, budget>>

(* scaleDown, one victim: out of the upstream pool, then a wait of 10 s    *)
Drain ==
  /\ tick.pc = "drain"
  /\ rows' = WithStatus(rows, Head(tick.victims), "draining")
  /\ tick' = [tick EXCEPT !.pc = "stop"]
  /\ UNCHANGED <<app, box, srv, held, waker, wake, runtime, op, budget>>

(* Going to zero, the last victim is only stopped and the app falls asleep *)
StopAnchor(ok) ==
  LET x == Head(tick.victims)
      n == x[1]
      s == x[2]
  IN IF ok
     THEN /\ box' = IF box[s][n] = NoContainer THEN box ELSE Set(s, n, "stopped")
          /\ rows' = WithStatus(rows, x, "stopped")
          /\ app' = [app EXCEPT !.bed = s, !.st = "sleeping"]
          /\ tick' = [tick EXCEPT !.pc = "finish", !.victims = Tail(@), !.count = @ - 1]
          /\ UNCHANGED <<held, wake>>
     ELSE /\ app' = WithDesired(app, tick.count)
          /\ rows' = Outdated(rows)
          /\ wake' = [wake EXCEPT !.current = FALSE]
          /\ EndTick
          /\ UNCHANGED box

(* The exit status of `docker rm -f` is not looked at.                     *)
RemoveReplica(ok) ==
  LET x == Head(tick.victims)
  IN /\ box' = IF ok THEN Set(x[2], x[1], NoContainer) ELSE box
     /\ rows' = Without(rows, {x})
     /\ tick' = [tick EXCEPT !.pc = IF Len(tick.victims) > 1 THEN "drain" ELSE "finish",
                             !.victims = Tail(@), !.count = @ - 1]
     /\ UNCHANGED <<app, held, wake>>

Stop ==
  /\ tick.pc = "stop"
  /\ \E ok \in BOOLEAN :
       /\ Call(Head(tick.victims)[2], ok)
       /\ IF tick.want = 0 /\ Len(tick.victims) = 1 THEN StopAnchor(ok) ELSE RemoveReplica(ok)
  /\ UNCHANGED <<srv, waker, runtime, op>>

(* Stranded rows are forgotten only when the provider lost their server.   *)
Finish ==
  /\ tick.pc = "finish"
  /\ rows' = IF Cardinality(Current) >= tick.want
             THEN Without(rows, {x \in tick.lost \cap Ids : srv[x[2]] = "missing"})
             ELSE rows
  /\ EndTick
  /\ UNCHANGED <<app, box, srv, waker, wake, runtime, op, budget>>

TickStep ==
  \/ TickStart \/ Probe \/ Judge \/ Restart \/ Recreate \/ Propagate \/ Autoscale
  \/ ConvergeStart \/ Grow \/ GrowCheck \/ GrowAttest \/ Undo
  \/ Drain \/ Stop \/ Finish
=============================================================================
