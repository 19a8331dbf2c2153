------------------------------ MODULE AppWaking ------------------------------
(***************************************************************************)
(* Waking an app that scaled to zero: wakeApp (src/engine/scale/wake.ts),  *)
(* the waker that calls it for connections (waker.ts), and the app-runtime *)
(* controller and the sweep, which write the same rows.                    *)
(*                                                                         *)
(* Holding and forwarding the connections themselves is not modelled: the  *)
(* poll that answers them writes nothing.                                  *)
(***************************************************************************)
EXTENDS AppState

(*   by       who called wakeApp and holds the app's key                   *)
(*   on       sleeping_server_id as read                                   *)
(*   kept     a preserved row `<app>` was found on that server             *)
(*   light    started by `docker start`                                    *)
(*   current  no config_revision since the app was read                    *)
WakePc == {"idle", "start", "probe", "attest"}
WakeRow == [pc: WakePc, by: {None, "waker", "op"}, on: Server \cup {None},
            kept: BOOLEAN, light: BOOLEAN, current: BOOLEAN]
IdleWake == [pc |-> "idle", by |-> None, on |-> None, kept |-> FALSE,
             light |-> FALSE, current |-> FALSE]

Recovering == app.st \in {"waking", "error"} /\ app.bed # None
Wakeable == app.st = "sleeping" \/ Recovering

(* The part of wakeApp before its first await                              *)
WakeBegins(by) ==
  /\ app' = [app EXCEPT !.st = "waking"]
  /\ wake' = [IdleWake EXCEPT !.pc = "start", !.by = by, !.on = app.bed, !.current = TRUE]

Preserved(s) == \E i \in DOMAIN rows : rows[i].name = 0 /\ rows[i].on = s
PreservedMatches(s) ==
  \E i \in DOMAIN rows : rows[i].name = 0 /\ rows[i].on = s /\ rows[i].match

(* How the caller of wakeApp goes on: the waker lets go of the key, the    *)
(* operation completes its step or fails.                                  *)
WakeReturns(ok) ==
  /\ wake' = IdleWake
  /\ IF wake.by = "waker"
     THEN held' = None /\ waker' = "idle" /\ UNCHANGED op
     ELSE /\ op' = [op EXCEPT !.pc = IF ok THEN "woken" ELSE "failed"]
          /\ UNCHANGED <<held, waker>>

WakeFails ==
  /\ app' = [app EXCEPT !.st = "error"]
  /\ WakeReturns(FALSE)

(* `docker start` of a preserved container that still matches what is      *)
(* desired, or else pull and `docker run`                                  *)
WakeStart ==
  /\ wake.pc = "start"
  /\ \E ok \in BOOLEAN :
       /\ Call(wake.on, ok)
       /\ IF ok
          THEN /\ box' = Set(wake.on, 0, "running")
               /\ wake' = [wake EXCEPT
                    !.pc = "probe", !.kept = Preserved(wake.on),
                    !.light = PreservedMatches(wake.on) /\ box[wake.on][0] # NoContainer]
               /\ UNCHANGED <<app, held, waker, op>>
          ELSE WakeFails /\ UNCHANGED box
  /\ UNCHANGED <<rows, srv, tick, runtime>>

(* The row of the woken replica, updated or inserted                       *)
Upserted(st) == IF wake.kept THEN WithStatus(rows, <<0, wake.on>>, st)
                             ELSE Append(rows, NewRow(0, wake.on, st))

WakeProbe ==
  /\ wake.pc = "probe"
  /\ \E ok \in BOOLEAN :
       /\ Call(wake.on, ok)
       /\ IF ok /\ box[wake.on][0] = "running"
          THEN /\ rows' = Upserted("attesting")
               /\ wake' = [wake EXCEPT !.pc = "attest"]
               /\ UNCHANGED <<app, held, waker, op>>
          ELSE rows' = Upserted("unhealthy") /\ WakeFails
  /\ UNCHANGED <<box, srv, tick, runtime>>

(* Mutant: the app keeps the desired count it fell asleep with. *)
WokenAsDesired == [app EXCEPT !.bed = None, !.recent = TRUE, !.st = "running"]

(* Attested, the app is running: with one replica desired, which raises    *)
(* config_revision, and a new idle window.                                 *)
Woken == [WithDesired(app, 1) EXCEPT !.bed = None, !.recent = TRUE, !.st = "running"]

WakeAttest ==
  /\ wake.pc = "attest"
  /\ \E ok \in BOOLEAN :
       /\ Call(wake.on, ok)
       /\ IF ok /\ box[wake.on][0] = "running"
          THEN /\ rows' = Outdated(WithStatus(rows, <<0, wake.on>>, "running"))
               /\ app' = Woken
               /\ WakeReturns(TRUE)
          ELSE /\ rows' = IF ok THEN Attested(rows, <<0, wake.on>>, FALSE, FALSE) ELSE rows
               /\ WakeFails
  /\ UNCHANGED <<box, srv, tick, runtime>>

(* -------------------------------- waker -------------------------------- *)

(* A connection to an app without upstreams: one wake for all of them      *)
Connect ==
  /\ Present /\ waker = "idle"
  /\ ~(app.st = "running" /\ Upstreams # {})
  /\ waker' = "locking"
  /\ UNCHANGED <<app, rows, box, srv, held, tick, wake, runtime, op, budget>>

(* Mutant: the key is not waited for. *)
WakerBarges ==
  /\ waker = "locking" /\ Wakeable /\ app.bed # None /\ wake.pc = "idle"
  /\ held' = "waker" /\ waker' = "waking" /\ WakeBegins("waker")
  /\ UNCHANGED <<rows, box, srv, tick, runtime, op, budget>>

(* wakeWithLock gets the key; an app that is not asleep needs no waking,   *)
(* and one whose place of sleep is unknown cannot be woken.                *)
WakerLocks ==
  /\ waker = "locking" /\ held = None
  /\ IF Wakeable /\ app.bed # None
     THEN held' = "waker" /\ waker' = "waking" /\ WakeBegins("waker")
     ELSE waker' = "idle" /\ UNCHANGED <<held, app, wake>>
  /\ UNCHANGED <<rows, box, srv, tick, runtime, op, budget>>

(* "App is busy with another operation", after 30 s                        *)
WakerGivesUp ==
  /\ waker = "locking" /\ held # None
  /\ waker' = "idle"
  /\ UNCHANGED <<app, rows, box, srv, held, tick, wake, runtime, op, budget>>

(* The idle window passes without a request.                               *)
Quiet ==
  /\ Present /\ app.recent
  /\ app' = [app EXCEPT !.recent = FALSE]
  /\ UNCHANGED <<rows, box, srv, held, tick, waker, wake, runtime, op, budget>>

(* ----------------------- reconcileAppRuntime --------------------------- *)

(* Live replicas are attested while the deployed revision is the app's.  A *)
(* failed inspection makes a replica divergent until the next pass; for    *)
(* docker a paused container runs.  The reload_app it queues after a       *)
(* second failure is not modelled.                                         *)
RuntimeStart ==
  /\ runtime = {} /\ held = None
  /\ app.st \in {"running", "unhealthy"} /\ ~app.deleted /\ app.rolled
  /\ Current # {}
  /\ runtime' = IdsOf(Current) /\ held' = "runtime"
  /\ UNCHANGED <<app, rows, box, srv, tick, waker, wake, op, budget>>

(* The replicas are inspected one by one; an inspection that throws ends   *)
(* the pass, a server that is not ready is passed over.                    *)
RuntimeAttest ==
  \E x \in runtime :
    LET s == x[2] IN
    /\ \/ /\ ~Ready(s)
          /\ runtime' = runtime \ {x}
          /\ UNCHANGED <<rows, budget>>
       \/ /\ Ready(s) /\ Call(s, TRUE)
          /\ rows' = Attested(rows, x, box[s][x[1]] \in {"running", "paused"}, app.rolled)
          /\ runtime' = runtime \ {x}
       \/ /\ Ready(s) /\ Call(s, FALSE)
          /\ runtime' = {}
          /\ UNCHANGED rows
    /\ held' = IF runtime' = {} THEN None ELSE held
    /\ UNCHANGED <<app, box, srv, tick, waker, wake, op>>

(* ------------------------------- the sweep ----------------------------- *)

(* Every replica is stopped and the app is not marked asleep: it is taken  *)
(* for a crash in the middle of falling asleep.                            *)
SweepToSleeping ==
  /\ app.st \notin {"sleeping", "stopped", "gone"}
  /\ rows # <<>> /\ \A i \in DOMAIN rows : rows[i].st = "stopped"
  /\ app' = [app EXCEPT !.st = "sleeping"]
  /\ UNCHANGED <<rows, box, srv, held, tick, waker, wake, runtime, op, budget>>

WakingStep ==
  \/ Connect \/ WakerLocks \/ WakerGivesUp
  \/ WakeStart \/ WakeProbe \/ WakeAttest
  \/ RuntimeStart \/ RuntimeAttest \/ SweepToSleeping
=============================================================================
