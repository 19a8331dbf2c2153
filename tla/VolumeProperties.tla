-------------------------- MODULE VolumeProperties --------------------------
(***************************************************************************)
(* What must never go wrong with the volumes of apps.                      *)
(***************************************************************************)
EXTENDS VolumeActors

(* A remount that a former manifest asked for and did not wait for: after  *)
(* a crash the reconcile step may fail before it comes to the child again, *)
(* and only children of destroy_* are fenced (step-runner.ts).  It runs    *)
(* when its turn comes, and writes the path of the former manifest.        *)
StrayRemount(a) == "remount" \notin man[a].kids /\ job[<<a, "remount">>].st # "idle"

(* A manifest that reports done, of an app that nobody destroys and that   *)
(* has no stray remount, has left the app with the volume and the path it  *)
(* asked for, whatever crashed, failed or ran besides                      *)
(* (ops/apply-manifest.ts, reconcile).  When nothing failed, a manifest of *)
(* configuration only has also left the container with that mount,         *)
(* although a container that is current is adopted and not started anew    *)
(* (hetzner/docker-run.ts).                                                *)
ManifestIsApplied ==
  [][\A a \in App :
       LET w == man[a].want
       IN  man[a].st = "active" /\ man'[a].st = "done" /\ ~app[a].doomed /\ ~StrayRemount(a) =>
             /\ w.vol = None <=> app[a].vol = None
             /\ w.vol \in Vol => app[a].vol = w.vol
             /\ w.vol = New => ~app[a].adopted
             /\ w.vol # None => app[a].path = w.path
             /\ man[a].mode = "config" /\ budget.faults = MaxFaults => app[a].box = Recorded(a)]_vars

(* An operation that took a volume and is compensated has let go of it:    *)
(* the row of the app, the provider and, where the volume was created, the *)
(* container are without it, unless a later operation has claimed the app  *)
(* or the volume (ops/attach-volume.ts and attach-existing-volume.ts,      *)
(* compensate).  An adopted volume may still be mounted by a container     *)
(* that a detachment failed to recreate.                                   *)
CompensatedLetsGo ==
  [][\A s \in App \X {"attach", "adopt"} :
       job[s].st = "undoing" /\ job'[s].st = "compensated" /\ ~job[s].sup =>
         LET a == s[1]
             v == job[s].vol
         IN  /\ app[a].vol # v /\ place[v] # Home[a]
             /\ s[2] = "attach" /\ app[a].box # Down => app[a].box.vol # v]_vars

(* No two apps have the same volume, except while one of them is being     *)
(* destroyed or detached, or when its detachment failed halfway: a block   *)
(* volume is on one server only, and its files belong to one app.  True of *)
(* two requests: with four, a failed detachment that is asked for again    *)
(* takes the volume from the app that has adopted it in between.           *)
LettingGo(a) == app[a].doomed \/ Live(<<a, "detach">>) \/ job[<<a, "detach">>].st = "failed"
OneOwner ==
  \A a, b \in App :
    a # b /\ app[a].vol = app[b].vol /\ app[a].vol # None => LettingGo(a) \/ LettingGo(b)
=============================================================================
