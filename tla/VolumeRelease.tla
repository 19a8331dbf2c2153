--------------------------- MODULE VolumeRelease ---------------------------
(***************************************************************************)
(* The other half of Volumes: operations that let go of a volume, or move  *)
(* its mount, and the compensation of those that took one.                 *)
(***************************************************************************)
EXTENDS Volumes

Clear(row) == [row EXCEPT !.vol = None, !.path = None, !.adopted = FALSE, !.driver = FALSE]
Free(v) == place' = [place EXCEPT ![v] = IF @ \in Server THEN "free" ELSE @]
Retire(v, class) == retired' = [retired EXCEPT ![v] = class] /\ due' = due \ {v}

(***************************************************************************)
(* detach_volume: nothing of it is undone                                  *)
(***************************************************************************)
CanDetach(a) == app[a].here /\ app[a].vol # None /\ app[a].driver /\ place[app[a].vol] # "gone"

DetachVolume(s) ==
  LET v == app[s[1]].vol
  IN  /\ At(s, "detach") /\ CanDetach(s[1])
      /\ Free(v) /\ Retire(v, "user")
      /\ Finish(s, job[s])
      /\ UNCHANGED app

(* Without a driver the provider is not even asked.                        *)
DetachRefused(s) ==
  At(s, "detach") /\ ~CanDetach(s[1]) /\ Throw(s) /\ UNCHANGED <<world, budget>>

(* The volume is off, and the request that should confirm it fails.        *)
DetachUnconfirmed(s) ==
  LET v == app[s[1]].vol
  IN  /\ At(s, "detach") /\ CanDetach(s[1]) /\ Attached(v) /\ Fault
      /\ Free(v)
      /\ Throw(s)
      /\ UNCHANGED <<app, retired, due>>

ClearAppVolume(s) ==
  /\ At(s, "clear")
  /\ app' = [app EXCEPT ![s[1]] = Clear(@)]
  /\ Finish(s, job[s])
  /\ UNCHANGED <<place, retired, due>>

(* The container is recreated without the volume.  That fails softly, and  *)
(* the last step then reports the incomplete cleanup.                      *)
RecreateBare(s) ==
  LET a == s[1]
  IN  /\ At(s, "recreate") /\ s[2] = "detach"
      /\ app' = [app EXCEPT ![a] = Recreated(@, Bare)]
      /\ Finish(s, job[s])
      /\ UNCHANGED <<place, retired, due>>

RecreateBareFails(s) ==
  /\ At(s, "recreate") /\ s[2] = "detach" /\ Fault
  /\ app' = [app EXCEPT ![s[1]].box = IF app[s[1]].cur THEN @ ELSE Down]
  /\ Throw(s)
  /\ UNCHANGED <<place, retired, due>>

(***************************************************************************)
(* resize_volume and remount_volume                                        *)
(***************************************************************************)
CanResize(s) ==
  LET v == job[s].vol
  IN  (app[s[1]].driver \/ retired[v] # "no") /\ place[v] # "gone"

ResizeVolume(s) == At(s, "resize") /\ CanResize(s) /\ Finish(s, job[s]) /\ UNCHANGED world
ResizeRefused(s) == At(s, "resize") /\ ~CanResize(s) /\ Throw(s) /\ UNCHANGED <<world, budget>>

ValidateMount(s) ==
  /\ At(s, "validate") /\ app[s[1]].here /\ app[s[1]].vol # None
  /\ Finish(s, [job[s] EXCEPT !.vol = app[s[1]].vol, !.old = app[s[1]].path])
  /\ UNCHANGED world

ValidateRefused(s) ==
  /\ At(s, "validate") /\ ~(app[s[1]].here /\ app[s[1]].vol # None)
  /\ Throw(s) /\ UNCHANGED <<world, budget>>

(* The mount is written with the default of an empty driver; the columns   *)
(* written make no revision.                                               *)
Mounted(row, p) == [row EXCEPT !.path = p, !.driver = FALSE]

UpdateMount(s) ==
  LET a == s[1]
  IN  /\ At(s, "update") /\ app[a].here
      /\ app' = [app EXCEPT ![a] = IF app[a].path = job[s].path THEN @ ELSE Mounted(@, job[s].path)]
      /\ Finish(s, job[s])
      /\ UNCHANGED <<place, retired, due>>

(***************************************************************************)
(* destroy_app, as far as its volume is concerned                          *)
(***************************************************************************)
StopApp(s) ==
  LET a == s[1]
  IN  /\ At(s, "stop")
      /\ \/ /\ app' = [app EXCEPT ![a].doomed = app[a].here, ![a].box = Down]
            /\ Finish(s, job[s])
         \/ /\ Fault /\ app' = [app EXCEPT ![a].doomed = app[a].here]
            /\ job' = [job EXCEPT ![s] = Past(s, [@ EXCEPT !.soft = TRUE])] /\ UNCHANGED <<man, del>>
      /\ UNCHANGED <<place, retired, due>>

ReleaseVolume(s) ==
  LET v == app[s[1]].vol
  IN  /\ At(s, "release")
      /\ \/ v = None /\ Finish(s, job[s]) /\ UNCHANGED <<place, retired, due>>
         \/ /\ v # None /\ app[s[1]].driver /\ place[v] # "gone"
            /\ Free(v) /\ Retire(v, "user") /\ Finish(s, job[s])
         \/ /\ v # None /\ (Fault \/ ((~app[s[1]].driver \/ place[v] = "gone") /\ UNCHANGED budget))
            /\ job' = [job EXCEPT ![s] = Past(s, [@ EXCEPT !.soft = TRUE])]
            /\ UNCHANGED <<place, retired, due, man, del>>
      /\ UNCHANGED app

(* The rows go only when nothing before failed.                            *)
DeleteRows(s) ==
  LET a == s[1]
  IN  /\ At(s, "rows")
      /\ \/ ~job[s].soft /\ app' = [app EXCEPT ![a] = [Clear(@) EXCEPT !.here = FALSE, !.doomed = FALSE]]
            /\ Finish(s, job[s])
         \/ job[s].soft /\ Throw(s) /\ UNCHANGED <<app, budget>>
      /\ UNCHANGED <<place, retired, due>>

(***************************************************************************)
(* Compensation                                                            *)
(***************************************************************************)
StepIndex(s, step) == CHOOSE i \in 1 .. Len(Steps[s[2]]) : Steps[s[2]][i] = step
Undoing(s, step) ==
  /\ job[s].st = "undoing" /\ ~job[s].sup /\ step \in job[s].left
  /\ \A other \in job[s].left : StepIndex(s, other) <= StepIndex(s, step)

(* What a compensation did is there: its row is written, or the engine     *)
(* dies and it is tried again.                                             *)
Undone(s, step) == job' = [job EXCEPT ![s].left = @ \ {step}] /\ UNCHANGED <<man, del, budget>>
UndoSucceeds(s, step) == Undone(s, step) \/ (Restart /\ UNCHANGED job)
UndoFails(s, step) ==
  /\ Fault /\ job' = [job EXCEPT ![s].left = @ \ {step}, ![s].owes = @ \cup {step}]
  /\ UNCHANGED <<man, del>>

UndoCreate(s) ==
  LET v == job[s].vol
  IN  /\ Undoing(s, "create")
      /\ \/ retired[v] # "no" /\ Undone(s, "create") /\ UNCHANGED world
         \/ /\ retired[v] = "no" /\ Free(v) /\ Retire(v, "provisional")
            /\ UndoSucceeds(s, "create") /\ UNCHANGED app
         \/ retired[v] = "no" /\ UndoFails(s, "create") /\ UNCHANGED world

UndoAttach(s) ==
  LET v == job[s].vol
      on == place[v] = Home[s[1]]
  IN  /\ Undoing(s, "attach")
      /\ \/ /\ place' = IF on THEN [place EXCEPT ![v] = "free"] ELSE place
            /\ UndoSucceeds(s, "attach")
         \/ on /\ UndoFails(s, "attach") /\ UNCHANGED place
      /\ UNCHANGED <<app, retired, due>>

(* The record is cleared before the container is recreated, which may      *)
(* throw.  Restoring the scaling bounds makes a revision.                  *)
UndoRecord(s) ==
  LET a == s[1]
      cleared == [Clear(app[a]) EXCEPT !.cur = FALSE]
  IN  /\ Undoing(s, "record")
      /\ \/ /\ app' = [app EXCEPT ![a] = IF app[a].here THEN Recreated(cleared, Bare) ELSE @]
            /\ UndoSucceeds(s, "record")
         \/ /\ app[a].here /\ app' = [app EXCEPT ![a] = [cleared EXCEPT !.box = Down]]
            /\ UndoFails(s, "record")
      /\ UNCHANGED <<place, retired, due>>

UndoMount(s) ==
  LET a == s[1]
      before == Mounted(app[a], job[s].old)
  IN  /\ Undoing(s, "update")
      /\ \/ /\ app' = [app EXCEPT ![a] = Recreated(before, [vol |-> job[s].vol, path |-> job[s].old])]
            /\ UndoSucceeds(s, "update")
         \/ app' = [app EXCEPT ![a] = before] /\ UndoFails(s, "update")
      /\ UNCHANGED <<place, retired, due>>

(* The walk ends; what it still owes a later tick tries again, and a later *)
(* claim ends it at once.                                                  *)
UndoEnds(s) ==
  /\ job[s].st = "undoing" /\ (job[s].left = {} \/ job[s].sup)
  /\ job' = [job EXCEPT ![s] = IF @.owes = {} \/ @.sup THEN Ended("compensated") ELSE [@ EXCEPT !.st = "owing"]]
  /\ UNCHANGED <<world, man, del, budget>>

UndoAgain(s) ==
  /\ job[s].st = "owing" /\ Unlocked(job[s].lock)
  /\ job' = [job EXCEPT ![s].st = "undoing", ![s].left = job[s].owes, ![s].owes = {}]
  /\ UNCHANGED <<world, man, del, budget>>
=============================================================================
