---------------------------- MODULE VolumeActors ----------------------------
(***************************************************************************)
(* Who asks for the operations of Volumes and VolumeRelease, and who       *)
(* deletes volumes: apply_manifest with its children, the destruction of   *)
(* an app with the finalizer that repeats it, the sweep of provisional     *)
(* volumes and the deletion of a retained one through the panel.           *)
(***************************************************************************)
EXTENDS VolumeRelease

CONSTANTS
  Modes        \* how manifests are applied: "candidate" (a deploy that also
               \* stores the configuration), "config" (stored, then applied)

ASSUME ModesAssumption == Modes \subseteq {"candidate", "config"}

(* What a manifest may ask for: no volume, one of its own, or one by id.   *)
Wish ==
  {[vol |-> None, path |-> None]} \cup
  [vol : {New} \cup {v \in Vol : place[v] # "unborn"}, path : Path]
Phase == <<"candidate", "detach", "take", "resize", "remount", "reload">>
NoManifest == [st |-> "idle", at |-> 0, mode |-> None, want |-> None, kids |-> {}, waits |-> None]

Requested == budget.edits > 0 /\ budget' = [budget EXCEPT !.edits = @ - 1]

(***************************************************************************)
(* apply_manifest                                                          *)
(***************************************************************************)
(* One manifest at a time; a configuration-only one is stored at once,     *)
(* which makes a revision.  Its row is a claim on the app as well.  Of the *)
(* former operations of the app only the last detachment matters any more. *)
ApplyManifest(a, mode, w) ==
  /\ man[a].st # "active" /\ app[a].here /\ ~app[a].doomed
  /\ Requested
  /\ man' = [man EXCEPT ![a] = [NoManifest EXCEPT !.st = "active", !.at = 1, !.mode = mode, !.want = w]]
  /\ app' = [app EXCEPT ![a].cur = (@ /\ mode = "candidate")]
  /\ job' = Claim({a}, [s \in Slot |-> IF s[1] = a /\ s[2] # "detach" /\ ~Live(s) THEN NoJob ELSE job[s]])
  /\ UNCHANGED <<place, retired, due, del>>

(* Mutant: a volume that is not the one asked for is kept.                 *)
AnyVolume(a) == FALSE

WrongVolume(a) ==
  \/ man[a].want.vol \in Vol /\ app[a].vol # man[a].want.vol
  \/ man[a].want.vol = New /\ app[a].adopted

(* The operation that a phase of the reconcile step needs, if any, by the  *)
(* row of the app as it is now.  The path is looked at only after a resize *)
(* was needed and done.                                                    *)
Needed(a, i) ==
  LET w == man[a].want
      r == app[a]
      mounted == w.vol # None /\ r.vol # None
  IN  CASE Phase[i] = "candidate" /\ man[a].mode = "candidate" -> "redeploy"
        [] Phase[i] = "detach" /\ r.vol # None /\ (w.vol = None \/ WrongVolume(a)) -> "detach"
        [] Phase[i] = "take" /\ w.vol # None /\ r.vol = None -> IF w.vol = New THEN "attach" ELSE "adopt"
        [] Phase[i] = "resize" /\ mounted -> "resize"
        [] Phase[i] = "remount" /\ man[a].at = i /\ r.path # w.path -> "remount"
        [] Phase[i] = "reload" /\ man[a].mode = "config" -> "reload"
        [] OTHER -> "nothing"

Work(a) == {i \in man[a].at .. Len(Phase) : Needed(a, i) # "nothing"}
Reconciles(a) == man[a].st = "active" /\ man[a].waits = None
EndManifest(a, st) == man' = [man EXCEPT ![a] = [NoManifest EXCEPT !.st = st]]

ManifestDone(a) ==
  /\ Reconciles(a) /\ app[a].here /\ Work(a) = {}
  /\ EndManifest(a, "done")
  /\ UNCHANGED <<world, job, del, budget>>

(* A child is found again by its suffix, also by a step that was restarted *)
(* and needs it anew.                                                      *)
RunChild(a, i) ==
  LET kind == Needed(a, i)
      w == man[a].want
  IN  /\ kind \in Kind
      /\ kind \in man[a].kids \/ ~Live(<<a, kind>>)   \* a bound: one operation of a kind
      /\ man' = [man EXCEPT ![a].at = i, ![a].waits = kind, ![a].kids = @ \cup {kind}]
      /\ IF kind \in man[a].kids THEN UNCHANGED job
         ELSE Enqueue(a, kind, CASE kind = "adopt" -> w.vol [] kind = "attach" -> None [] OTHER -> app[a].vol, w.path)
      /\ UNCHANGED <<world, del, budget>>

(* The redeployment child stores the configuration first, which makes a    *)
(* revision; the reload child starts what is not at the current one.       *)
Stored(row, kind) == [row EXCEPT !.cur = (@ /\ kind = "reload")]

(* Either starts the image with the mount that is recorded now.            *)
RunContainer(a, i) ==
  LET kind == Needed(a, i)
  IN  /\ kind \in {"redeploy", "reload"}
      /\ \/ /\ Unlocked({a}) /\ ~app[a].doomed
            /\ app' = [app EXCEPT ![a] = IF kind \in man[a].kids THEN @
                                         ELSE Recreated(Stored(@, kind), Recorded(a))]
            /\ job' = IF kind \in man[a].kids THEN job ELSE Claim({a}, job)
            /\ man' = [man EXCEPT ![a].at = i + 1, ![a].kids = @ \cup {kind}]
            /\ UNCHANGED budget
         \/ /\ kind \notin man[a].kids /\ Fault
            /\ EndManifest(a, "failed") /\ UNCHANGED <<app, job>>
         \/ app[a].doomed /\ EndManifest(a, "failed") /\ UNCHANGED <<app, job, budget>>
      /\ UNCHANGED <<place, retired, due, del>>

ReconcileManifest(a) ==
  /\ Reconciles(a) /\ app[a].here /\ Work(a) # {}
  /\ LET i == CHOOSE i \in Work(a) : \A j \in Work(a) : i <= j
     IN  RunChild(a, i) \/ RunContainer(a, i)

AwaitChild(a) ==
  LET child == <<a, man[a].waits>>
  IN  /\ man[a].st = "active" /\ man[a].waits # None /\ ~Live(child)
      /\ IF job[child].st = "done" THEN man' = [man EXCEPT ![a].at = @ + 1, ![a].waits = None]
         ELSE EndManifest(a, "failed")
      /\ UNCHANGED <<world, job, del, budget>>

AppVanished(a) ==
  /\ Reconciles(a) /\ ~app[a].here
  /\ EndManifest(a, "failed")
  /\ UNCHANGED <<world, job, del, budget>>

(***************************************************************************)
(* Destruction                                                             *)
(***************************************************************************)
(* A user asks, or the reconciler finds an app marked for deletion and no  *)
(* operation that works on it.                                             *)
DestroyApp(a) ==
  /\ app[a].here /\ ~Live(<<a, "destroy">>)
  /\ \/ ~app[a].doomed /\ Requested
     \/ app[a].doomed /\ Unlocked({a}) /\ UNCHANGED budget
  /\ Enqueue(a, "destroy", app[a].vol, None)
  /\ UNCHANGED <<world, man, del>>

(***************************************************************************)
(* Deletion of volumes                                                     *)
(***************************************************************************)
(* Seven days pass, in which every operation ends.                         *)
Expire(v) ==
  /\ retired[v] = "provisional" /\ v \notin due /\ del = None
  /\ \A s \in Slot : ~Live(s)
  /\ \A a \in App : man[a].st # "active"
  /\ due' = due \cup {v}
  /\ UNCHANGED <<app, place, retired, job, man, del, budget>>

(* The owners are looked up before the provider is asked.                  *)
SweepVolume(v) ==
  /\ del = None /\ v \in due /\ Owners(v) = {}
  /\ del' = [by |-> "sweep", vol |-> v, seen |-> FALSE]
  /\ UNCHANGED <<world, job, man, budget>>

DeleteRetained(v) ==
  /\ del = None /\ retired[v] # "no" /\ Owners(v) = {} /\ Requested
  /\ del' = [by |-> "panel", vol |-> v, seen |-> FALSE]
  /\ UNCHANGED <<world, job, man>>

(* Only the sweep looks whether the volume is attached.                    *)
InspectVolume ==
  /\ del # None /\ ~del.seen
  /\ \/ /\ place[del.vol] # "gone" /\ ~(del.by = "sweep" /\ Attached(del.vol))
        /\ del' = [del EXCEPT !.seen = TRUE] /\ UNCHANGED <<retired, due>>
     \/ /\ (del.by = "sweep" /\ Attached(del.vol)) \/ (del.by = "panel" /\ place[del.vol] = "gone")
        /\ del' = None /\ UNCHANGED <<retired, due>>
     \/ /\ del.by = "sweep" /\ place[del.vol] = "gone"
        /\ del' = None
        /\ retired' = [retired EXCEPT ![del.vol] = "no"] /\ due' = due \ {del.vol}
  /\ UNCHANGED <<app, place, job, man, budget>>

(* The driver detaches what is attached, and deletes.                      *)
DeleteVolume ==
  /\ del # None /\ del.seen
  /\ place' = [place EXCEPT ![del.vol] = "gone"]
  /\ retired' = [retired EXCEPT ![del.vol] = "no"] /\ due' = due \ {del.vol}
  /\ del' = None
  /\ UNCHANGED <<app, job, man, budget>>

(* The deletion fails, or its answer is lost.                              *)
DeleteFails ==
  /\ del # None /\ Fault
  /\ place' \in {place} \cup {[place EXCEPT ![v] = "gone"] : v \in {x \in {del.vol} : del.seen}}
  /\ del' = None
  /\ UNCHANGED <<app, retired, due, job, man>>

(* A recorded volume that is on no server is attached again, under the     *)
(* keys of the app and the volume.                                         *)
ReattachVolume(a) ==
  LET v == app[a].vol
  IN  /\ app[a].here /\ ~app[a].doomed /\ v # None /\ app[a].driver
      /\ place[v] = "free" /\ Unlocked({a, v})
      /\ place' = [place EXCEPT ![v] = Home[a]]
      /\ UNCHANGED <<app, retired, due, job, man, del, budget>>

(***************************************************************************)
(* The system                                                              *)
(***************************************************************************)
(* Every app runs, at most one of them with a volume; the retained ones    *)
(* belonged to apps that are gone.                                         *)
Fresh == [here |-> TRUE, doomed |-> FALSE, vol |-> None, path |-> None, adopted |-> FALSE,
          driver |-> FALSE, box |-> Bare, cur |-> TRUE]
Using(v, p) == [Fresh EXCEPT !.vol = v, !.path = p, !.driver = TRUE, !.box = [vol |-> v, path |-> p]]

Init ==
  /\ \E owner \in App \cup {None}, v \in Vol \ Kept, p \in Path :
       /\ app = [a \in App |-> IF a = owner THEN Using(v, p) ELSE Fresh]
       /\ place = [x \in Vol |-> IF x \in Kept THEN "free"
                                 ELSE IF x = v /\ owner # None THEN Home[owner] ELSE "unborn"]
  /\ retired = [v \in Vol |-> IF v \in Kept THEN "user" ELSE "no"]
  /\ due = {}
  /\ job = [s \in Slot |-> NoJob]
  /\ man = [a \in App |-> NoManifest]
  /\ del = None
  /\ budget = [faults |-> MaxFaults, edits |-> MaxEdits]

Run(s) == Begin(s) \/ StepFails(s) \/ UndoEnds(s) \/ UndoAgain(s)

Attaching(s) ==
  \/ CreateVolume(s) \/ CreateUnanswered(s) \/ CreateRefused(s) \/ RecordVolume(s)
  \/ RecreateContainer(s) \/ RecreateFails(s) \/ UndoCreate(s) \/ UndoRecord(s)
Adopting(s) ==
  \/ AttachVolume(s) \/ AttachUnconfirmed(s) \/ AttachRefused(s) \/ RecordVolume(s)
  \/ RecreateContainer(s) \/ RecreateFails(s) \/ UndoAttach(s) \/ UndoRecord(s)
Detaching(s) ==
  \/ DetachVolume(s) \/ DetachRefused(s) \/ DetachUnconfirmed(s)
  \/ ClearAppVolume(s) \/ RecreateBare(s) \/ RecreateBareFails(s)
Resizing(s) == ResizeVolume(s) \/ ResizeRefused(s)
Remounting(s) ==
  \/ ValidateMount(s) \/ ValidateRefused(s) \/ UpdateMount(s)
  \/ RecreateContainer(s) \/ RecreateFails(s) \/ UndoMount(s)
Destroying(s) == StopApp(s) \/ ReleaseVolume(s) \/ DeleteRows(s)

Operation(s) ==
  /\ Busy(s)
  /\ \/ s[2] = "attach" /\ Attaching(s)
     \/ s[2] = "adopt" /\ Adopting(s)
     \/ s[2] = "detach" /\ Detaching(s)
     \/ s[2] = "resize" /\ Resizing(s)
     \/ s[2] = "remount" /\ Remounting(s)
     \/ s[2] = "destroy" /\ Destroying(s)

Manifest(a) ==
  \/ budget.edits > 0 /\ \E w \in Wish, mode \in Modes : ApplyManifest(a, mode, w)
  \/ ReconcileManifest(a) \/ AwaitChild(a) \/ ManifestDone(a) \/ AppVanished(a)
  \/ DestroyApp(a) \/ ReattachVolume(a)

Deletion ==
  \/ \E v \in Vol : Expire(v) \/ SweepVolume(v) \/ DeleteRetained(v)
  \/ InspectVolume \/ DeleteVolume \/ DeleteFails

Next ==
  \/ \E s \in Slot : Live(s) /\ (Run(s) \/ Operation(s))
  \/ \E a \in App : Manifest(a)
  \/ Deletion \/ Crash

Spec == Init /\ [][Next]_vars
=============================================================================
