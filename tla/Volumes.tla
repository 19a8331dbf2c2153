------------------------------ MODULE Volumes ------------------------------
(***************************************************************************)
(* The storage volumes of apps: the operations that create, adopt, detach, *)
(* remount and destroy, each a row that is run step by step and undone in  *)
(* reverse, over the three places that say where a volume is: the row of   *)
(* the app, the provider, and the table of retired volumes.  An app here   *)
(* has one replica, on its server Home[a], and portable block storage.     *)
(*                                                                         *)
(* A step is one action: it has its effect and writes its row, or has its  *)
(* effect and the engine dies before the row (Finish).  The bind mount on  *)
(* the host is part of the step after it, a resize has no size, and the    *)
(* final checks of detach and destroy fold into the steps they report on.  *)
(***************************************************************************)
EXTENDS Naturals, Sequences, FiniteSets

CONSTANTS
  App, Vol, Server, Path,
  Home,        \* the server of an app's only replica
  Kept,        \* the volumes that exist, retired, in the beginning
  New,         \* "a volume of my own", against a volume by its id
  None, Down,
  MaxFaults,   \* crashes and failed or lost calls
  MaxEdits     \* requests of users: manifests, destructions, deletions

ASSUME HomeAssumption == Home \in [App -> Server]
ASSUME KeptAssumption == Kept \subseteq Vol
ASSUME BoundAssumption == MaxFaults \in Nat /\ MaxEdits \in Nat

VARIABLES
  app,      \* the row of each app; box is the mount its container has, cur
            \* whether the container has the labels wanted now
  place,    \* where the provider has each volume
  retired,  \* the class under which a volume is retained
  due,      \* the provisional volumes past purge_after
  job,      \* the operations, one of a kind for each app
  man,      \* the apply_manifest operation of each app
  del,      \* the deletion in progress: [by, vol, seen], or None
  budget    \* what is left of the faults and of the requests

vars == <<app, place, retired, due, job, man, del, budget>>
world == <<app, place, retired, due>>

Kind == {"attach", "adopt", "detach", "resize", "remount", "destroy"}
Slot == App \X Kind

(* Null is nothing's id, and "new" no volume's.                            *)
ASSUME NamesAssumption == New \notin Vol /\ None \notin App \cup Vol \cup Path \cup Kind \cup {New}

Steps ==
  [attach  |-> <<"create", "record", "recreate">>,
   adopt   |-> <<"attach", "record", "recreate">>,
   detach  |-> <<"detach", "clear", "recreate">>,
   resize  |-> <<"resize">>,
   remount |-> <<"validate", "update", "recreate">>,
   destroy |-> <<"stop", "release", "rows">>]

Undoable ==
  [attach |-> {"create", "record"}, adopt |-> {"attach", "record"}, remount |-> {"update"},
   detach |-> {}, resize |-> {}, destroy |-> {}]

NoJob == [st |-> "idle", lock |-> {}, at |-> 0, vol |-> None, path |-> None, old |-> None,
          left |-> {}, owes |-> {}, soft |-> FALSE, sup |-> FALSE]

Live(s) == job[s].st \in {"pending", "running", "undoing", "owing"}
Busy(s) == job[s].st \in {"running", "undoing"}
At(s, step) == job[s].st = "running" /\ Steps[s[2]][job[s].at] = step
Attached(v) == place[v] \in Server
Owners(v) == {a \in App : app[a].here /\ app[a].vol = v}

(* The mount an app's row asks for.                                        *)
Bare == [vol |-> None, path |-> None]
Recorded(a) == [vol |-> app[a].vol, path |-> app[a].path]

(***************************************************************************)
(* The queue and the runner                                                *)
(***************************************************************************)
KeysOf(a, kind, v) ==
  CASE kind = "attach" -> {a}
    [] kind = "resize" -> {v}
    [] OTHER -> {a, v} \ {None}

(* A row has lost its claim when there is a later one on its app, or on    *)
(* any of its keys where one of the two names no app.                      *)
Contests(keys, lock) ==
  IF keys \cap App # {} /\ lock \cap App # {} THEN keys \cap lock \cap App # {} ELSE keys \cap lock # {}
Claim(keys, rows) ==
  [s \in Slot |-> IF Live(s) /\ Contests(keys, job[s].lock) THEN [rows[s] EXCEPT !.sup = TRUE] ELSE rows[s]]

Enqueue(a, kind, v, p) ==
  LET keys == KeysOf(a, kind, v)
  IN  job' = Claim(keys, [job EXCEPT ![<<a, kind>>] =
                            [NoJob EXCEPT !.st = "pending", !.lock = keys, !.vol = v, !.path = p]])

Unlocked(keys) == \A s \in Slot : Busy(s) => job[s].lock \cap keys = {}

Begin(s) ==
  /\ job[s].st = "pending" /\ Unlocked(job[s].lock)
  /\ job' = [job EXCEPT ![s].st = "running", ![s].at = 1]
  /\ UNCHANGED <<world, man, del, budget>>

(* The engine dies: manifests run their step from the start, a sweep ends; *)
(* a deletion asked through the panel is another process.                  *)
Restart ==
  /\ budget.faults > 0
  /\ budget' = [budget EXCEPT !.faults = @ - 1]
  /\ man' = [a \in App |-> IF man[a].st = "active" THEN [man[a] EXCEPT !.at = 1, !.waits = None] ELSE man[a]]
  /\ del' = IF del # None /\ del.by = "sweep" THEN None ELSE del

Crash == Restart /\ UNCHANGED <<world, job>>

Ended(st) == [NoJob EXCEPT !.st = st]
Past(s, row) ==
  IF row.at = Len(Steps[s[2]]) THEN Ended("done") ELSE [row EXCEPT !.at = @ + 1]

(* The effect of a step is there: its row is written, or the engine dies.  *)
Finish(s, row) ==
  \/ job' = [job EXCEPT ![s] = Past(s, row)] /\ UNCHANGED <<man, del, budget>>
  \/ job' = [job EXCEPT ![s] = row] /\ Restart

(* Mutant: the step before the one that failed is not undone.              *)
CompletedLess(s) == {Steps[s[2]][i] : i \in 1 .. job[s].at - 2} \cap Undoable[s[2]]

Completed(s) == {Steps[s[2]][i] : i \in 1 .. job[s].at - 1} \cap Undoable[s[2]]

(* A step throws: what was completed is undone, unless a later operation   *)
(* has claimed it.                                                         *)
Thrown(s, row) ==
  CASE Completed(s) = {} -> Ended("failed")
    [] Completed(s) # {} /\ row.sup -> Ended("compensated")
    [] OTHER -> [row EXCEPT !.st = "undoing", !.left = Completed(s)]
Throw(s) == job' = [job EXCEPT ![s] = Thrown(s, @)] /\ UNCHANGED <<man, del>>

Fault == budget.faults > 0 /\ budget' = [budget EXCEPT !.faults = @ - 1]

(* A step that calls out may fail before it has had an effect; at "record" *)
(* it is the bind mount, the step before, that does.                       *)
StepFails(s) ==
  /\ \/ \E step \in {"create", "attach", "detach", "resize"} : At(s, step)
     \/ At(s, "record") /\ app[s[1]].vol = None
  /\ Fault /\ Throw(s)
  /\ UNCHANGED world

(* The container is recreated with mount m. One that runs with the labels  *)
(* wanted now is adopted as it is, and a mount is no label.                *)
Recreated(row, m) ==
  [row EXCEPT !.box = IF row.cur /\ row.box # Down THEN @ ELSE m, !.cur = TRUE]

(***************************************************************************)
(* attach_volume and attach_existing_volume                                *)
(***************************************************************************)
CanTake(a) == app[a].here /\ app[a].vol = None

(* The volume carries the operation's number in its name, so that a step   *)
(* that is run again finds it.                                             *)
CreateVolume(s) ==
  LET a == s[1]
      v == job[s].vol
  IN  /\ At(s, "create") /\ CanTake(a)
      /\ \/ /\ v = None
            /\ \E w \in {x \in Vol : place[x] = "unborn"} :
                 place' = [place EXCEPT ![w] = Home[a]] /\ Finish(s, [job[s] EXCEPT !.vol = w])
         \/ /\ v # None /\ place[v] \in {Home[a], "free"} /\ retired[v] = "no"
            /\ Finish(s, job[s]) /\ UNCHANGED place
      /\ UNCHANGED <<app, retired, due>>

(* The provider creates the volume and the answer is lost.                 *)
CreateUnanswered(s) ==
  /\ At(s, "create") /\ CanTake(s[1]) /\ job[s].vol = None /\ Fault
  /\ \E w \in {x \in Vol : place[x] = "unborn"} : place' = [place EXCEPT ![w] = Home[s[1]]]
  /\ Throw(s)
  /\ UNCHANGED <<app, retired, due>>

CreateRefused(s) ==
  /\ At(s, "create")
  /\ \/ ~CanTake(s[1])
     \/ job[s].vol # None /\ (retired[job[s].vol] # "no" \/ place[job[s].vol] \notin {Home[s[1]], "free"})
  /\ Throw(s) /\ UNCHANGED <<world, budget>>

(* Mutant: a volume is taken from wherever it is.                          *)
TakenFromAnywhere(a, v) == place[v] # "gone"

Takeable(a, v) == place[v] \in {"free", Home[a]}

AttachVolume(s) ==
  LET a == s[1]
      v == job[s].vol
  IN  /\ At(s, "attach") /\ CanTake(a) /\ Takeable(a, v)
      /\ place' = [place EXCEPT ![v] = Home[a]]
      /\ Finish(s, job[s])
      /\ UNCHANGED <<app, retired, due>>

(* The attachment is not confirmed, and taken back, or not.                *)
AttachUnconfirmed(s) ==
  LET a == s[1]
      v == job[s].vol
  IN  /\ At(s, "attach") /\ CanTake(a) /\ place[v] = "free" /\ Fault
      /\ place' = [place EXCEPT ![v] = Home[a]]
      /\ Throw(s)
      /\ UNCHANGED <<app, retired, due>>

AttachRefused(s) ==
  /\ At(s, "attach") /\ ~(CanTake(s[1]) /\ Takeable(s[1], job[s].vol))
  /\ Throw(s) /\ UNCHANGED <<world, budget>>

(* The scaling bounds are written with the volume, which makes a revision. *)
(* The key of the app keeps it from being another's by now.                *)
RecordVolume(s) ==
  LET a == s[1]
      v == job[s].vol
      adopts == s[2] = "adopt"
  IN  /\ At(s, "record") /\ app[a].here /\ app[a].vol \in {None, v}
      /\ app' = [app EXCEPT ![a] = [@ EXCEPT !.vol = v, !.path = job[s].path, !.adopted = adopts,
                                              !.driver = TRUE, !.cur = FALSE]]
      /\ retired' = IF adopts THEN [retired EXCEPT ![v] = "no"] ELSE retired
      /\ due' = IF adopts THEN due \ {v} ELSE due
      /\ Finish(s, job[s])
      /\ UNCHANGED place

(* The last step of attach, adopt and remount.                             *)
RecreateContainer(s) ==
  LET a == s[1]
  IN  /\ At(s, "recreate") /\ s[2] # "detach" /\ app[a].here
      /\ app' = [app EXCEPT ![a] = Recreated(@, [vol |-> job[s].vol, path |-> job[s].path])]
      /\ Finish(s, job[s])
      /\ UNCHANGED <<place, retired, due>>

(* The new container does not start, or not healthily.                     *)
RecreateFails(s) ==
  LET a == s[1]
      m == [vol |-> job[s].vol, path |-> job[s].path]
  IN  /\ At(s, "recreate") /\ s[2] # "detach" /\ app[a].here /\ Fault
      /\ app' \in {[app EXCEPT ![a] = Recreated(@, m)], [app EXCEPT ![a].box = IF app[a].cur THEN @ ELSE Down]}
      /\ Throw(s)
      /\ UNCHANGED <<place, retired, due>>
=============================================================================
