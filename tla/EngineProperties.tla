-------------------------- MODULE EngineProperties --------------------------
(***************************************************************************)
(* What the operation engine promises, stated over the state of Engine.    *)
(***************************************************************************)
EXTENDS Engine

ForwardPc == {"probe", "run", "ran", "await"}
UndoPc == {"undoProbe", "undo", "undid"}
Rollbackable(o) == UndoOf(o) \cap row[o].fwd

(* Two operations that lock a common key are never in flight together,     *)
(* whichever of tick, sweep, retry and restart started them.               *)
KeyExclusion ==
  \A o, p \in inFlight : o # p => KeysOf(o) \cap KeysOf(p) = {}

(* A key the scheduler lists under an operation belongs to a live runner   *)
(* that asked for it, and a live runner holds all its keys: release is     *)
(* unconditional, so one stray release would unlock somebody else.         *)
HoldersAreLive ==
  /\ \A k \in Key : holders[k] \in Op =>
       holders[k] \in inFlight /\ k \in KeysOf(holders[k])
  /\ \A o \in inFlight : \A k \in KeysOf(o) : holders[k] = o

(* Only a runner that is waiting for its children has given its slot back. *)
(* A stale parked mark would let the engine run more than MAX_CONCURRENT.  *)
ParkedIsAwaiting == parked = {o \in Op : runner[o].pc = "await"}

(* The in-flight map has an entry exactly for the suspended runners, and   *)
(* only operations in the table run or are being finalized.                *)
RunnersMatch ==
  /\ \A o \in Op : o \in inFlight <=> runner[o].pc # "idle"
  /\ \A o \in inFlight \cup finalizing : Exists(o)

(* The inductive invariant behind key exclusion.                           *)
EngineInv == TypeOK /\ HoldersAreLive /\ ParkedIsAwaiting /\ RunnersMatch

(* An operation that reports `compensated` has no recorded step whose      *)
(* compensation is neither recorded nor fenced, over any number of crashes,*)
(* failed walks and retries.                                               *)
CompensatedIsComplete ==
  \A o \in Op : row[o].status = "compensated" =>
    Rollbackable(o) \subseteq row[o].undone

(* Once a compensation is recorded the operation never runs forward again: *)
(* no retry, sweep or restart turns a rollback back into forward work.     *)
NoForwardAfterRollback ==
  \A o \in Op : row[o].undone # {} =>
    /\ runner[o].pc \notin ForwardPc
    /\ row[o].status \notin {"pending", "running", "done"}

(* A step with a completed row is not executed again, forward or back: the *)
(* runner is only ever at a step it still owes.  Nor is one left out: an   *)
(* operation that is done has every step recorded and nothing undone.      *)
OnlyOwedStepsRun ==
  \A o \in Op :
    /\ runner[o].pc \in ForwardPc => runner[o].at \notin row[o].fwd
    /\ runner[o].pc \in UndoPc =>
         runner[o].at \in Rollbackable(o) \ row[o].undone
    /\ row[o].status = "done" => StepsOf(o) \subseteq row[o].fwd /\ row[o].undone = {}

(* What a newer operation has recorded as its own and not undone is never  *)
(* taken from the world by the rollback of an older operation.             *)
TakesFrom(o, p) ==
  \E i \in StepsOf(p) :
    /\ i \in row[p].fwd \ row[p].undone
    /\ At(o, "undo")
    /\ runner'[o].pc = "undid"
    /\ EffectOf(p, i) \cap world # EffectOf(p, i) \cap world'

RollbackSparesNewerOwner ==
  [][\A o, p \in Op : o < p /\ Exists(p) => ~TakesFrom(o, p)]_vars

(* A runner that was asked to cancel begins no further forward step.       *)
NoNewStepAfterCancel ==
  [][\A o \in Op :
       /\ row[o].cancelReq
       /\ runner'[o].pc \in {"probe", "run"}
       => runner[o].pc # "idle" /\ runner'[o].at = runner[o].at]_vars

(* However often a parent is restarted between enqueueing its children and *)
(* recording the step, each child it wants exists once.                    *)
ChildrenAreUnique ==
  \A c, d \in Op :
    parent[c] # NoOp /\ parent[c] = parent[d] /\ req[c] = req[d] => c = d

(* Two requests for the same keys are served in the order they came in.    *)
NoOvertaking ==
  [][\A o, p \in Pending \ inFlight :
       o < p /\ KeysOf(o) = KeysOf(p) /\ Shape[req[o]].known => p \notin inFlight']_vars

(* The engine serialises operations per resource key: it implements the    *)
(* abstract keyed sections, a client for each operation row.               *)
Sections == INSTANCE KeyedSections
              WITH Client <- Op, inside <- inFlight, wants <- [o \in Op |-> KeysOf(o)]
SerializesPerKey == Sections!Spec

(* A parent that is done has left no child behind: each is over, and none  *)
(* of them failed or was rolled back.                                      *)
ParentDoneMeansChildrenOver ==
  \A p \in Op : row[p].status = "done" =>
    \A c \in Op : parent[c] = p /\ Exists(c) => row[c].status \in {"done", "cancelled"}

(* A child that destroys does not start once the parent's resources have a *)
(* newer owner: neither its forward steps nor its rollback.                *)
FencedChildStaysDown ==
  [][\A c \in Op :
       /\ Exists(c)
       /\ Shape[req[c]].destroys
       /\ parent[c] \in Op
       /\ Superseded(parent[c])
       /\ runner[c].pc = "idle"
       => runner'[c].pc = "idle"]_vars

(* An operation, once enqueued, is eventually over.                        *)
EveryOperationSettles ==
  \A o \in Op : Exists(o) ~> row[o].status \in Terminal

=============================================================================
