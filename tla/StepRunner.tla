----------------------------- MODULE StepRunner -----------------------------
(***************************************************************************)
(* src/engine/step-runner.ts: one durable saga per operation, and          *)
(* awaitChildren of src/engine/ops/_children.ts, the wait of a parent.     *)
(*                                                                         *)
(* JavaScript runs one segment between two awaits without interruption, so *)
(* an action is one such segment: it settles the await the runner is at,   *)
(* and carries on to the next await or to the end of the operation.  The   *)
(* segments are the operators below; each gives the operation's row and    *)
(* runner after it.                                                        *)
(***************************************************************************)
EXTENDS Scheduler

VARIABLES
  runner,  \* runner[o]: where the live runOperation call of o is suspended
  world    \* the side effects that exist outside the database

Pc == {"idle",                            \* no live call
       "probe", "run", "ran", "await",    \* forward: step.probe, step.run
       "undoProbe", "undo", "undid"}      \* probeCompensated, compensate

(* `ran` and `undid`: the side effect is out, its row is not yet written.  *)
(* `cancelled` and `failed` are the locals `cancelled` and `anyFailed`.    *)
Runner == [pc: Pc, at: Nat, cancelled: BOOLEAN, failed: BOOLEAN]
Idle == [pc |-> "idle", at |-> 0, cancelled |-> FALSE, failed |-> FALSE]

RunnerInit ==
  /\ runner = [o \in Op |-> Idle]
  /\ world = {}

RunnerTypeOK ==
  /\ runner \in [Op -> Runner]
  /\ world \subseteq Resource

Least(S) == CHOOSE i \in S : \A j \in S : i <= j
Greatest(S) == CHOOSE i \in S : \A j \in S : j <= i

Exit(r) == [row |-> r, runner |-> Idle]
Suspend(r, x) == [row |-> r, runner |-> x]

(* The end of the reverse walk: an incomplete one leaves the row as it is,  *)
(* in compensating, for another pass.                                       *)
(* Mutant: a walk with failed compensations ends the operation. *)
EndRegardless(r, x) ==
  Exit(MarkFinished(r, IF x.cancelled THEN "cancelled" ELSE "compensated"))
EndWalk(r, x) ==
  IF x.failed THEN Exit(r)
  ELSE Exit(MarkFinished(r, IF x.cancelled THEN "cancelled" ELSE "compensated"))

(* The reverse walk of runCompensation over the steps below i.  A newer    *)
(* owner fences what is left, the steps that failed in this walk included. *)
UndoBelow(o, r, i, x) ==
  LET owed    == (UndoOf(o) \cap r.fwd) \ r.undone
      todo    == {j \in owed : j < i}
      next    == Greatest(todo)
      outcome == IF x.cancelled THEN "cancelled" ELSE "compensated"
  IN  CASE todo # {} /\ Superseded(o) ->
             Exit(MarkFinished([r EXCEPT !.undone = @ \cup owed], outcome))
        [] todo # {} /\ ~Superseded(o) ->
             Suspend(r, [x EXCEPT !.at = next,
                           !.pc = IF next \in Shape[req[o]].goneCheck
                                  THEN "undoProbe" ELSE "undo"])
        [] OTHER -> EndWalk(r, x)

UndoAll(o, r, cancelled) ==
  UndoBelow(o, r, Shape[req[o]].steps + 1, [Idle EXCEPT !.cancelled = cancelled])

(* The catch of runOperationInner. *)
FailForward(o, r) == UndoAll(o, MarkCompensating(r), CancelRequested(r))

(* The forward loop from the step after i.  Cancellation is looked at      *)
(* before every step, recorded or not, but not after the last one.         *)
StepsAfter(o, i) == {j \in StepsOf(o) : j > i}

ForwardFrom(o, r, i) ==
  LET rest == StepsAfter(o, i)
      todo == rest \cap Unrecorded(o, r)
      next == Least(todo)
      stop == rest # {} /\ CancelRequested(r)
  IN  CASE stop -> FailForward(o, r)
        [] ~stop /\ todo # {} ->
             Suspend(r, [Idle EXCEPT !.at = next,
                           !.pc = IF next \in Shape[req[o]].probed
                                  THEN "probe" ELSE "run"])
        [] OTHER -> Exit(MarkFinished(r, "done"))

(* runOperationInner up to its first await. *)
Begin(o, r) ==
  LET fenced == Shape[req[o]].destroys /\ parent[o] # NoOp /\ AncestorSuperseded(o)
  IN  CASE fenced -> Exit(MarkFinished(r, "cancelled"))
        [] ~fenced /\ r.status = "compensating" -> UndoAll(o, Bumped(r), FALSE)
        [] OTHER -> ForwardFrom(o, MarkRunning(r), 0)

RecordStep(o, i) == ForwardFrom(o, [row[o] EXCEPT !.fwd = @ \cup {i}], i)
RecordUndo(o, i) == UndoBelow(o, [row[o] EXCEPT !.undone = @ \cup {i}], i, runner[o])

(* Leave o where the segment left it.  When runOperation is over, the      *)
(* finally of tryStart gives back the keys and the in-flight entry.        *)
Settle(o, held, out) ==
  /\ row' = [row EXCEPT ![o] = out.row]
  /\ runner' = [runner EXCEPT ![o] = out.runner]
  /\ parked' = Unparked(o)
  /\ IF out.runner.pc = "idle"
     THEN /\ holders' = Released(held, KeysOf(o))
          /\ inFlight' = inFlight \ {o}
     ELSE /\ holders' = held
          /\ inFlight' = inFlight \cup {o}

At(o, pc) == runner[o].pc = pc
Goto(o, pc) == runner' = [runner EXCEPT ![o].pc = pc]

-----------------------------------------------------------------------------
(* Forward steps. *)

(* step.probe found the side effect; its output is recorded as this step's. *)
Adopt(o) ==
  /\ At(o, "probe")
  /\ EffectOf(o, runner[o].at) \subseteq world
  /\ Settle(o, holders, RecordStep(o, runner[o].at))
  /\ UNCHANGED <<req, parent, world>>

(* The probe found nothing, or failed inconclusively: run the step. *)
ProbeFallsThrough(o) ==
  /\ At(o, "probe")
  /\ Goto(o, "run")
  /\ UNCHANGED <<storeVars, memoryVars, world>>

(* FatalProbeError: the step fails without being run. *)
ProbeRejects(o) ==
  /\ At(o, "probe")
  /\ Settle(o, holders, FailForward(o, row[o]))
  /\ UNCHANGED <<req, parent, world>>

(* step.run of a step without children has its side effect. *)
RunTakesEffect(o) ==
  /\ At(o, "run")
  /\ SpawnsOf(o, runner[o].at) = {}
  /\ world' = world \cup EffectOf(o, runner[o].at)
  /\ Goto(o, "ran")
  /\ UNCHANGED <<storeVars, memoryVars>>

(* step.run throws; it is taken to have left nothing behind. *)
RunThrows(o) ==
  /\ At(o, "run")
  /\ Settle(o, holders, FailForward(o, row[o]))
  /\ UNCHANGED <<req, parent, world>>

(* step.run returns and finishStep writes its ok row. *)
RunReturns(o) ==
  /\ At(o, "ran")
  /\ Settle(o, holders, RecordStep(o, runner[o].at))
  /\ UNCHANGED <<req, parent, world>>

-----------------------------------------------------------------------------
(* Children. *)

(* The children the step has yet to enqueue, by their idempotency keys. *)
(* Mutant: the idempotency key only finds children that are not over. *)
Respawned(o) ==
  {r \in SpawnsOf(o, runner[o].at) :
     \A c \in Children(o, runner[o].at) : req[c] = r => row[c].status \in Terminal}
Unspawned(o) ==
  {r \in SpawnsOf(o, runner[o].at) : \A c \in Children(o, runner[o].at) : req[c] # r}

(* A step enqueues a child, unless its idempotency key finds an older one. *)
SpawnChild(o) ==
  /\ At(o, "run")
  /\ \E r \in Unspawned(o) : Insert(r, o)
  /\ UNCHANGED <<memoryVars, runner, world>>

(* Every child exists: ctx.park(), and poll until they are all terminal. *)
AwaitChildren(o) ==
  /\ At(o, "run")
  /\ SpawnsOf(o, runner[o].at) # {}
  /\ Unspawned(o) = {}
  /\ Goto(o, "await")
  /\ parked' = Parked(o)
  /\ UNCHANGED <<storeVars, holders, inFlight, world>>

Outstanding(o) ==
  {c \in Children(o, runner[o].at) : row[c].status \notin Terminal}
(* Mutant: a rolled-back child does not count as failed. *)
ChildFailedForward(o) ==
  \E c \in Children(o, runner[o].at) : row[c].status = "failed"
ChildFailed(o) ==
  \E c \in Children(o, runner[o].at) :
    row[c].status \in {"failed", "compensated", "compensation_failed"}

(* A cancelled parent cancels its outstanding children and keeps waiting. *)
PassCancelOn(o) ==
  /\ At(o, "await")
  /\ CancelRequested(row[o])
  /\ Outstanding(o) # {}
  /\ row' = [c \in Op |-> IF c \in Outstanding(o) THEN Cancelled(row[c]) ELSE row[c]]
  /\ UNCHANGED <<req, parent, memoryVars, runner, world>>

(* Nothing outstanding, and cancelled or a child failed: the step throws. *)
AwaitThrows(o) ==
  /\ At(o, "await")
  /\ Outstanding(o) = {}
  /\ CancelRequested(row[o]) \/ ChildFailed(o)
  /\ Settle(o, holders, FailForward(o, row[o]))
  /\ UNCHANGED <<req, parent, world>>

(* Nothing outstanding and no child failed: unpark and finish the run. *)
ChildrenSettled(o) ==
  /\ At(o, "await")
  /\ Outstanding(o) = {}
  /\ ~CancelRequested(row[o])
  /\ ~ChildFailed(o)
  /\ world' = world \cup EffectOf(o, runner[o].at)
  /\ Goto(o, "ran")
  /\ parked' = Unparked(o)
  /\ UNCHANGED <<storeVars, holders, inFlight>>

-----------------------------------------------------------------------------
(* Compensation. *)

(* probeCompensated finds nothing left to undo: the row is skipped. *)
UndoNotNeeded(o) ==
  /\ At(o, "undoProbe")
  /\ EffectOf(o, runner[o].at) \cap world = {}
  /\ Settle(o, holders, RecordUndo(o, runner[o].at))
  /\ UNCHANGED <<req, parent, world>>

UndoProbeFallsThrough(o) ==
  /\ At(o, "undoProbe")
  /\ Goto(o, "undo")
  /\ UNCHANGED <<storeVars, memoryVars, world>>

UndoTakesEffect(o) ==
  /\ At(o, "undo")
  /\ world' = world \ EffectOf(o, runner[o].at)
  /\ Goto(o, "undid")
  /\ UNCHANGED <<storeVars, memoryVars>>

UndoReturns(o) ==
  /\ At(o, "undid")
  /\ Settle(o, holders, RecordUndo(o, runner[o].at))
  /\ UNCHANGED <<req, parent, world>>

(* compensate throws: remember it and go on with the earlier steps. *)
UndoThrows(o) ==
  /\ At(o, "undo")
  /\ Settle(o, holders,
            UndoBelow(o, row[o], runner[o].at, [runner[o] EXCEPT !.failed = TRUE]))
  /\ UNCHANGED <<req, parent, world>>

RunnerStep(o) ==
  \/ Adopt(o) \/ ProbeFallsThrough(o) \/ ProbeRejects(o)
  \/ RunTakesEffect(o) \/ RunThrows(o) \/ RunReturns(o)
  \/ SpawnChild(o) \/ AwaitChildren(o)
  \/ PassCancelOn(o) \/ AwaitThrows(o) \/ ChildrenSettled(o)
  \/ UndoNotNeeded(o) \/ UndoProbeFallsThrough(o)
  \/ UndoTakesEffect(o) \/ UndoReturns(o) \/ UndoThrows(o)
=============================================================================
