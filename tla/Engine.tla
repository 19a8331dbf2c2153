------------------------------- MODULE Engine -------------------------------
(***************************************************************************)
(* The operation engine of the panel process: the tick loop and restart    *)
(* recovery of src/engine/engine.ts, the stuck-state sweep of              *)
(* src/engine/stuck-sweep.ts, the recovery routes of                       *)
(* src/server/routes/operations.ts, and the non-operation sections that    *)
(* lock the same keys, all over the runners of StepRunner.                 *)
(***************************************************************************)
EXTENDS StepRunner

CONSTANTS
  Submittable,   \* the requests users and triggers enqueue
  OperatorActs,  \* which recovery routes are used: cancel, retry, finalize
  MaxRoots,      \* bound: operations enqueued without a parent
  MaxFaults      \* bound: process deaths and runner exceptions

ASSUME EngineAssumption ==
  /\ Submittable \subseteq Request
  /\ OperatorActs \subseteq {"cancel", "retry", "finalize"}
  /\ MaxRoots \in Nat
  /\ MaxFaults \in Nat

VARIABLES
  finalizing,  \* ops whose finalize handler is past its checks
  faults       \* faults so far, only counted to bound them

vars == <<req, parent, row, holders, inFlight, parked, runner, world,
          finalizing, faults>>

Init ==
  /\ StoreInit
  /\ MemoryInit
  /\ RunnerInit
  /\ finalizing = {}
  /\ faults = 0

TypeOK ==
  /\ StoreTypeOK
  /\ MemoryTypeOK
  /\ RunnerTypeOK
  /\ finalizing \subseteq Op
  /\ faults \in Nat

-----------------------------------------------------------------------------
(* Starting operations. *)

(* tryStart of an op whose kind is registered: lock its keys and run it up *)
(* to its first await.                                                     *)
Start(o) ==
  /\ Shape[req[o]].known
  /\ Settle(o, Acquired(KeysOf(o), o), Begin(o, row[o]))
  /\ UNCHANGED <<req, parent, world>>

(* tryStart of an op whose kind is not. *)
FailUnknown(o) ==
  /\ ~Shape[req[o]].known
  /\ row' = [row EXCEPT ![o] = MarkFinished(@, "failed")]
  /\ UNCHANGED <<req, parent, memoryVars, runner, world>>

TryStart(o) == Startable(o) /\ (Start(o) \/ FailUnknown(o))

(* tick scans the oldest pending rows in order, so that it starts the first *)
(* of them that can start.                                                  *)
TickPending(o) ==
  LET window == OldestPending(2 * MaxConcurrent)
  IN  /\ SlotFree
      /\ o \in window
      /\ \A p \in window : ListedBefore(p, o) => ~Startable(p)
      /\ TryStart(o)
      /\ UNCHANGED <<finalizing, faults>>

(* The second loop of tick: rows left in compensating. *)
TickCompensating(o) ==
  /\ SlotFree
  /\ row[o].status = "compensating"
  /\ TryStart(o)
  /\ UNCHANGED <<finalizing, faults>>

-----------------------------------------------------------------------------
(* sweepStuckStates.  Its age limits are elapsed time, which is left open:  *)
(* started_at is the first start ever, so any op may have passed them.      *)

SweepExhausted(o) ==
  /\ row[o].status = "compensating"
  /\ row[o].attempt >= MaxAttempts
  /\ row' = [row EXCEPT ![o] = MarkFinished(@, "compensation_failed")]
  /\ UNCHANGED <<req, parent, memoryVars, runner, world, finalizing, faults>>

(* requeueForCompensation starts the op with no look at the slots. *)
SweepRequeue(o) ==
  /\ row[o].status = "compensating"
  /\ row[o].attempt < MaxAttempts
  /\ TryStart(o)
  /\ UNCHANGED <<finalizing, faults>>

SweepZombie(o) ==
  /\ row[o].status = "running"
  /\ ~Held(o)
  /\ row' = [row EXCEPT ![o].status = "pending"]
  /\ UNCHANGED <<req, parent, memoryVars, runner, world, finalizing, faults>>

-----------------------------------------------------------------------------
(* Requests from outside the engine. *)

Roots == {o \in Op : Exists(o) /\ parent[o] = NoOp}

Submit(r) ==
  /\ Cardinality(Roots) < MaxRoots
  /\ Insert(r, NoOp)
  /\ UNCHANGED <<memoryVars, runner, world, finalizing, faults>>

CancelOperation(o) ==
  /\ "cancel" \in OperatorActs
  /\ Exists(o)
  /\ row' = [row EXCEPT ![o] = Cancelled(@)]
  /\ UNCHANGED <<req, parent, memoryVars, runner, world, finalizing, faults>>

(* handleRetryOperation on an op that is not over continues that op... *)
RetrySame(o) ==
  /\ "retry" \in OperatorActs
  /\ row[o].status \in {"pending", "running", "compensating", "compensation_failed"}
  /\ ~Held(o)
  /\ row' = [row EXCEPT ![o] = Requeued(@)]
  /\ UNCHANGED <<req, parent, memoryVars, runner, world, finalizing, faults>>

(* ... and on one that is over enqueues the same envelope again. *)
RetryAsNew(o) ==
  /\ "retry" \in OperatorActs
  /\ row[o].status \in {"failed", "cancelled", "compensated"}
  /\ ~Held(o)
  /\ Submit(req[o])

(* handleFinalizeOperation checks the op, then awaits the request body...  *)
FinalizeChecks(o) ==
  /\ "finalize" \in OperatorActs
  /\ Exists(o)
  /\ ~Held(o)
  /\ finalizing' = finalizing \cup {o}
  /\ UNCHANGED <<storeVars, memoryVars, runner, world, faults>>

(* ... and writes the status the operator asked for, or the one its        *)
(* assessment of the resources, left open here, allows.                    *)
FinalizeWrites(o) ==
  /\ o \in finalizing
  /\ \E s \in {"done", "failed"} : row' = [row EXCEPT ![o] = MarkFinished(@, s)]
  /\ finalizing' = finalizing \ {o}
  /\ UNCHANGED <<req, parent, memoryVars, runner, world, faults>>

(* ... or answers that the operation is not stale, or that its resources do *)
(* not match a success.                                                    *)
FinalizeRefused(o) ==
  /\ o \in finalizing
  /\ finalizing' = finalizing \ {o}
  /\ UNCHANGED <<storeVars, memoryVars, runner, world, faults>>

(* wake, convergence and the reconcilers lock a key under NON_OP_HOLDER.   *)
NonOpEnter(k) ==
  /\ Free({k})
  /\ holders' = Acquired({k}, NonOpHolder)
  /\ UNCHANGED <<storeVars, inFlight, parked, runner, world, finalizing, faults>>

NonOpLeave(k) ==
  /\ holders[k] = NonOpHolder
  /\ holders' = Released(holders, {k})
  /\ UNCHANGED <<storeVars, inFlight, parked, runner, world, finalizing, faults>>

-----------------------------------------------------------------------------
(* Faults. *)

(* A database error escapes runOperation: tryStart logs it and cleans up,  *)
(* the row stays as it was.                                                *)
RunnerFails(o) ==
  /\ o \in inFlight
  /\ faults < MaxFaults
  /\ faults' = faults + 1
  /\ Settle(o, holders, Exit(row[o]))
  /\ UNCHANGED <<req, parent, world, finalizing>>

(* The process dies, and resumeInterruptedOperations runs before the loop. *)
CrashAndResume ==
  /\ faults < MaxFaults
  /\ faults' = faults + 1
  /\ holders' = [k \in Key |-> NoHolder]
  /\ inFlight' = {}
  /\ parked' = {}
  /\ runner' = [o \in Op |-> Idle]
  /\ finalizing' = {}
  /\ row' = [o \in Op |-> IF row[o].status = "running"
                          THEN [row[o] EXCEPT !.status = "pending"]
                          ELSE row[o]]
  /\ UNCHANGED <<req, parent, world>>

-----------------------------------------------------------------------------
Run(o) == RunnerStep(o) /\ UNCHANGED <<finalizing, faults>>

OpStep(o) ==
  \/ TickPending(o) \/ TickCompensating(o)
  \/ SweepExhausted(o) \/ SweepRequeue(o) \/ SweepZombie(o)
  \/ CancelOperation(o) \/ RetrySame(o) \/ RetryAsNew(o)
  \/ FinalizeChecks(o) \/ FinalizeWrites(o) \/ FinalizeRefused(o)
  \/ RunnerFails(o)
  \/ Run(o)

Next ==
  \/ \E o \in Op : OpStep(o)
  \/ \E r \in Submittable : Submit(r)
  \/ \E k \in NonOpKeys : NonOpEnter(k) \/ NonOpLeave(k)
  \/ CrashAndResume

Spec == Init /\ [][Next]_vars

(* The loop ticks, the reconciler sweeps, sections give their keys back,   *)
(* and what a runner awaits settles: every await in a step has a timeout.  *)
Fairness ==
  /\ \A o \in Op :
       /\ WF_vars(TickPending(o))
       /\ WF_vars(TickCompensating(o))
       /\ WF_vars(SweepExhausted(o))
       /\ WF_vars(SweepZombie(o))
       /\ WF_vars(Run(o))
  /\ \A k \in NonOpKeys : WF_vars(NonOpLeave(k))

FairSpec == Spec /\ Fairness
=============================================================================
