------------------------------ MODULE Scheduler ------------------------------
(***************************************************************************)
(* The volatile half of the engine process: the key holders of             *)
(* src/engine/scheduler.ts and the in-flight and parked sets of            *)
(* src/engine/engine.ts.  All of it is lost when the process dies.         *)
(***************************************************************************)
EXTENDS OperationStore

CONSTANTS
  MaxConcurrent,  \* MAX_CONCURRENT, from ENGINE_CONCURRENCY
  NonOpKeys       \* keys that non-operation sections (wake, reconcile) lock

ASSUME SchedulerAssumption ==
  /\ MaxConcurrent \in Nat \ {0}
  /\ NonOpKeys \subseteq Key

NoHolder == 0
NonOpHolder == -1  \* NON_OP_HOLDER

VARIABLES
  holders,   \* holders[k]: the op id holding k, NonOpHolder or NoHolder
  inFlight,  \* ops whose runOperation promise is live
  parked     \* in-flight ops that gave their concurrency slot back

memoryVars == <<holders, inFlight, parked>>

MemoryInit ==
  /\ holders = [k \in Key |-> NoHolder]
  /\ inFlight = {}
  /\ parked = {}

MemoryTypeOK ==
  /\ holders \in [Key -> Op \cup {NoHolder, NonOpHolder}]
  /\ inFlight \subseteq Op
  /\ parked \subseteq Op

-----------------------------------------------------------------------------
(* tryAcquire takes every key or none; release deletes whatever it is given. *)

(* Mutant: one free key is enough. *)
FreeAnywhere(keys) == \E k \in keys : holders[k] = NoHolder
Free(keys) == \A k \in keys : holders[k] = NoHolder
(* Mutant: the keys are checked but not taken. *)
NotAcquired(keys, id) == holders
Acquired(keys, id) == [k \in Key |-> IF k \in keys THEN id ELSE holders[k]]
(* Mutant: release clears the whole map. *)
AllReleased(held, keys) == [k \in Key |-> NoHolder]
Released(held, keys) == [k \in Key |-> IF k \in keys THEN NoHolder ELSE held[k]]

(* opIsHeld, and the sweep's test for a live runner: o holds one of its keys. *)
Held(o) == \E k \in KeysOf(o) : holders[k] = o

ActiveCount == Cardinality(inFlight \ parked)
SlotFree == ActiveCount < MaxConcurrent

(* parkOp and unparkOp. *)
(* Mutant: a waiting parent keeps its slot. *)
NotParked(o) == parked
Parked(o) == parked \cup (inFlight \cap {o})
(* Mutant: the parked mark is never removed. *)
StillParked(o) == parked
Unparked(o) == parked \ {o}

(* tryStart gets past its checks: an unknown kind is failed without a lock. *)
Startable(o) ==
  /\ o \notin inFlight
  /\ Shape[req[o]].known => Free(KeysOf(o))
=============================================================================
