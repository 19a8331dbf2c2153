---------------------------- MODULE EngineProofs ----------------------------
(***************************************************************************)
(* Type correctness and key exclusion of the operation engine, for every   *)
(* set of requests, shapes, keys and bounds.                               *)
(***************************************************************************)
EXTENDS EngineProperties, TLAPS, WellFoundedInduction

(* A non-empty set of naturals has a least element, and one below a bound  *)
(* a greatest: what the CHOOSE of Least and Greatest needs.                *)
LEMMA LeastNat ==
  ASSUME NEW S \in SUBSET Nat, S # {}
  PROVE  Least(S) \in S /\ \A j \in S : Least(S) <= j
<1>1. \E i \in S : \A j \in S : ~ (<<j, i>> \in OpToRel(<, Nat))
  BY NatLessThanWellFounded, WFMin
<1>2. PICK i \in S : \A j \in S : ~ (<<j, i>> \in OpToRel(<, Nat))
  BY <1>1
<1>3. \A j, k \in Nat : j < k => <<j, k>> \in OpToRel(<, Nat)
  BY Zenon DEF OpToRel
<1>4. \A j \in S : ~ (j < i)
  BY <1>2, <1>3
<1>5. \A j \in S : i <= j
  BY <1>4
<1> QED
  BY <1>5 DEF Least

LEMMA GreatestNat ==
  ASSUME NEW n \in Nat, NEW S \in SUBSET Nat, S # {}, \A j \in S : j < n
  PROVE  Greatest(S) \in S /\ \A j \in S : j <= Greatest(S)
<1> DEFINE T == {n - j : j \in S}
<1>1. T \in SUBSET Nat /\ T # {}
  <2>1. \A j \in S : n - j \in Nat
    OBVIOUS
  <2>2. PICK i \in S : TRUE
    OBVIOUS
  <2>3. n - i \in T
    OBVIOUS
  <2> QED
    BY <2>1, <2>3, Zenon
<1>2. PICK j \in S : Least(T) = n - j
  BY <1>1, LeastNat
<1>3. \A k \in S : n - j <= n - k
  BY <1>1, <1>2, LeastNat
<1>4. \A k \in S : k <= j
  BY <1>3
<1> QED
  BY <1>4 DEF Greatest

-----------------------------------------------------------------------------
(* Types of the segments. *)

(* The row of an operation that exists, and what a segment may leave. *)
LiveRow == {r \in Row : r.status # "none"}
Suspended == {x \in Runner : x.pc \in {"idle", "probe", "run", "undoProbe", "undo"}}
Segment == [row: LiveRow, runner: Suspended]

(* What the shape of a request is made of. *)
LEMMA ShapeFacts ==
  ASSUME NEW r \in Request
  PROVE  /\ Shape[r].keys \in SUBSET Key
         /\ Shape[r].steps \in Nat
         /\ Shape[r].undo \in SUBSET Nat
         /\ Shape[r].effect \in SUBSET (Nat \X Resource)
         /\ Shape[r].spawns \in SUBSET (Nat \X Request)
  BY StoreAssumption DEF StoreAssumption, ShapeType

(* Every update of a row keeps its type and keeps it in the table. *)
LEMMA RowUpdates ==
  ASSUME NEW r \in LiveRow
  PROVE  /\ Bumped(r) \in LiveRow
         /\ MarkRunning(r) \in LiveRow
         /\ MarkCompensating(r) \in LiveRow
         /\ Cancelled(r) \in LiveRow
         /\ Requeued(r) \in LiveRow
         /\ \A s \in Terminal : MarkFinished(r, s) \in LiveRow
         /\ \A i \in Nat : [r EXCEPT !.fwd = @ \cup {i}] \in LiveRow
         /\ \A U \in SUBSET Nat : [r EXCEPT !.undone = @ \cup U] \in LiveRow
<1>1. Bumped(r) \in LiveRow
  BY StoreAssumption DEF StoreAssumption, Bumped, LiveRow, Row, Status
<1>2. MarkRunning(r) \in LiveRow
  BY <1>1 DEF MarkRunning, LiveRow, Row, Status
<1>3. MarkCompensating(r) \in LiveRow
  BY DEF MarkCompensating, LiveRow, Row, Status
<1>4. Cancelled(r) \in LiveRow
  BY DEF Cancelled, LiveRow, Row, Status, Terminal
<1>5. Requeued(r) \in LiveRow
  BY DEF Requeued, LiveRow, Row, Status
<1>6. \A s \in Terminal : MarkFinished(r, s) \in LiveRow
  BY DEF MarkFinished, LiveRow, Row, Status, Terminal
<1>7. \A i \in Nat : [r EXCEPT !.fwd = @ \cup {i}] \in LiveRow
  BY DEF LiveRow, Row
<1>8. \A U \in SUBSET Nat : [r EXCEPT !.undone = @ \cup U] \in LiveRow
  BY DEF LiveRow, Row
<1> QED
  BY <1>1, <1>2, <1>3, <1>4, <1>5, <1>6, <1>7, <1>8

(* The end of runOperation is a segment that leaves nothing running. *)
LEMMA ExitSegment ==
  ASSUME NEW r \in LiveRow
  PROVE  Exit(r) \in Segment /\ Exit(r).runner.pc = "idle"
  BY DEF Exit, Segment, Suspended, Runner, Idle, Pc

(* Suspending before a step is a segment. *)
LEMMA SuspendSegment ==
  ASSUME NEW r \in LiveRow, NEW x \in Runner, NEW i \in Nat,
         NEW pc \in {"probe", "run", "undoProbe", "undo"}
  PROVE  Suspend(r, [x EXCEPT !.at = i, !.pc = pc]) \in Segment
<1>1. [x EXCEPT !.at = i, !.pc = pc] \in Runner
  BY DEF Runner, Pc
<1>2. [x EXCEPT !.at = i, !.pc = pc].pc = pc
  BY DEF Runner
<1> QED
  BY <1>1, <1>2 DEF Suspend, Segment, Suspended

(* The reverse walk ends or suspends at a step. *)
LEMMA UndoBelowSegment ==
  ASSUME NEW o \in Op, req[o] \in Request, NEW r \in LiveRow, NEW i \in Nat,
         NEW x \in Runner
  PROVE  UndoBelow(o, r, i, x) \in Segment
<1> DEFINE owed == (UndoOf(o) \cap r.fwd) \ r.undone
           todo == {j \in owed : j < i}
           next == Greatest(todo)
           outcome == IF x.cancelled THEN "cancelled" ELSE "compensated"
<1>1. owed \in SUBSET Nat /\ todo \in SUBSET Nat
  BY ShapeFacts DEF UndoOf
<1>2. outcome \in Terminal
  BY DEF Terminal
<1>3. CASE todo # {} /\ Superseded(o)
  <2>1. UndoBelow(o, r, i, x)
          = Exit(MarkFinished([r EXCEPT !.undone = @ \cup owed], outcome))
    BY <1>3 DEF UndoBelow
  <2>2. [r EXCEPT !.undone = @ \cup owed] \in LiveRow
    BY <1>1, RowUpdates
  <2> QED
    BY <2>1, <2>2, <1>2, RowUpdates, ExitSegment
<1>4. CASE todo # {} /\ ~Superseded(o)
  <2>1. next \in Nat
    BY <1>1, <1>4, GreatestNat
  <2>2. UndoBelow(o, r, i, x)
          = Suspend(r, [x EXCEPT !.at = next,
                          !.pc = IF next \in Shape[req[o]].goneCheck
                                 THEN "undoProbe" ELSE "undo"])
    BY <1>4 DEF UndoBelow
  <2> QED
    BY <2>1, <2>2, SuspendSegment
<1>5. CASE todo = {}
  <2>1. UndoBelow(o, r, i, x) = EndWalk(r, x)
    BY <1>5 DEF UndoBelow
  <2> QED
    BY <2>1, <1>2, RowUpdates, ExitSegment DEF EndWalk
<1> QED
  BY <1>3, <1>4, <1>5

LEMMA FailForwardSegment ==
  ASSUME NEW o \in Op, req[o] \in Request, NEW r \in LiveRow
  PROVE  /\ FailForward(o, r) \in Segment
         /\ UndoAll(o, r, FALSE) \in Segment
<1>1. \A c \in BOOLEAN : [Idle EXCEPT !.cancelled = c] \in Runner
  BY DEF Idle, Runner, Pc
<1>2. Shape[req[o]].steps + 1 \in Nat
  BY ShapeFacts
<1>3. CancelRequested(r) \in BOOLEAN
  BY DEF CancelRequested, LiveRow, Row
<1> QED
  BY <1>1, <1>2, <1>3, RowUpdates, UndoBelowSegment DEF FailForward, UndoAll

LEMMA ForwardFromSegment ==
  ASSUME NEW o \in Op, req[o] \in Request, NEW r \in LiveRow, NEW i \in Nat
  PROVE  ForwardFrom(o, r, i) \in Segment
<1> DEFINE rest == StepsAfter(o, i)
           todo == rest \cap Unrecorded(o, r)
           next == Least(todo)
           stop == rest # {} /\ CancelRequested(r)
<1>1. todo \in SUBSET Nat
  BY ShapeFacts DEF StepsAfter, StepsOf
<1>2. CASE stop
  BY <1>2, FailForwardSegment DEF ForwardFrom
<1>3. CASE ~stop /\ todo # {}
  <2>1. next \in Nat
    BY <1>1, <1>3, LeastNat
  <2>2. ForwardFrom(o, r, i)
          = Suspend(r, [Idle EXCEPT !.at = next,
                          !.pc = IF next \in Shape[req[o]].probed
                                 THEN "probe" ELSE "run"])
    BY <1>3 DEF ForwardFrom
  <2>3. Idle \in Runner
    BY DEF Idle, Runner, Pc
  <2> QED
    BY <2>1, <2>2, <2>3, SuspendSegment
<1>4. CASE ~stop /\ todo = {}
  <2>1. ForwardFrom(o, r, i) = Exit(MarkFinished(r, "done"))
    BY <1>4 DEF ForwardFrom
  <2> QED
    BY <2>1, RowUpdates, ExitSegment DEF Terminal
<1> QED
  BY <1>2, <1>3, <1>4

LEMMA BeginSegment ==
  ASSUME NEW o \in Op, req[o] \in Request, NEW r \in LiveRow
  PROVE  Begin(o, r) \in Segment
<1> DEFINE fenced == Shape[req[o]].destroys /\ parent[o] # NoOp /\ AncestorSuperseded(o)
<1>1. CASE fenced
  <2>1. Begin(o, r) = Exit(MarkFinished(r, "cancelled"))
    BY <1>1 DEF Begin
  <2> QED
    BY <2>1, RowUpdates, ExitSegment DEF Terminal
<1>2. CASE ~fenced /\ r.status = "compensating"
  <2>1. Begin(o, r) = UndoAll(o, Bumped(r), FALSE)
    BY <1>2 DEF Begin
  <2> QED
    BY <2>1, RowUpdates, FailForwardSegment
<1>3. CASE ~fenced /\ r.status # "compensating"
  <2>1. Begin(o, r) = ForwardFrom(o, MarkRunning(r), 0)
    BY <1>3 DEF Begin
  <2> QED
    BY <2>1, RowUpdates, ForwardFromSegment
<1> QED
  BY <1>1, <1>2, <1>3

-----------------------------------------------------------------------------
(* The inductive invariant. *)

(* Locked keys are keys, and a row that exists has a request. *)
LEMMA KeysFacts ==
  ASSUME TypeOK, NEW o \in Op
  PROVE  KeysOf(o) \in SUBSET Key
  BY ShapeFacts DEF KeysOf

(* A segment ends with the locks, the in-flight set and the parked set all *)
(* telling the same story, whether it started the operation or resumed it. *)
LEMMA SettleKeeps ==
  ASSUME EngineInv, NEW o \in Op, Exists(o), NEW held, NEW out \in Segment,
         \/ held = holders /\ o \in inFlight
         \/ held = Acquired(KeysOf(o), o) /\ o \notin inFlight /\ Free(KeysOf(o)),
         Settle(o, held, out), UNCHANGED <<req, parent>>,
         world' \in SUBSET Resource, finalizing' \in SUBSET finalizing, faults' \in Nat
  PROVE  EngineInv'
<1> DEFINE K == KeysOf(o)
<1>0. K \in SUBSET Key /\ \A p \in Op : KeysOf(p)' = KeysOf(p)
  BY KeysFacts DEF EngineInv, KeysOf
<1>1. /\ held \in [Key -> Op \cup {NoHolder, NonOpHolder}]
      /\ \A k \in K : held[k] = o
      /\ \A k \in Key \ K : held[k] = holders[k]
  BY <1>0 DEF EngineInv, TypeOK, MemoryTypeOK, HoldersAreLive, Acquired
<1>2. NoHolder \notin Op
  BY DEF NoHolder, Op
<1>3. \A p \in inFlight : p \in Op
  BY DEF EngineInv, TypeOK, MemoryTypeOK
<1>4. \A k \in Key \ K : holders[k] # o
  BY DEF EngineInv, HoldersAreLive
<1>5. \A p \in inFlight \ {o} : KeysOf(p) \cap K = {}
  BY <1>2, <1>3 DEF EngineInv, HoldersAreLive, Free
<1>6. StoreTypeOK' /\ RunnerTypeOK'
  BY DEF Settle, EngineInv, TypeOK, StoreTypeOK, RunnerTypeOK, Segment, Suspended,
         LiveRow, Exists
<1>7. ParkedIsAwaiting'
  BY DEF Settle, EngineInv, TypeOK, RunnerTypeOK, MemoryTypeOK, ParkedIsAwaiting,
         Unparked, Segment, Suspended
<1>8. parked' \subseteq Op
  BY <1>7 DEF ParkedIsAwaiting
<1>9. CASE out.runner.pc = "idle"
  <2>1. holders' = Released(held, K) /\ inFlight' = inFlight \ {o}
    BY <1>9 DEF Settle
  <2>2. holders' \in [Key -> Op \cup {NoHolder, NonOpHolder}]
    BY <2>1, <1>1 DEF Released
  <2>3. /\ \A k \in K : holders'[k] = NoHolder
        /\ \A k \in Key \ K : holders'[k] = holders[k]
    BY <2>1, <1>0, <1>1 DEF Released
  <2>4. HoldersAreLive'
    <3>1. ASSUME NEW k \in Key, holders'[k] \in Op
          PROVE  holders'[k] \in inFlight' /\ k \in KeysOf(holders[k])'
                   /\ holders'[k] = holders[k]
      BY <3>1, <2>1, <2>3, <1>0, <1>2, <1>4 DEF EngineInv, HoldersAreLive
    <3>2. ASSUME NEW p \in inFlight', NEW k \in KeysOf(p)
          PROVE  holders'[k] = p
      BY <2>1, <2>3, <1>0, <1>3, <1>5, KeysFacts DEF EngineInv, HoldersAreLive
    <3> QED
      BY <3>1, <3>2, <2>1, <1>0, <1>3 DEF HoldersAreLive
  <2>5. RunnersMatch'
    BY <2>1, <1>9 DEF Settle, EngineInv, TypeOK, RunnerTypeOK, StoreTypeOK, MemoryTypeOK,
       RunnersMatch, Exists, Segment, LiveRow
  <2> QED
    BY <2>1, <2>2, <2>4, <2>5, <1>5, <1>6, <1>7, <1>8 DEF EngineInv, TypeOK, MemoryTypeOK
<1>10. CASE out.runner.pc # "idle"
  <2>1. holders' = held /\ inFlight' = inFlight \cup {o}
    BY <1>10 DEF Settle
  <2>2. HoldersAreLive'
    <3>1. ASSUME NEW k \in Key, holders'[k] \in Op
          PROVE  holders'[k] \in inFlight' /\ k \in KeysOf(held[k])'
                   /\ holders'[k] = held[k]
      BY <3>1, <2>1, <1>0, <1>1 DEF EngineInv, HoldersAreLive
    <3>2. ASSUME NEW p \in inFlight', NEW k \in KeysOf(p)
          PROVE  holders'[k] = p
      BY <2>1, <1>0, <1>1, <1>3, <1>5, KeysFacts DEF EngineInv, HoldersAreLive
    <3> QED
      BY <3>1, <3>2, <2>1, <1>0, <1>3 DEF HoldersAreLive
  <2>3. RunnersMatch'
    BY <2>1, <1>10 DEF Settle, EngineInv, TypeOK, RunnerTypeOK, StoreTypeOK, MemoryTypeOK,
       RunnersMatch, Exists, Segment, LiveRow
  <2> QED
    BY <2>1, <2>2, <2>3, <1>1, <1>5, <1>6, <1>7, <1>8 DEF EngineInv, TypeOK, MemoryTypeOK
<1> QED
  BY <1>9, <1>10

(* An update of rows alone that adds none and removes none. *)
LEMMA RowsKeep ==
  ASSUME EngineInv, row' \in [Op -> Row],
         \A o \in Op : row'[o].status = "none" <=> row[o].status = "none",
         UNCHANGED <<req, parent, memoryVars, runner, world>>,
         finalizing' \in SUBSET finalizing, faults' \in Nat
  PROVE  EngineInv'
<1>1. TypeOK'
  BY DEF EngineInv, TypeOK, StoreTypeOK, MemoryTypeOK, RunnerTypeOK, memoryVars
<1>2. HoldersAreLive'
  BY DEF EngineInv, HoldersAreLive, KeysOf, memoryVars
<1>3. ParkedIsAwaiting' /\ RunnersMatch'
  BY DEF EngineInv, TypeOK, MemoryTypeOK, ParkedIsAwaiting, RunnersMatch, Exists, memoryVars
<1> QED
  BY <1>1, <1>2, <1>3 DEF EngineInv

(* One row that exists changes and goes on existing. *)
LEMMA RowKeeps ==
  ASSUME EngineInv, NEW o \in Op, Exists(o), NEW r \in LiveRow,
         row' = [row EXCEPT ![o] = r],
         UNCHANGED <<req, parent, memoryVars, runner, world>>,
         finalizing' \in SUBSET finalizing, faults' \in Nat
  PROVE  EngineInv'
  BY RowsKeep DEF EngineInv, TypeOK, StoreTypeOK, LiveRow, Exists

(* A runner moves on within its operation. *)
LEMMA GotoKeeps ==
  ASSUME EngineInv, NEW o \in Op, ~At(o, "idle"), ~At(o, "await"),
         NEW pc \in Pc \ {"idle", "await"}, Goto(o, pc),
         UNCHANGED <<storeVars, memoryVars>>, world' \in SUBSET Resource,
         finalizing' \in SUBSET finalizing, faults' \in Nat
  PROVE  EngineInv'
<1>1. TypeOK'
  BY DEF EngineInv, TypeOK, StoreTypeOK, MemoryTypeOK, RunnerTypeOK, memoryVars, storeVars,
     Goto, Runner
<1>2. HoldersAreLive'
  BY DEF EngineInv, HoldersAreLive, KeysOf, memoryVars, storeVars
<1>3. ParkedIsAwaiting' /\ RunnersMatch'
  BY DEF EngineInv, TypeOK, RunnerTypeOK, MemoryTypeOK, ParkedIsAwaiting, RunnersMatch,
     Exists, memoryVars, storeVars, Goto, At
<1> QED
  BY <1>1, <1>2, <1>3 DEF EngineInv

(* A new row is pending and runs nowhere yet. *)
LEMMA InsertKeeps ==
  ASSUME EngineInv, NEW r \in Request, NEW p \in Op \cup {NoOp}, Insert(r, p),
         UNCHANGED <<memoryVars, runner, world>>,
         finalizing' \in SUBSET finalizing, faults' \in Nat
  PROVE  EngineInv'
<1>1. PICK o \in Op : /\ ~Exists(o)
                      /\ req' = [req EXCEPT ![o] = r]
                      /\ parent' = [parent EXCEPT ![o] = p]
                      /\ row' = [row EXCEPT ![o] = FreshRow]
  BY DEF Insert
<1>2. FreshRow \in LiveRow
  <2>1. NoRow \in Row
    BY StoreAssumption DEF StoreAssumption, NoRow, Row, Status
  <2>2. FreshRow \in Row /\ FreshRow.status = "pending"
    BY <2>1 DEF FreshRow, Row, Status
  <2> QED
    BY <2>2 DEF LiveRow
<1>3. TypeOK'
  BY <1>1, <1>2 DEF EngineInv, TypeOK, StoreTypeOK, MemoryTypeOK, RunnerTypeOK, memoryVars,
     LiveRow
<1>4. o \notin inFlight
  BY <1>1 DEF EngineInv, RunnersMatch
<1>5. \A q \in Op \ {o} : KeysOf(q)' = KeysOf(q)
  BY <1>1 DEF KeysOf, EngineInv, TypeOK, StoreTypeOK
<1>6. HoldersAreLive'
  BY <1>4, <1>5 DEF EngineInv, HoldersAreLive, memoryVars, TypeOK, MemoryTypeOK
<1>7. ParkedIsAwaiting' /\ RunnersMatch'
  BY <1>1, <1>2 DEF EngineInv, TypeOK, StoreTypeOK, MemoryTypeOK, ParkedIsAwaiting,
     RunnersMatch, Exists, memoryVars, LiveRow
<1> QED
  BY <1>3, <1>6, <1>7 DEF EngineInv

-----------------------------------------------------------------------------
(* The actions. *)

(* What a live runner may settle with is a segment. *)
LEMMA OutcomeSegments ==
  ASSUME TypeOK, NEW o \in Op, Exists(o)
  PROVE  /\ row[o] \in LiveRow /\ req[o] \in Request
         /\ RecordStep(o, runner[o].at) \in Segment
         /\ RecordUndo(o, runner[o].at) \in Segment
         /\ FailForward(o, row[o]) \in Segment
         /\ UndoBelow(o, row[o], runner[o].at, [runner[o] EXCEPT !.failed = TRUE])
              \in Segment
         /\ Exit(row[o]) \in Segment
         /\ Begin(o, row[o]) \in Segment
<1>1. row[o] \in LiveRow /\ req[o] \in Request
  BY DEF TypeOK, StoreTypeOK, LiveRow, Exists
<1>2. runner[o] \in Runner /\ runner[o].at \in Nat
  BY DEF TypeOK, RunnerTypeOK, Runner
<1>3. [runner[o] EXCEPT !.failed = TRUE] \in Runner
  BY <1>2 DEF Runner
<1>4. RecordStep(o, runner[o].at) \in Segment
  BY <1>1, <1>2, RowUpdates, ForwardFromSegment DEF RecordStep
<1>5. RecordUndo(o, runner[o].at) \in Segment
  BY <1>1, <1>2, RowUpdates, UndoBelowSegment DEF RecordUndo
<1> QED
  BY <1>1, <1>2, <1>3, <1>4, <1>5, FailForwardSegment, UndoBelowSegment, ExitSegment,
     BeginSegment

(* A runner that is at an await belongs to an operation in flight. *)
LEMMA LiveRunner ==
  ASSUME EngineInv, NEW o \in Op, ~At(o, "idle")
  PROVE  o \in inFlight /\ Exists(o)
  BY DEF EngineInv, RunnersMatch, At

(* The children of a step and their rows are those of the table. *)
LEMMA SpawnsFacts ==
  ASSUME NEW o \in Op, req[o] \in Request, NEW i \in Nat
  PROVE  SpawnsOf(o, i) \in SUBSET Request /\ EffectOf(o, i) \in SUBSET Resource
  BY ShapeFacts DEF SpawnsOf, EffectOf

(* Every step of a runner keeps the invariant. *)
LEMMA RunnerStepKeeps ==
  ASSUME EngineInv, NEW o \in Op, RunnerStep(o), UNCHANGED <<finalizing, faults>>
  PROVE  EngineInv'
<1>1. ~At(o, "idle")
  BY DEF RunnerStep, At, Adopt, ProbeFallsThrough, ProbeRejects, RunTakesEffect, RunThrows,
     RunReturns, SpawnChild, AwaitChildren, PassCancelOn, AwaitThrows, ChildrenSettled,
     UndoNotNeeded, UndoProbeFallsThrough, UndoTakesEffect, UndoReturns, UndoThrows
<1>2. o \in inFlight /\ Exists(o)
  BY <1>1, LiveRunner
<1>3. /\ row[o] \in LiveRow /\ req[o] \in Request
      /\ RecordStep(o, runner[o].at) \in Segment
      /\ RecordUndo(o, runner[o].at) \in Segment
      /\ FailForward(o, row[o]) \in Segment
      /\ UndoBelow(o, row[o], runner[o].at, [runner[o] EXCEPT !.failed = TRUE])
           \in Segment
  BY <1>2, OutcomeSegments DEF EngineInv
<1>4. /\ EffectOf(o, runner[o].at) \in SUBSET Resource
      /\ SpawnsOf(o, runner[o].at) \in SUBSET Request
  BY <1>3, SpawnsFacts DEF EngineInv, TypeOK, RunnerTypeOK, Runner
<1>5. /\ world \in SUBSET Resource
      /\ finalizing' \in SUBSET finalizing
      /\ faults' \in Nat
  BY DEF EngineInv, TypeOK, RunnerTypeOK
<1>6. ASSUME NEW out \in Segment, Settle(o, holders, out), UNCHANGED <<req, parent, world>>
      PROVE  EngineInv'
  BY <1>2, <1>5, <1>6, SettleKeeps
<1>7. ASSUME NEW pc \in Pc \ {"idle", "await"}, Goto(o, pc), ~At(o, "await"),
             UNCHANGED <<storeVars, memoryVars>>, world' \in SUBSET Resource
      PROVE  EngineInv'
  BY <1>1, <1>5, <1>7, GotoKeeps
<1>8. CASE Adopt(o)
  BY <1>8, <1>3, <1>6 DEF Adopt
<1>9. CASE ProbeFallsThrough(o)
  BY <1>9, <1>5, <1>7 DEF ProbeFallsThrough, At, Pc
<1>10. CASE ProbeRejects(o)
  BY <1>10, <1>3, <1>6 DEF ProbeRejects
<1>11. CASE RunTakesEffect(o)
  BY <1>11, <1>4, <1>5, <1>7 DEF RunTakesEffect, At, Pc
<1>12. CASE RunThrows(o)
  BY <1>12, <1>3, <1>6 DEF RunThrows
<1>13. CASE RunReturns(o)
  BY <1>13, <1>3, <1>6 DEF RunReturns
<1>14. CASE SpawnChild(o)
  <2>1. PICK r \in Unspawned(o) : Insert(r, o)
    BY <1>14 DEF SpawnChild
  <2>2. r \in Request
    BY <1>4 DEF Unspawned
  <2> QED
    BY <1>14, <1>5, <2>1, <2>2, InsertKeeps DEF SpawnChild
<1>15. CASE AwaitChildren(o)
  <2>1. runner' = [runner EXCEPT ![o].pc = "await"] /\ parked' = parked \cup {o}
    BY <1>15, <1>2 DEF AwaitChildren, Goto, Parked
  <2>2. TypeOK'
    BY <1>15, <2>1 DEF AwaitChildren, EngineInv, TypeOK, StoreTypeOK, MemoryTypeOK,
       RunnerTypeOK, storeVars, Runner, Pc
  <2>3. HoldersAreLive'
    BY <1>15 DEF AwaitChildren, EngineInv, HoldersAreLive, KeysOf, storeVars
  <2>4. ParkedIsAwaiting' /\ RunnersMatch'
    BY <1>15, <1>2, <2>1 DEF AwaitChildren, EngineInv, TypeOK, RunnerTypeOK, MemoryTypeOK,
       ParkedIsAwaiting, RunnersMatch, Exists, storeVars, Runner
  <2> QED
    BY <2>2, <2>3, <2>4 DEF EngineInv
<1>16. CASE PassCancelOn(o)
  <2>1. \A c \in Op : /\ row'[c] \in Row
                      /\ row'[c].status = "none" <=> row[c].status = "none"
    <3>1. TAKE c \in Op
    <3>2. CASE c \in Outstanding(o)
      BY <1>16, <3>2, RowUpdates DEF PassCancelOn, Outstanding, Children, Exists, LiveRow,
         EngineInv, TypeOK, StoreTypeOK
    <3>3. CASE c \notin Outstanding(o)
      BY <1>16, <3>3 DEF PassCancelOn, EngineInv, TypeOK, StoreTypeOK
    <3> QED
      BY <3>2, <3>3
  <2>2. row' \in [Op -> Row]
    BY <1>16, <2>1 DEF PassCancelOn
  <2> QED
    BY <1>16, <1>5, <2>1, <2>2, RowsKeep DEF PassCancelOn
<1>17. CASE AwaitThrows(o)
  BY <1>17, <1>3, <1>6 DEF AwaitThrows
<1>18. CASE ChildrenSettled(o)
  <2>1. runner' = [runner EXCEPT ![o].pc = "ran"] /\ parked' = parked \ {o}
    BY <1>18 DEF ChildrenSettled, Goto, Unparked
  <2>2. TypeOK'
    BY <1>18, <1>4, <2>1 DEF ChildrenSettled, EngineInv, TypeOK, StoreTypeOK, MemoryTypeOK,
       RunnerTypeOK, storeVars, Runner, Pc
  <2>3. HoldersAreLive'
    BY <1>18 DEF ChildrenSettled, EngineInv, HoldersAreLive, KeysOf, storeVars
  <2>4. ParkedIsAwaiting' /\ RunnersMatch'
    BY <1>18, <1>2, <2>1 DEF ChildrenSettled, EngineInv, TypeOK, RunnerTypeOK, MemoryTypeOK,
       ParkedIsAwaiting, RunnersMatch, Exists, storeVars, Runner
  <2> QED
    BY <2>2, <2>3, <2>4 DEF EngineInv
<1>19. CASE UndoNotNeeded(o)
  BY <1>19, <1>3, <1>6 DEF UndoNotNeeded
<1>20. CASE UndoProbeFallsThrough(o)
  BY <1>20, <1>5, <1>7 DEF UndoProbeFallsThrough, At, Pc
<1>21. CASE UndoTakesEffect(o)
  BY <1>21, <1>5, <1>7 DEF UndoTakesEffect, At, Pc
<1>22. CASE UndoReturns(o)
  BY <1>22, <1>3, <1>6 DEF UndoReturns
<1>23. CASE UndoThrows(o)
  BY <1>23, <1>3, <1>6 DEF UndoThrows
<1> QED
  BY <1>8, <1>9, <1>10, <1>11, <1>12, <1>13, <1>14, <1>15, <1>16, <1>17, <1>18, <1>19,
     <1>20, <1>21, <1>22, <1>23 DEF RunnerStep

(* Starting an operation, whoever starts it. *)
LEMMA TryStartKeeps ==
  ASSUME EngineInv, NEW o \in Op, Exists(o), TryStart(o), UNCHANGED <<finalizing, faults>>
  PROVE  EngineInv'
<1>1. row[o] \in LiveRow /\ req[o] \in Request /\ Begin(o, row[o]) \in Segment
  BY OutcomeSegments DEF EngineInv
<1>2. /\ world \in SUBSET Resource
      /\ finalizing' \in SUBSET finalizing
      /\ faults' \in Nat
  BY DEF EngineInv, TypeOK, RunnerTypeOK
<1>3. CASE Start(o)
  BY <1>3, <1>1, <1>2, SettleKeeps DEF TryStart, Startable, Start
<1>4. CASE FailUnknown(o)
  <2>1. MarkFinished(row[o], "failed") \in LiveRow
    BY <1>1, RowUpdates DEF Terminal
  <2> QED
    BY <1>4, <1>2, <2>1, RowKeeps DEF FailUnknown
<1> QED
  BY <1>3, <1>4 DEF TryStart

(* A non-operation section takes a free key, or gives back its own. *)
LEMMA NonOpKeeps ==
  ASSUME EngineInv, NEW k \in NonOpKeys, NonOpEnter(k) \/ NonOpLeave(k)
  PROVE  EngineInv'
<1>1. k \in Key /\ NonOpHolder \notin Op /\ NoHolder \notin Op
  BY SchedulerAssumption DEF SchedulerAssumption, NonOpHolder, NoHolder, Op
<1>2. holders[k] \notin Op /\ holders'[k] \notin Op
  BY <1>1 DEF NonOpEnter, NonOpLeave, Free, Acquired, Released
<1>3. \A j \in Key \ {k} : holders'[j] = holders[j]
  BY DEF NonOpEnter, NonOpLeave, Acquired, Released
<1>4. holders' \in [Key -> Op \cup {NoHolder, NonOpHolder}]
  BY DEF NonOpEnter, NonOpLeave, Acquired, Released, EngineInv, TypeOK, MemoryTypeOK
<1>5. UNCHANGED <<req, parent, row, inFlight, parked, runner, world, finalizing, faults>>
  BY DEF NonOpEnter, NonOpLeave, storeVars
<1>6. TypeOK'
  BY <1>4, <1>5 DEF EngineInv, TypeOK, StoreTypeOK, MemoryTypeOK, RunnerTypeOK
<1>7. HoldersAreLive'
  BY <1>2, <1>3, <1>5, KeysFacts DEF EngineInv, HoldersAreLive, KeysOf, TypeOK, MemoryTypeOK
<1>8. ParkedIsAwaiting' /\ RunnersMatch'
  BY <1>5 DEF EngineInv, ParkedIsAwaiting, RunnersMatch, Exists
<1> QED
  BY <1>6, <1>7, <1>8 DEF EngineInv

(* A new process starts with nothing locked and nothing running. *)
LEMMA CrashKeeps ==
  ASSUME EngineInv, CrashAndResume
  PROVE  EngineInv'
<1>1. \A o \in Op : /\ row'[o] \in Row
                    /\ row'[o].status = "none" <=> row[o].status = "none"
  BY DEF CrashAndResume, EngineInv, TypeOK, StoreTypeOK, Row, Status
<1>2. row' \in [Op -> Row]
  BY <1>1 DEF CrashAndResume
<1>3. Idle \in Runner /\ Idle.pc = "idle"
  BY DEF Idle, Runner, Pc
<1>4. NoHolder \notin Op
  BY DEF NoHolder, Op
<1>5. TypeOK'
  BY <1>1, <1>2, <1>3 DEF CrashAndResume, EngineInv, TypeOK, StoreTypeOK, MemoryTypeOK,
     RunnerTypeOK
<1>6. HoldersAreLive'
  BY <1>4 DEF CrashAndResume, HoldersAreLive
<1>7. ParkedIsAwaiting' /\ RunnersMatch'
  BY <1>3 DEF CrashAndResume, ParkedIsAwaiting, RunnersMatch
<1> QED
  BY <1>5, <1>6, <1>7 DEF EngineInv

(* One operation: whatever the loop, the sweep, a route or its runner does. *)
LEMMA OpStepKeeps ==
  ASSUME EngineInv, NEW o \in Op, OpStep(o)
  PROVE  EngineInv'
<1>1. /\ finalizing \in SUBSET finalizing
      /\ faults \in Nat /\ faults + 1 \in Nat
  BY DEF EngineInv, TypeOK
<1>2. ASSUME Exists(o)
      PROVE  /\ row[o] \in LiveRow /\ req[o] \in Request /\ Exit(row[o]) \in Segment
             /\ Cancelled(row[o]) \in LiveRow
             /\ Requeued(row[o]) \in LiveRow
             /\ \A s \in Terminal : MarkFinished(row[o], s) \in LiveRow
  BY <1>2, OutcomeSegments, RowUpdates DEF EngineInv
<1>3. CASE TickPending(o)
  BY <1>3, TryStartKeeps DEF TickPending, OldestPending, Pending, Exists
<1>4. CASE TickCompensating(o)
  BY <1>4, TryStartKeeps DEF TickCompensating, Exists
<1>5. CASE SweepExhausted(o)
  BY <1>5, <1>1, <1>2, RowKeeps DEF SweepExhausted, Exists, Terminal
<1>6. CASE SweepRequeue(o)
  BY <1>6, TryStartKeeps DEF SweepRequeue, Exists
<1>7. CASE SweepZombie(o)
  <2>1. Exists(o)
    BY <1>7 DEF SweepZombie, Exists
  <2>2. [row[o] EXCEPT !.status = "pending"] \in LiveRow
    BY <2>1, <1>2 DEF LiveRow, Row, Status
  <2> QED
    BY <1>7, <1>1, <2>1, <2>2, RowKeeps DEF SweepZombie
<1>8. CASE CancelOperation(o)
  BY <1>8, <1>1, <1>2, RowKeeps DEF CancelOperation
<1>9. CASE RetrySame(o)
  BY <1>9, <1>1, <1>2, RowKeeps DEF RetrySame, Exists
<1>10. CASE RetryAsNew(o)
  BY <1>10, <1>1, <1>2, InsertKeeps DEF RetryAsNew, Submit, Exists
<1>11. CASE FinalizeChecks(o)
  BY <1>11 DEF FinalizeChecks, EngineInv, TypeOK, StoreTypeOK, MemoryTypeOK, RunnerTypeOK,
     HoldersAreLive, ParkedIsAwaiting, RunnersMatch, KeysOf, Exists, storeVars, memoryVars
<1>12. CASE FinalizeWrites(o)
  <2>1. Exists(o)
    BY <1>12 DEF FinalizeWrites, EngineInv, RunnersMatch
  <2>2. PICK s \in {"done", "failed"} : row' = [row EXCEPT ![o] = MarkFinished(@, s)]
    BY <1>12 DEF FinalizeWrites
  <2>3. row' = [row EXCEPT ![o] = MarkFinished(row[o], s)]
    BY <2>2
  <2>4. MarkFinished(row[o], s) \in LiveRow
    BY <2>1, <1>2 DEF Terminal
  <2> QED
    BY <1>12, <1>1, <2>1, <2>3, <2>4, RowKeeps DEF FinalizeWrites
<1>15. CASE FinalizeRefused(o)
  BY <1>15 DEF FinalizeRefused, EngineInv, TypeOK, StoreTypeOK, MemoryTypeOK, RunnerTypeOK,
     HoldersAreLive, ParkedIsAwaiting, RunnersMatch, KeysOf, Exists, storeVars, memoryVars
<1>13. CASE RunnerFails(o)
  <2>1. Exists(o) /\ faults' \in Nat /\ finalizing' \in SUBSET finalizing
    BY <1>13, <1>1 DEF RunnerFails, EngineInv, RunnersMatch
  <2> QED
    BY <1>13, <2>1, <1>2, SettleKeeps DEF RunnerFails, EngineInv, TypeOK, RunnerTypeOK
<1>14. CASE Run(o)
  BY <1>14, RunnerStepKeeps DEF Run
<1> QED
  BY <1>3, <1>4, <1>5, <1>6, <1>7, <1>8, <1>9, <1>10, <1>11, <1>12, <1>13, <1>14, <1>15 DEF OpStep

LEMMA NextKeeps == EngineInv /\ [Next]_vars => EngineInv'
<1> SUFFICES ASSUME EngineInv, [Next]_vars
             PROVE  EngineInv'
  OBVIOUS
<1>1. CASE \E o \in Op : OpStep(o)
  BY <1>1, OpStepKeeps
<1>2. CASE \E r \in Submittable : Submit(r)
  <2>1. PICK r \in Submittable : Submit(r)
    BY <1>2
  <2>2. r \in Request
    BY EngineAssumption DEF EngineAssumption
  <2> QED
    BY <2>1, <2>2, InsertKeeps DEF Submit, EngineInv, TypeOK
<1>3. CASE \E k \in NonOpKeys : NonOpEnter(k) \/ NonOpLeave(k)
  BY <1>3, NonOpKeeps
<1>4. CASE CrashAndResume
  BY <1>4, CrashKeeps
<1>5. CASE UNCHANGED vars
  BY <1>5 DEF vars, EngineInv, TypeOK, StoreTypeOK, MemoryTypeOK, RunnerTypeOK,
     HoldersAreLive, ParkedIsAwaiting, RunnersMatch, KeysOf, Exists
<1> QED
  BY <1>1, <1>2, <1>3, <1>4, <1>5 DEF Next

LEMMA InitEstablishes == Init => EngineInv
<1> SUFFICES ASSUME Init
             PROVE  EngineInv
  OBVIOUS
<1>1. NoRow \in Row /\ NoRow.status = "none"
  BY StoreAssumption DEF StoreAssumption, NoRow, Row, Status
<1>2. Idle \in Runner /\ Idle.pc = "idle"
  BY DEF Idle, Runner, Pc
<1>3. TypeOK
  BY <1>1, <1>2, StoreAssumption DEF StoreAssumption, Init, StoreInit, MemoryInit, RunnerInit,
     TypeOK, StoreTypeOK, MemoryTypeOK, RunnerTypeOK
<1>4. HoldersAreLive /\ ParkedIsAwaiting /\ RunnersMatch
  BY <1>2 DEF Init, StoreInit, MemoryInit, RunnerInit, HoldersAreLive, ParkedIsAwaiting,
     RunnersMatch, NoHolder, Op
<1> QED
  BY <1>3, <1>4 DEF EngineInv

-----------------------------------------------------------------------------
(* What the engine guarantees for every set of requests, keys and bounds.  *)

(* EngineInv is inductive: it holds in every reachable state. *)
THEOREM InvariantHolds == Spec => []EngineInv
  BY InitEstablishes, NextKeeps, PTL DEF Spec

(* Every row, lock, slot and runner always has its type. *)
THEOREM TypeCorrect == Spec => []TypeOK
<1>1. EngineInv => TypeOK
  BY DEF EngineInv
<1> QED
  BY <1>1, InvariantHolds, PTL

(* Holders and live runners agree: no release ever frees the key of an     *)
(* operation that is still running, and no key outlives its runner.        *)
THEOREM LocksAreLive == Spec => []HoldersAreLive
<1>1. EngineInv => HoldersAreLive
  BY DEF EngineInv
<1> QED
  BY <1>1, InvariantHolds, PTL

(* Only a waiting parent is exempt from MAX_CONCURRENT. *)
THEOREM SlotsAreHonest == Spec => []ParkedIsAwaiting
<1>1. EngineInv => ParkedIsAwaiting
  BY DEF EngineInv
<1> QED
  BY <1>1, InvariantHolds, PTL

(* No two operations in flight share a resource key. *)
THEOREM KeysExclusive == Spec => []KeyExclusion
<1>1. ASSUME EngineInv
      PROVE  KeyExclusion
  <2>1. \A o, p \in inFlight : \A k \in KeysOf(o) \cap KeysOf(p) : o = p
    BY <1>1 DEF EngineInv, HoldersAreLive
  <2> QED
    BY <2>1 DEF KeyExclusion
<1> QED
  BY <1>1, InvariantHolds, PTL

-----------------------------------------------------------------------------
(* The engine implements KeyedSections: with its rows as clients, each     *)
(* wanting the keys of its request and inside while it is in flight, every *)
(* step of the engine is a step of the abstract sections or none.          *)

(* The abstract variables, as Sections maps them. *)
Wants == [o \in Op |-> KeysOf(o)]

(* Steps that neither enqueue, start nor end an operation are not seen. *)
LEMMA Unseen ==
  ASSUME UNCHANGED <<req, inFlight>>
  PROVE  UNCHANGED Sections!vars
  BY DEF Sections!vars, KeysOf

(* A segment starts, continues or ends one operation. *)
LEMMA SettleMaps ==
  ASSUME EngineInv, NEW o \in Op, NEW held, NEW out,
         o \in inFlight \/ Free(KeysOf(o)),
         Settle(o, held, out), UNCHANGED req
  PROVE  [Sections!Next]_Sections!vars
<1>1. UNCHANGED Wants
  BY DEF Wants, KeysOf
<1>2. CASE out.runner.pc = "idle"
  <2>1. inFlight' = inFlight \ {o}
    BY <1>2 DEF Settle
  <2>2. CASE o \in inFlight
    BY <1>1, <2>1, <2>2 DEF Sections!Next, Sections!Leave, Wants
  <2>3. CASE o \notin inFlight
    <3>1. UNCHANGED inFlight
      BY <2>1, <2>3
    <3> QED
      BY <3>1, Unseen
  <2> QED
    BY <2>2, <2>3
<1>3. CASE out.runner.pc # "idle"
  <2>1. inFlight' = inFlight \cup {o}
    BY <1>3 DEF Settle
  <2>2. CASE o \in inFlight
    <3>1. UNCHANGED inFlight
      BY <2>1, <2>2
    <3> QED
      BY <3>1, Unseen
  <2>3. CASE o \notin inFlight
    <3>1. Free(KeysOf(o))
      BY <2>3
    <3>2. \A p \in inFlight : p \in Op /\ KeysOf(p) \cap KeysOf(o) = {}
      BY <3>1 DEF EngineInv, TypeOK, MemoryTypeOK, HoldersAreLive, Free, NoHolder, Op
    <3>3. \A p \in inFlight : Wants[o] \cap Wants[p] = {}
      BY <3>2 DEF Wants
    <3> QED
      BY <1>1, <2>1, <2>3, <3>3 DEF Sections!Next, Sections!Enter, Wants
  <2> QED
    BY <2>2, <2>3
<1> QED
  BY <1>2, <1>3

(* Enqueueing an operation asks for its keys. *)
LEMMA InsertMaps ==
  ASSUME EngineInv, NEW r \in Request, NEW p, Insert(r, p), UNCHANGED inFlight
  PROVE  [Sections!Next]_Sections!vars
<1>1. PICK o \in Op : ~Exists(o) /\ req' = [req EXCEPT ![o] = r]
  BY DEF Insert
<1>2. o \notin inFlight
  BY <1>1 DEF EngineInv, RunnersMatch
<1>3. KeysOf(o) = {}
  BY <1>1 DEF EngineInv, TypeOK, StoreTypeOK, KeysOf, Exists
<1>4. \A q \in Op \ {o} : KeysOf(q)' = KeysOf(q)
  BY <1>1 DEF KeysOf, EngineInv, TypeOK, StoreTypeOK
<1>5. KeysOf(o)' \in SUBSET Key
  BY <1>1, ShapeFacts DEF KeysOf, EngineInv, TypeOK, StoreTypeOK
<1>6. Wants' = [Wants EXCEPT ![o] = KeysOf(o)']
  BY <1>4 DEF Wants
<1>7. Wants[o] = {}
  BY <1>3 DEF Wants
<1> QED
  BY <1>2, <1>5, <1>6, <1>7 DEF Sections!Next, Sections!Ask, Wants

LEMMA RunnerStepMaps ==
  ASSUME EngineInv, NEW o \in Op, RunnerStep(o)
  PROVE  [Sections!Next]_Sections!vars
<1>1. ~At(o, "idle")
  BY DEF RunnerStep, At, Adopt, ProbeFallsThrough, ProbeRejects, RunTakesEffect, RunThrows,
     RunReturns, SpawnChild, AwaitChildren, PassCancelOn, AwaitThrows, ChildrenSettled,
     UndoNotNeeded, UndoProbeFallsThrough, UndoTakesEffect, UndoReturns, UndoThrows
<1>2. o \in inFlight
  BY <1>1, LiveRunner
<1>3. CASE \/ Adopt(o) \/ ProbeRejects(o) \/ RunThrows(o) \/ RunReturns(o)
           \/ AwaitThrows(o) \/ UndoNotNeeded(o) \/ UndoReturns(o) \/ UndoThrows(o)
  <2>1. UNCHANGED req /\ \E out : Settle(o, holders, out)
    BY <1>3 DEF Adopt, ProbeRejects, RunThrows, RunReturns, AwaitThrows, UndoNotNeeded,
       UndoReturns, UndoThrows
  <2> QED
    BY <1>2, <2>1, SettleMaps
<1>4. CASE \/ ProbeFallsThrough(o) \/ RunTakesEffect(o) \/ AwaitChildren(o)
           \/ PassCancelOn(o) \/ ChildrenSettled(o) \/ UndoProbeFallsThrough(o)
           \/ UndoTakesEffect(o)
  <2>1. UNCHANGED <<req, inFlight>>
    BY <1>4 DEF ProbeFallsThrough, RunTakesEffect, AwaitChildren, PassCancelOn,
       ChildrenSettled, UndoProbeFallsThrough, UndoTakesEffect, storeVars, memoryVars
  <2> QED
    BY <2>1, Unseen
<1>5. CASE SpawnChild(o)
  <2>1. PICK r \in Unspawned(o) : Insert(r, o)
    BY <1>5 DEF SpawnChild
  <2>2. req[o] \in Request /\ runner[o].at \in Nat
    BY <1>1, LiveRunner DEF EngineInv, TypeOK, StoreTypeOK, RunnerTypeOK, Runner, Exists
  <2>3. r \in Request
    BY <2>2, SpawnsFacts DEF Unspawned
  <2> QED
    BY <1>5, <2>1, <2>3, InsertMaps DEF SpawnChild, memoryVars
<1> QED
  BY <1>3, <1>4, <1>5 DEF RunnerStep

LEMMA OpStepMaps ==
  ASSUME EngineInv, NEW o \in Op, OpStep(o)
  PROVE  [Sections!Next]_Sections!vars
<1>1. ASSUME TryStart(o)
      PROVE  [Sections!Next]_Sections!vars
  <2>1. CASE Start(o)
    BY <1>1, <2>1, SettleMaps DEF TryStart, Startable, Start
  <2>2. CASE FailUnknown(o)
    BY <2>2, Unseen DEF FailUnknown, memoryVars
  <2> QED
    BY <1>1, <2>1, <2>2 DEF TryStart
<1>2. CASE TickPending(o) \/ TickCompensating(o) \/ SweepRequeue(o)
  BY <1>1, <1>2 DEF TickPending, TickCompensating, SweepRequeue
<1>3. CASE \/ SweepExhausted(o) \/ SweepZombie(o) \/ CancelOperation(o) \/ RetrySame(o)
           \/ FinalizeChecks(o) \/ FinalizeWrites(o) \/ FinalizeRefused(o)
  <2>1. UNCHANGED <<req, inFlight>>
    BY <1>3 DEF SweepExhausted, SweepZombie, CancelOperation, RetrySame, FinalizeChecks,
       FinalizeWrites, FinalizeRefused, storeVars, memoryVars
  <2> QED
    BY <2>1, Unseen
<1>4. CASE RetryAsNew(o)
  <2>1. req[o] \in Request
    BY <1>4 DEF RetryAsNew, EngineInv, TypeOK, StoreTypeOK
  <2> QED
    BY <1>4, <2>1, InsertMaps DEF RetryAsNew, Submit, memoryVars
<1>5. CASE RunnerFails(o)
  BY <1>5, SettleMaps DEF RunnerFails
<1>6. CASE Run(o)
  BY <1>6, RunnerStepMaps DEF Run
<1> QED
  BY <1>2, <1>3, <1>4, <1>5, <1>6 DEF OpStep

(* Every step of the engine is a step of the sections, or none. *)
LEMMA NextMaps == EngineInv /\ [Next]_vars => [Sections!Next]_Sections!vars
<1> SUFFICES ASSUME EngineInv, [Next]_vars
             PROVE  [Sections!Next]_Sections!vars
  OBVIOUS
<1>1. CASE \E o \in Op : OpStep(o)
  BY <1>1, OpStepMaps
<1>2. CASE \E r \in Submittable : Submit(r)
  BY <1>2, InsertMaps, EngineAssumption DEF EngineAssumption, Submit, memoryVars
<1>3. CASE \E k \in NonOpKeys : NonOpEnter(k) \/ NonOpLeave(k)
  BY <1>3, Unseen DEF NonOpEnter, NonOpLeave, storeVars
<1>4. CASE CrashAndResume
  <2>1. UNCHANGED Wants /\ inFlight' = {}
    BY <1>4 DEF CrashAndResume, Wants, KeysOf
  <2> QED
    BY <2>1 DEF Sections!Next, Sections!Reset, Wants
<1>5. CASE UNCHANGED vars
  BY <1>5, Unseen DEF vars
<1> QED
  BY <1>1, <1>2, <1>3, <1>4, <1>5 DEF Next

LEMMA InitMaps == Init => Sections!Init
  BY StoreAssumption DEF StoreAssumption, Init, StoreInit, MemoryInit, Sections!Init, KeysOf

(* The engine serialises operations per resource key, as KeyedSections     *)
(* defines it: tick, sweep, retry, restart and crash included.             *)
THEOREM EngineImplementsSections == Spec => SerializesPerKey
  BY InitMaps, NextMaps, InvariantHolds, PTL DEF Spec, SerializesPerKey, Sections!Spec
=============================================================================
