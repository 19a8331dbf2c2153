----------------------------- MODULE SagaProofs -----------------------------
(***************************************************************************)
(* Theorems about operations as sagas.  The first part is about one        *)
(* operation: which of its steps run, which are undone, and what its end   *)
(* says of them, for every shape of request and any number of crashes,     *)
(* cancellations and retries.  Where operators finalize operations by      *)
(* hand, the end says what they wrote instead.  The second part is about   *)
(* several: children of one parent, what the end of a parent says of them, *)
(* and the order in which operations on the same keys are served.          *)
(***************************************************************************)
EXTENDS EngineProofs, FiniteSetTheorems

Walking == {"compensating", "compensation_failed"}

(* A row r and a runner x of o tell one story.  A runner that goes forward *)
(* is at its first step without a row, and nothing is undone; one that     *)
(* goes back is at a step it owes, the last one unless some failed.        *)
Owed(o, r) == (UndoOf(o) \cap r.fwd) \ r.undone
Saga(o, r, x) ==
  /\ r.fwd \subseteq StepsOf(o)
  /\ r.undone # {} => r.status \notin {"pending", "running", "done"}
  /\ r.status = "compensated" => Owed(o, r) = {}
  /\ r.status = "done" => StepsOf(o) \subseteq r.fwd
  /\ x.pc \in ForwardPc =>
       /\ r.status \in {"running", "pending", "cancelled"}
       /\ r.undone = {}
       /\ x.at \in StepsOf(o) \ r.fwd
       /\ \A j \in StepsOf(o) : j < x.at => j \in r.fwd
  /\ x.pc \in UndoPc =>
       /\ r.status \in Walking
       /\ x.at \in Owed(o, r)
       /\ x.failed \/ \A j \in Owed(o, r) : j <= x.at

SagaInv ==
  /\ finalizing = {}
  /\ \A o \in Op : Saga(o, row[o], runner[o])

-----------------------------------------------------------------------------
(* The segments. *)

LEMMA IdleSaga ==
  ASSUME NEW o \in Op, NEW r \in LiveRow, NEW x,
         r.fwd \subseteq StepsOf(o),
         r.undone # {} => r.status \notin {"pending", "running", "done"},
         r.status = "compensated" => Owed(o, r) = {},
         r.status = "done" => StepsOf(o) \subseteq r.fwd,
         x.pc = "idle"
  PROVE  Saga(o, r, x)
  BY DEF Saga, ForwardPc, UndoPc

LEMMA UndoBelowSaga ==
  ASSUME NEW o \in Op, req[o] \in Request, NEW r \in LiveRow, NEW i \in Nat, NEW x \in Runner,
         r.fwd \subseteq StepsOf(o), r.status \in Walking,
         x.failed \/ \A j \in Owed(o, r) : j < i
  PROVE  Saga(o, UndoBelow(o, r, i, x).row, UndoBelow(o, r, i, x).runner)
<1> DEFINE todo == {j \in Owed(o, r) : j < i}
           next == Greatest(todo)
           outcome == IF x.cancelled THEN "cancelled" ELSE "compensated"
           out == UndoBelow(o, r, i, x)
<1>1. Owed(o, r) \in SUBSET Nat /\ todo \in SUBSET Nat
  BY ShapeFacts DEF UndoOf, Owed
<1>2. CASE todo # {} /\ Superseded(o)
  <2> DEFINE s == MarkFinished([r EXCEPT !.undone = @ \cup Owed(o, r)], outcome)
  <2>1. out = Exit(s)
    BY <1>2 DEF UndoBelow, Owed
  <2>2. /\ s \in LiveRow /\ s.fwd = r.fwd /\ s.undone = r.undone \cup Owed(o, r)
        /\ s.status = outcome
    <3>1. [r EXCEPT !.undone = @ \cup Owed(o, r)] \in LiveRow
      BY <1>1, RowUpdates
    <3>2. outcome \in Terminal
      BY DEF Terminal
    <3>3. s \in LiveRow
      BY <3>1, <3>2, RowUpdates
    <3> QED
      BY <3>3 DEF MarkFinished, LiveRow, Row
  <2>3. Owed(o, s) = {}
    BY <2>2 DEF Owed
  <2>4. Saga(o, s, Idle)
    BY <2>2, <2>3, IdleSaga DEF Idle
  <2> QED
    BY <2>1, <2>4 DEF Exit
<1>3. CASE todo # {} /\ ~Superseded(o)
  <2> DEFINE y == [x EXCEPT !.at = next, !.pc = IF next \in Shape[req[o]].goneCheck
                                                THEN "undoProbe" ELSE "undo"]
  <2>1. out = Suspend(r, y)
    BY <1>3 DEF UndoBelow, Owed
  <2>2. next \in todo /\ \A j \in todo : j <= next
    BY <1>1, <1>3, GreatestNat
  <2>3. y.at = next /\ y.failed = x.failed /\ y.pc \in {"undoProbe", "undo"}
    BY DEF Runner
  <2>4. y.pc \in UndoPc /\ y.pc \notin ForwardPc
    BY <2>3 DEF UndoPc, ForwardPc
  <2>5. y.failed \/ \A j \in Owed(o, r) : j <= y.at
    BY <2>2, <2>3
  <2>6. Saga(o, r, y)
    BY <2>2, <2>3, <2>4, <2>5 DEF Saga, Walking
  <2> QED
    BY <2>1, <2>6 DEF Suspend
<1>4. CASE todo = {} /\ x.failed
  <2>1. out = Exit(r)
    BY <1>4 DEF UndoBelow, Owed, EndWalk
  <2>2. Saga(o, r, Idle)
    BY IdleSaga DEF Idle, Walking
  <2> QED
    BY <2>1, <2>2 DEF Exit
<1>5. CASE todo = {} /\ ~x.failed
  <2> DEFINE s == MarkFinished(r, outcome)
  <2>1. out = Exit(s)
    BY <1>5 DEF UndoBelow, Owed, EndWalk
  <2>2. s \in LiveRow /\ s.fwd = r.fwd /\ s.undone = r.undone /\ s.status = outcome
    <3>1. outcome \in Terminal
      BY DEF Terminal
    <3> QED
      BY <3>1, RowUpdates DEF MarkFinished, LiveRow, Row
  <2>3. Owed(o, s) = {}
    BY <1>5, <2>2 DEF Owed
  <2>4. Saga(o, s, Idle)
    BY <2>2, <2>3, IdleSaga DEF Idle
  <2> QED
    BY <2>1, <2>4 DEF Exit
<1> QED
  BY <1>2, <1>3, <1>4, <1>5

LEMMA UndoAllSaga ==
  ASSUME NEW o \in Op, req[o] \in Request, NEW r \in LiveRow, NEW c \in BOOLEAN,
         r.fwd \subseteq StepsOf(o), r.status \in Walking
  PROVE  Saga(o, UndoAll(o, r, c).row, UndoAll(o, r, c).runner)
<1> DEFINE x == [Idle EXCEPT !.cancelled = c]
           n == Shape[req[o]].steps
<1>1. x \in Runner
  BY DEF Idle, Runner, Pc
<1>2. n \in Nat /\ n + 1 \in Nat
  BY ShapeFacts
<1>3. \A j \in Owed(o, r) : j < n + 1
  BY <1>2 DEF Owed, StepsOf
<1>4. Saga(o, UndoBelow(o, r, n + 1, x).row, UndoBelow(o, r, n + 1, x).runner)
  BY <1>1, <1>2, <1>3, UndoBelowSaga
<1> QED
  BY <1>4 DEF UndoAll

LEMMA FailForwardSaga ==
  ASSUME NEW o \in Op, req[o] \in Request, NEW r \in LiveRow, r.fwd \subseteq StepsOf(o)
  PROVE  Saga(o, FailForward(o, r).row, FailForward(o, r).runner)
<1>1. MarkCompensating(r) \in LiveRow
  BY RowUpdates
<1>2. MarkCompensating(r).status = "compensating" /\ MarkCompensating(r).fwd = r.fwd
  BY DEF MarkCompensating, LiveRow, Row
<1>3. CancelRequested(r) \in BOOLEAN
  BY DEF CancelRequested, LiveRow, Row
<1> QED
  BY <1>1, <1>2, <1>3, UndoAllSaga DEF FailForward, Walking

(* The forward loop suspends at the first step without a row. *)
LEMMA ForwardFromSaga ==
  ASSUME NEW o \in Op, req[o] \in Request, NEW r \in LiveRow, NEW i \in Nat,
         r.fwd \subseteq StepsOf(o), r.undone = {},
         r.status \in {"running", "pending", "cancelled"},
         \A j \in StepsOf(o) : j <= i => j \in r.fwd
  PROVE  Saga(o, ForwardFrom(o, r, i).row, ForwardFrom(o, r, i).runner)
<1> DEFINE rest == StepsAfter(o, i)
           todo == rest \cap Unrecorded(o, r)
           next == Least(todo)
           stop == rest # {} /\ CancelRequested(r)
<1>1. StepsOf(o) \in SUBSET Nat /\ todo \in SUBSET Nat
  BY ShapeFacts DEF StepsAfter, StepsOf
<1>2. todo = StepsOf(o) \ r.fwd
  BY <1>1 DEF StepsAfter, Unrecorded
<1>3. CASE stop
  BY <1>3, FailForwardSaga DEF ForwardFrom
<1>4. CASE ~stop /\ todo # {}
  <2> DEFINE y == [Idle EXCEPT !.at = next, !.pc = IF next \in Shape[req[o]].probed
                                                   THEN "probe" ELSE "run"]
  <2>1. ForwardFrom(o, r, i) = Suspend(r, y)
    BY <1>4 DEF ForwardFrom
  <2>2. next \in todo /\ \A j \in todo : next <= j
    BY <1>1, <1>4, LeastNat
  <2>3. y.at = next /\ y.pc \in {"probe", "run"}
    BY DEF Idle
  <2>4. y.at \in StepsOf(o) \ r.fwd
    BY <2>2, <2>3, <1>2
  <2>5. \A j \in StepsOf(o) : j < y.at => j \in r.fwd
    BY <2>2, <2>3, <1>1, <1>2
  <2>6. y.pc \in ForwardPc /\ y.pc \notin UndoPc
    BY <2>3 DEF ForwardPc, UndoPc
  <2>7. Saga(o, r, y)
    BY <2>4, <2>5, <2>6 DEF Saga
  <2> QED
    BY <2>1, <2>7 DEF Suspend
<1>5. CASE ~stop /\ todo = {}
  <2> DEFINE s == MarkFinished(r, "done")
  <2>1. ForwardFrom(o, r, i) = Exit(s)
    BY <1>5 DEF ForwardFrom
  <2>2. s \in LiveRow /\ s.fwd = r.fwd /\ s.undone = r.undone /\ s.status = "done"
    <3>1. s \in LiveRow
      BY RowUpdates DEF Terminal
    <3> QED
      BY <3>1 DEF MarkFinished, LiveRow, Row
  <2>3. Saga(o, s, Idle)
    BY <2>2, <1>2, <1>5, IdleSaga DEF Idle
  <2> QED
    BY <2>1, <2>3 DEF Exit
<1> QED
  BY <1>3, <1>4, <1>5

LEMMA BeginSaga ==
  ASSUME NEW o \in Op, req[o] \in Request, NEW r \in LiveRow,
         r.status \in {"pending", "compensating"},
         r.fwd \subseteq StepsOf(o), r.status = "pending" => r.undone = {}
  PROVE  Saga(o, Begin(o, r).row, Begin(o, r).runner)
<1> DEFINE fenced == Shape[req[o]].destroys /\ parent[o] # NoOp /\ AncestorSuperseded(o)
<1>1. CASE fenced
  <2> DEFINE s == MarkFinished(r, "cancelled")
  <2>1. Begin(o, r) = Exit(s)
    BY <1>1 DEF Begin
  <2>2. s \in LiveRow
    BY RowUpdates DEF Terminal
  <2>3. s.fwd = r.fwd /\ s.status = "cancelled"
    BY DEF MarkFinished, LiveRow, Row
  <2>4. Saga(o, s, Idle)
    BY <2>2, <2>3, IdleSaga DEF Idle
  <2> QED
    BY <2>1, <2>4 DEF Exit
<1>2. CASE ~fenced /\ r.status = "compensating"
  <2>1. Begin(o, r) = UndoAll(o, Bumped(r), FALSE)
    BY <1>2 DEF Begin
  <2>2. Bumped(r) \in LiveRow
    BY RowUpdates
  <2>3. Bumped(r).status = "compensating" /\ Bumped(r).fwd = r.fwd
    BY <1>2 DEF Bumped, LiveRow, Row
  <2> QED
    BY <2>1, <2>2, <2>3, UndoAllSaga DEF Walking
<1>3. CASE ~fenced /\ r.status = "pending"
  <2> DEFINE s == MarkRunning(r)
  <2>1. Begin(o, r) = ForwardFrom(o, s, 0)
    BY <1>3 DEF Begin
  <2>2. s \in LiveRow
    BY RowUpdates
  <2>3. s.fwd = r.fwd /\ s.status = "running" /\ s.undone = {}
    BY <1>3 DEF MarkRunning, Bumped, LiveRow, Row
  <2>4. \A j \in StepsOf(o) : j <= 0 => j \in s.fwd
    BY ShapeFacts DEF StepsOf
  <2> QED
    BY <2>1, <2>2, <2>3, <2>4, ForwardFromSaga
<1> QED
  BY <1>1, <1>2, <1>3

-----------------------------------------------------------------------------
(* The frames of the actions. *)

(* A segment replaces the row and the runner of one operation. *)
LEMMA SettleSaga ==
  ASSUME EngineInv, SagaInv, NEW o \in Op, NEW held, NEW out, Settle(o, held, out),
         Saga(o, out.row, out.runner), UNCHANGED <<req, finalizing>>
  PROVE  SagaInv'
<1>1. /\ row' = [row EXCEPT ![o] = out.row]
      /\ runner' = [runner EXCEPT ![o] = out.runner]
  BY DEF Settle
<1>2. ASSUME NEW p \in Op
      PROVE  Saga(p, row[p], runner[p])'
  <2>1. CASE p = o
    <3>1. row'[p] = out.row /\ runner'[p] = out.runner
      BY <1>1, <2>1 DEF EngineInv, TypeOK, StoreTypeOK, RunnerTypeOK
    <3> QED
      BY <3>1, <2>1 DEF Saga, Owed, StepsOf, UndoOf
  <2>2. CASE p # o
    <3>1. row'[p] = row[p] /\ runner'[p] = runner[p]
      BY <1>1, <2>2 DEF EngineInv, TypeOK, StoreTypeOK, RunnerTypeOK
    <3>2. Saga(p, row[p], runner[p])
      BY DEF SagaInv
    <3> QED
      BY <3>1, <3>2 DEF Saga, Owed, StepsOf, UndoOf
  <2> QED
    BY <2>1, <2>2
<1> QED
  BY <1>2 DEF SagaInv

(* Rows change, runners do not. *)
LEMMA RowsSaga ==
  ASSUME EngineInv, SagaInv, \A p \in Op : Saga(p, row'[p], runner[p]),
         UNCHANGED <<req, runner, finalizing>>
  PROVE  SagaInv'
  BY DEF SagaInv, Saga, Owed, StepsOf, UndoOf

LEMMA RowSaga ==
  ASSUME EngineInv, SagaInv, NEW o \in Op, NEW r, Saga(o, r, runner[o]),
         row' = [row EXCEPT ![o] = r], UNCHANGED <<req, runner, finalizing>>
  PROVE  SagaInv'
<1>1. ASSUME NEW p \in Op
      PROVE  Saga(p, row'[p], runner[p])
  <2>1. CASE p = o
    BY <2>1 DEF EngineInv, TypeOK, StoreTypeOK
  <2>2. CASE p # o
    BY <2>2 DEF SagaInv
  <2> QED
    BY <2>1, <2>2
<1> QED
  BY <1>1, RowsSaga

(* What a cancellation, a retry and the sweep write keeps the story. *)
LEMMA StatusSaga ==
  ASSUME NEW o \in Op, NEW r \in LiveRow, NEW x, Saga(o, r, x)
  PROVE  /\ Saga(o, Cancelled(r), x)
         /\ r.status \in {"pending", "running", "compensating", "compensation_failed"}
              => Saga(o, Requeued(r), x)
         /\ r.status = "running" => Saga(o, [r EXCEPT !.status = "pending"], x)
         /\ r.status = "compensating" =>
              Saga(o, MarkFinished(r, "compensation_failed"), x)
         /\ x.pc = "idle" => Saga(o, MarkFinished(r, "failed"), x)
<1>1. Saga(o, Cancelled(r), x)
  <2>1. CASE r.status = "pending"
    <3>1. /\ Cancelled(r).status = "cancelled"
          /\ Cancelled(r).fwd = r.fwd /\ Cancelled(r).undone = r.undone
      BY <2>1 DEF Cancelled, LiveRow, Row
    <3> QED
      BY <3>1, <2>1 DEF Saga, Owed, Walking
  <2>2. CASE r.status # "pending"
    <3>1. /\ Cancelled(r).status = r.status
          /\ Cancelled(r).fwd = r.fwd /\ Cancelled(r).undone = r.undone
      BY <2>2 DEF Cancelled, LiveRow, Row
    <3> QED
      BY <3>1 DEF Saga, Owed
  <2> QED
    BY <2>1, <2>2
<1>2. ASSUME r.status \in {"pending", "running", "compensating", "compensation_failed"}
      PROVE  Saga(o, Requeued(r), x)
  <2>1. /\ Requeued(r).fwd = r.fwd /\ Requeued(r).undone = r.undone
        /\ r.status \in Walking => Requeued(r).status = "compensating"
        /\ r.status \notin Walking => Requeued(r).status = "pending"
    BY DEF Requeued, LiveRow, Row, Walking
  <2>2. CASE r.status \in Walking
    BY <2>1, <2>2 DEF Saga, Owed, Walking
  <2>3. CASE r.status \notin Walking
    BY <2>1, <2>3, <1>2 DEF Saga, Owed, Walking
  <2> QED
    BY <2>2, <2>3
<1>3. ASSUME r.status = "running"
      PROVE  Saga(o, [r EXCEPT !.status = "pending"], x)
  <2> DEFINE s == [r EXCEPT !.status = "pending"]
  <2>1. s.status = "pending" /\ s.fwd = r.fwd /\ s.undone = r.undone
    BY DEF LiveRow, Row
  <2> QED
    BY <2>1, <1>3 DEF Saga, Owed, Walking
<1>4. ASSUME r.status = "compensating"
      PROVE  Saga(o, MarkFinished(r, "compensation_failed"), x)
  <2> DEFINE s == MarkFinished(r, "compensation_failed")
  <2>1. s.status = "compensation_failed" /\ s.fwd = r.fwd /\ s.undone = r.undone
    BY DEF MarkFinished, LiveRow, Row
  <2> QED
    BY <2>1, <1>4 DEF Saga, Owed, Walking
<1>5. ASSUME x.pc = "idle"
      PROVE  Saga(o, MarkFinished(r, "failed"), x)
  <2> DEFINE s == MarkFinished(r, "failed")
  <2>1. s.status = "failed" /\ s.fwd = r.fwd /\ s.undone = r.undone
    BY DEF MarkFinished, LiveRow, Row
  <2> QED
    BY <2>1, <1>5 DEF Saga, Owed, ForwardPc, UndoPc
<1> QED
  BY <1>1, <1>2, <1>3, <1>4, <1>5

(* A runner passes the await it is at, at the same step. *)
LEMMA GotoSaga ==
  ASSUME EngineInv, SagaInv, NEW o \in Op, NEW pc, Goto(o, pc),
         \/ runner[o].pc \in ForwardPc /\ pc \in ForwardPc
         \/ runner[o].pc \in UndoPc /\ pc \in UndoPc,
         UNCHANGED <<req, row, finalizing>>
  PROVE  SagaInv'
<1>1. runner' = [runner EXCEPT ![o].pc = pc] /\ runner[o] \in Runner
  BY DEF Goto, EngineInv, TypeOK, RunnerTypeOK
<1>2. runner'[o] = [runner[o] EXCEPT !.pc = pc]
  BY <1>1 DEF EngineInv, TypeOK, RunnerTypeOK
<1>3. runner'[o].pc = pc /\ runner'[o].at = runner[o].at
        /\ runner'[o].failed = runner[o].failed
  BY <1>1, <1>2 DEF Runner
<1>4. ASSUME NEW p \in Op
      PROVE  Saga(p, row[p], runner[p])'
  <2>0. Saga(p, row[p], runner[p])
    BY DEF SagaInv
  <2>1. CASE p = o
    <3>1. Saga(o, row[o], runner'[o])
      BY <2>0, <2>1, <1>3 DEF Saga, ForwardPc, UndoPc
    <3> QED
      BY <3>1, <2>1 DEF Saga, Owed, StepsOf, UndoOf
  <2>2. CASE p # o
    <3>1. runner'[p] = runner[p]
      BY <1>1, <2>2 DEF EngineInv, TypeOK, RunnerTypeOK
    <3> QED
      BY <3>1, <2>0 DEF Saga, Owed, StepsOf, UndoOf
  <2> QED
    BY <2>1, <2>2
<1> QED
  BY <1>4 DEF SagaInv

(* A new row has no steps and no runner. *)
LEMMA InsertSaga ==
  ASSUME EngineInv, SagaInv, NEW r, NEW q, Insert(r, q), UNCHANGED <<runner, finalizing>>
  PROVE  SagaInv'
<1>1. PICK o \in Op : /\ ~Exists(o)
                      /\ req' = [req EXCEPT ![o] = r]
                      /\ row' = [row EXCEPT ![o] = FreshRow]
  BY DEF Insert
<1>2. runner[o].pc = "idle"
  BY <1>1 DEF EngineInv, RunnersMatch
<1>3. ASSUME NEW p \in Op
      PROVE  Saga(p, row[p], runner[p])'
  <2>1. CASE p = o
    <3>1. row'[p] = FreshRow
      BY <1>1, <2>1 DEF EngineInv, TypeOK, StoreTypeOK
    <3>2. FreshRow.status = "pending" /\ FreshRow.fwd = {} /\ FreshRow.undone = {}
      BY DEF FreshRow, NoRow
    <3> QED
      BY <3>1, <3>2, <2>1, <1>2 DEF Saga, ForwardPc, UndoPc
  <2>2. CASE p # o
    <3>1. row'[p] = row[p] /\ req'[p] = req[p]
      BY <1>1, <2>2 DEF EngineInv, TypeOK, StoreTypeOK
    <3>2. Saga(p, row[p], runner[p])
      BY DEF SagaInv
    <3> QED
      BY <3>1, <3>2 DEF Saga, Owed, StepsOf, UndoOf
  <2> QED
    BY <2>1, <2>2
<1> QED
  BY <1>3 DEF SagaInv

-----------------------------------------------------------------------------
(* The actions. *)

LEMMA RunnerStepSaga ==
  ASSUME EngineInv, SagaInv, NEW o \in Op, RunnerStep(o), UNCHANGED finalizing
  PROVE  SagaInv'
<1> DEFINE r == row[o]
           x == runner[o]
           i == runner[o].at
<1>1. ~At(o, "idle")
  BY DEF RunnerStep, At, Adopt, ProbeFallsThrough, ProbeRejects, RunTakesEffect, RunThrows,
     RunReturns, SpawnChild, AwaitChildren, PassCancelOn, AwaitThrows, ChildrenSettled,
     UndoNotNeeded, UndoProbeFallsThrough, UndoTakesEffect, UndoReturns, UndoThrows
<1>2. Exists(o)
  BY <1>1, LiveRunner
<1>3. r \in LiveRow /\ req[o] \in Request /\ x \in Runner /\ i \in Nat
  <2>1. r \in LiveRow /\ req[o] \in Request
    BY <1>2, OutcomeSegments DEF EngineInv
  <2>2. x \in Runner
    BY DEF EngineInv, TypeOK, RunnerTypeOK
  <2> QED
    BY <2>1, <2>2 DEF Runner
<1>4. Saga(o, r, x)
  BY DEF SagaInv
<1>5. StepsOf(o) \in SUBSET Nat
  BY <1>3, ShapeFacts DEF StepsOf
<1>6. Saga(o, FailForward(o, r).row, FailForward(o, r).runner)
  BY <1>3, <1>4, FailForwardSaga DEF Saga
<1>7. ASSUME x.pc \in ForwardPc
      PROVE  Saga(o, RecordStep(o, i).row, RecordStep(o, i).runner)
  <2> DEFINE s == [r EXCEPT !.fwd = @ \cup {i}]
  <2>1. s \in LiveRow
    BY <1>3, RowUpdates
  <2>2. s.fwd = r.fwd \cup {i} /\ s.undone = r.undone /\ s.status = r.status
    BY <1>3 DEF LiveRow, Row
  <2>3. /\ r.status \in {"running", "pending", "cancelled"}
        /\ r.undone = {} /\ i \in StepsOf(o) \ r.fwd /\ r.fwd \subseteq StepsOf(o)
        /\ \A j \in StepsOf(o) : j < i => j \in r.fwd
    BY <1>4, <1>7 DEF Saga
  <2>4. \A j \in StepsOf(o) : j <= i => j \in s.fwd
    BY <2>2, <2>3, <1>3, <1>5
  <2>5. Saga(o, ForwardFrom(o, s, i).row, ForwardFrom(o, s, i).runner)
    BY <2>1, <2>2, <2>3, <2>4, <1>3, ForwardFromSaga
  <2> QED
    BY <2>5 DEF RecordStep
<1>8. ASSUME x.pc \in UndoPc
      PROVE  Saga(o, RecordUndo(o, i).row, RecordUndo(o, i).runner)
  <2> DEFINE s == [r EXCEPT !.undone = @ \cup {i}]
  <2>1. s \in LiveRow
    <3>1. s = [r EXCEPT !.undone = @ \cup {i}] /\ {i} \in SUBSET Nat
      BY <1>3
    <3> QED
      BY <3>1, <1>3, RowUpdates
  <2>2. s.fwd = r.fwd /\ s.undone = r.undone \cup {i} /\ s.status = r.status
    BY <1>3 DEF LiveRow, Row
  <2>3. /\ r.status \in Walking /\ i \in Owed(o, r) /\ r.fwd \subseteq StepsOf(o)
        /\ x.failed \/ \A j \in Owed(o, r) : j <= i
    BY <1>4, <1>8 DEF Saga
  <2>4. Owed(o, s) = Owed(o, r) \ {i} /\ Owed(o, r) \in SUBSET Nat
    BY <2>2, <2>3, <1>5 DEF Owed
  <2>5. x.failed \/ \A j \in Owed(o, s) : j < i
    BY <2>3, <2>4, <1>3
  <2>6. Saga(o, UndoBelow(o, s, i, x).row, UndoBelow(o, s, i, x).runner)
    BY <2>1, <2>2, <2>3, <2>5, <1>3, UndoBelowSaga
  <2> QED
    BY <2>6 DEF RecordUndo
<1>9. ASSUME NEW out, Settle(o, holders, out), UNCHANGED req, Saga(o, out.row, out.runner)
      PROVE  SagaInv'
  BY <1>9, SettleSaga
<1>10. CASE Adopt(o)
  BY <1>10, <1>7, <1>9 DEF Adopt, At, ForwardPc
<1>11. CASE ProbeRejects(o) \/ RunThrows(o) \/ AwaitThrows(o)
  BY <1>11, <1>6, <1>9 DEF ProbeRejects, RunThrows, AwaitThrows
<1>12. CASE RunReturns(o)
  BY <1>12, <1>7, <1>9 DEF RunReturns, At, ForwardPc
<1>13. CASE UndoNotNeeded(o)
  BY <1>13, <1>8, <1>9 DEF UndoNotNeeded, At, UndoPc
<1>14. CASE UndoReturns(o)
  BY <1>14, <1>8, <1>9 DEF UndoReturns, At, UndoPc
<1>15. CASE UndoThrows(o)
  <2> DEFINE y == [x EXCEPT !.failed = TRUE]
             out == UndoBelow(o, r, i, y)
  <2>1. r.status \in Walking /\ r.fwd \subseteq StepsOf(o)
    BY <1>15, <1>4 DEF UndoThrows, At, Saga, UndoPc
  <2>2. y \in Runner /\ y.failed
    BY <1>3 DEF Runner
  <2>3. Saga(o, out.row, out.runner)
    BY <2>1, <2>2, <1>3, UndoBelowSaga
  <2> QED
    BY <2>3, <1>15, <1>9 DEF UndoThrows
<1>16. CASE ProbeFallsThrough(o) \/ RunTakesEffect(o) \/ AwaitChildren(o) \/ ChildrenSettled(o)
  <2>1. /\ x.pc \in ForwardPc
        /\ \E pc \in ForwardPc : Goto(o, pc)
        /\ UNCHANGED <<req, row>>
    BY <1>16 DEF ProbeFallsThrough, RunTakesEffect, AwaitChildren, ChildrenSettled, At,
       ForwardPc, storeVars
  <2> QED
    BY <2>1, GotoSaga
<1>17. CASE UndoProbeFallsThrough(o) \/ UndoTakesEffect(o)
  <2>1. x.pc \in UndoPc /\ (\E pc \in UndoPc : Goto(o, pc)) /\ UNCHANGED <<req, row>>
    BY <1>17 DEF UndoProbeFallsThrough, UndoTakesEffect, At, UndoPc, storeVars
  <2> QED
    BY <2>1, GotoSaga
<1>18. CASE SpawnChild(o)
  BY <1>18, InsertSaga DEF SpawnChild
<1>19. CASE PassCancelOn(o)
  <2>1. ASSUME NEW c \in Op
        PROVE  Saga(c, row'[c], runner[c])
    <3>1. Saga(c, row[c], runner[c])
      BY DEF SagaInv
    <3>2. CASE c \in Outstanding(o)
      <4>1. row'[c] = Cancelled(row[c])
        BY <1>19, <3>2 DEF PassCancelOn
      <4>2. row[c] \in LiveRow
        BY <3>2 DEF Outstanding, Children, Exists, LiveRow, EngineInv, TypeOK, StoreTypeOK
      <4> QED
        BY <4>1, <4>2, <3>1, StatusSaga
    <3>3. CASE c \notin Outstanding(o)
      BY <1>19, <3>1, <3>3 DEF PassCancelOn
    <3> QED
      BY <3>2, <3>3
  <2> QED
    BY <1>19, <2>1, RowsSaga DEF PassCancelOn
<1> QED
  BY <1>10, <1>11, <1>12, <1>13, <1>14, <1>15, <1>16, <1>17, <1>18, <1>19 DEF RunnerStep

LEMMA TryStartSaga ==
  ASSUME EngineInv, SagaInv, NEW o \in Op, TryStart(o),
         row[o].status \in {"pending", "compensating"}, UNCHANGED finalizing
  PROVE  SagaInv'
<1>1. Exists(o)
  BY DEF Exists
<1>2. row[o] \in LiveRow /\ req[o] \in Request
  BY <1>1, OutcomeSegments DEF EngineInv
<1>3. Saga(o, row[o], runner[o])
  BY DEF SagaInv
<1>4. CASE Start(o)
  <2>1. Saga(o, Begin(o, row[o]).row, Begin(o, row[o]).runner)
    BY <1>2, <1>3, BeginSaga DEF Saga
  <2> QED
    BY <1>4, <2>1, SettleSaga DEF Start
<1>5. CASE FailUnknown(o)
  <2>1. runner[o].pc = "idle"
    BY DEF TryStart, Startable, EngineInv, RunnersMatch
  <2>2. Saga(o, MarkFinished(row[o], "failed"), runner[o])
    BY <2>1, <1>2, <1>3, StatusSaga
  <2> QED
    BY <1>5, <2>2, RowSaga DEF FailUnknown
<1> QED
  BY <1>4, <1>5 DEF TryStart

(* The restart finds rows without runners. *)
LEMMA CrashSaga ==
  ASSUME EngineInv, SagaInv, CrashAndResume
  PROVE  SagaInv'
<1>1. ASSUME NEW o \in Op
      PROVE  Saga(o, row[o], runner[o])'
  <2>1. row[o] \in Row /\ Saga(o, row[o], runner[o])
    BY DEF SagaInv, EngineInv, TypeOK, StoreTypeOK
  <2>2. /\ row'[o].fwd = row[o].fwd /\ row'[o].undone = row[o].undone
        /\ IF row[o].status = "running" THEN row'[o].status = "pending"
                                        ELSE row'[o].status = row[o].status
    BY <2>1 DEF CrashAndResume, Row
  <2>3. runner'[o].pc = "idle" /\ req' = req
    BY DEF CrashAndResume, Idle
  <2> QED
    BY <2>1, <2>2, <2>3 DEF Saga, Owed, StepsOf, UndoOf, ForwardPc, UndoPc
<1> QED
  BY <1>1 DEF SagaInv, CrashAndResume

LEMMA OpStepSaga ==
  ASSUME EngineInv, SagaInv, "finalize" \notin OperatorActs, NEW o \in Op, OpStep(o)
  PROVE  SagaInv'
<1>1. ASSUME Exists(o)
      PROVE  row[o] \in LiveRow /\ Saga(o, row[o], runner[o])
  BY <1>1, OutcomeSegments DEF EngineInv, SagaInv
<1>2. CASE TickPending(o)
  BY <1>2, TryStartSaga DEF TickPending, OldestPending, Pending
<1>3. CASE TickCompensating(o)
  BY <1>3, TryStartSaga DEF TickCompensating
<1>4. CASE SweepExhausted(o)
  BY <1>4, <1>1, StatusSaga, RowSaga DEF SweepExhausted, Exists
<1>5. CASE SweepRequeue(o)
  BY <1>5, TryStartSaga DEF SweepRequeue
<1>6. CASE SweepZombie(o)
  <2>1. Saga(o, [row[o] EXCEPT !.status = "pending"], runner[o])
    BY <1>6, <1>1, StatusSaga DEF SweepZombie, Exists
  <2> QED
    BY <1>6, <2>1, RowSaga DEF SweepZombie
<1>7. CASE CancelOperation(o)
  BY <1>7, <1>1, StatusSaga, RowSaga DEF CancelOperation
<1>8. CASE RetrySame(o)
  BY <1>8, <1>1, StatusSaga, RowSaga DEF RetrySame, Exists
<1>9. CASE RetryAsNew(o)
  BY <1>9, InsertSaga DEF RetryAsNew, Submit
<1>10. CASE FinalizeChecks(o) \/ FinalizeWrites(o) \/ FinalizeRefused(o)
  BY <1>10 DEF FinalizeChecks, FinalizeWrites, FinalizeRefused, SagaInv
<1>11. CASE RunnerFails(o)
  <2>1. Exists(o)
    BY <1>11 DEF RunnerFails, EngineInv, RunnersMatch
  <2>2. Saga(o, row[o], Idle)
    BY <2>1, <1>1, IdleSaga DEF Saga, Idle
  <2>3. Saga(o, Exit(row[o]).row, Exit(row[o]).runner)
    BY <2>2 DEF Exit
  <2> QED
    BY <1>11, <2>3, SettleSaga DEF RunnerFails
<1>12. CASE Run(o)
  BY <1>12, RunnerStepSaga DEF Run
<1> QED
  BY <1>2, <1>3, <1>4, <1>5, <1>6, <1>7, <1>8, <1>9, <1>10, <1>11, <1>12 DEF OpStep

LEMMA NextSaga ==
  "finalize" \notin OperatorActs /\ EngineInv /\ SagaInv /\ [Next]_vars => SagaInv'
<1> SUFFICES ASSUME "finalize" \notin OperatorActs, EngineInv, SagaInv, [Next]_vars
             PROVE  SagaInv'
  OBVIOUS
<1>1. CASE \E o \in Op : OpStep(o)
  BY <1>1, OpStepSaga
<1>2. CASE \E r \in Submittable : Submit(r)
  BY <1>2, InsertSaga DEF Submit
<1>3. CASE \E k \in NonOpKeys : NonOpEnter(k) \/ NonOpLeave(k)
  BY <1>3 DEF NonOpEnter, NonOpLeave, storeVars, SagaInv, Saga, Owed, StepsOf, UndoOf
<1>4. CASE CrashAndResume
  BY <1>4, CrashSaga
<1>5. CASE UNCHANGED vars
  BY <1>5 DEF vars, SagaInv, Saga, Owed, StepsOf, UndoOf
<1> QED
  BY <1>1, <1>2, <1>3, <1>4, <1>5 DEF Next

LEMMA InitSaga == Init => SagaInv
  BY DEF Init, StoreInit, RunnerInit, NoRow, Idle, SagaInv, Saga, ForwardPc, UndoPc

-----------------------------------------------------------------------------
(* What an operation that no operator finalizes by hand guarantees.        *)

LEMMA SagaHolds ==
  ASSUME "finalize" \notin OperatorActs
  PROVE  Spec => []SagaInv
<1>1. EngineInv /\ SagaInv /\ [Next]_vars => SagaInv'
  BY NextSaga
<1> QED
  BY <1>1, InitSaga, InvariantHolds, PTL DEF Spec

(* An operation that reports `compensated` owes no compensation.           *)
THEOREM CompensatedMeansUndone ==
  ASSUME "finalize" \notin OperatorActs
  PROVE  Spec => []CompensatedIsComplete
<1>1. SagaInv => CompensatedIsComplete
  BY DEF SagaInv, Saga, Owed, CompensatedIsComplete, Rollbackable
<1> QED
  BY <1>1, SagaHolds, PTL

(* A rollback that has begun is never turned back into forward work.       *)
THEOREM RollbackIsFinal ==
  ASSUME "finalize" \notin OperatorActs
  PROVE  Spec => []NoForwardAfterRollback
<1>1. SagaInv => NoForwardAfterRollback
  BY DEF SagaInv, Saga, NoForwardAfterRollback
<1> QED
  BY <1>1, SagaHolds, PTL

(* A step with a completed row is not executed again, and an operation     *)
(* that is done has left no step out.                                      *)
THEOREM StepsRunWhenOwed ==
  ASSUME "finalize" \notin OperatorActs
  PROVE  Spec => []OnlyOwedStepsRun
<1>1. ASSUME SagaInv
      PROVE  OnlyOwedStepsRun
  <2>1. ASSUME NEW o \in Op
        PROVE  /\ runner[o].pc \in ForwardPc => runner[o].at \notin row[o].fwd
               /\ runner[o].pc \in UndoPc => runner[o].at \in Rollbackable(o) \ row[o].undone
               /\ row[o].status = "done"
                    => StepsOf(o) \subseteq row[o].fwd /\ row[o].undone = {}
    BY <1>1 DEF SagaInv, Saga, Owed, Rollbackable
  <2> QED
    BY <2>1 DEF OnlyOwedStepsRun
<1> QED
  BY <1>1, SagaHolds, PTL

-----------------------------------------------------------------------------
(* What one step does to the runner of o, once o was asked to cancel.      *)
Begins(pc) == pc \in {"probe", "run"}
Heeds(o) ==
  row[o].cancelReq /\ Begins(runner'[o].pc)
    => runner[o].pc # "idle" /\ runner'[o].at = runner[o].at

LEMMA UndoBelowBegins ==
  ASSUME NEW o \in Op, NEW r, NEW i, NEW x \in Runner
  PROVE  ~Begins(UndoBelow(o, r, i, x).runner.pc)
<1> DEFINE owed == (UndoOf(o) \cap r.fwd) \ r.undone
           todo == {j \in owed : j < i}
           next == Greatest(todo)
           y == [x EXCEPT !.at = next, !.pc = IF next \in Shape[req[o]].goneCheck
                                              THEN "undoProbe" ELSE "undo"]
           outcome == IF x.cancelled THEN "cancelled" ELSE "compensated"
<1>1. \A s : ~Begins(Exit(s).runner.pc)
  BY DEF Exit, Idle, Begins
<1>2. y.pc \in {"undoProbe", "undo"}
  BY DEF Runner
<1>3. ~Begins(Suspend(r, y).runner.pc)
  BY <1>2 DEF Suspend, Begins
<1>4. CASE todo # {} /\ Superseded(o)
  <2>1. UndoBelow(o, r, i, x)
          = Exit(MarkFinished([r EXCEPT !.undone = @ \cup owed], outcome))
    BY <1>4 DEF UndoBelow
  <2> QED
    BY <2>1, <1>1
<1>5. CASE todo # {} /\ ~Superseded(o)
  <2>1. UndoBelow(o, r, i, x) = Suspend(r, y)
    BY <1>5 DEF UndoBelow
  <2> QED
    BY <2>1, <1>3
<1>6. CASE todo = {}
  <2>1. UndoBelow(o, r, i, x) = Exit(r) \/ UndoBelow(o, r, i, x) = Exit(MarkFinished(r, outcome))
    BY <1>6 DEF UndoBelow, EndWalk
  <2> QED
    BY <2>1, <1>1
<1> QED
  BY <1>4, <1>5, <1>6

LEMMA FailForwardBegins ==
  ASSUME NEW o \in Op, NEW r \in LiveRow
  PROVE  ~Begins(FailForward(o, r).runner.pc) /\ ~Begins(UndoAll(o, r, FALSE).runner.pc)
<1>1. CancelRequested(r) \in BOOLEAN
  BY DEF CancelRequested, LiveRow, Row
<1>2. \A c \in BOOLEAN : [Idle EXCEPT !.cancelled = c] \in Runner
  BY DEF Idle, Runner, Pc
<1> QED
  BY <1>1, <1>2, UndoBelowBegins DEF FailForward, UndoAll

(* The forward loop looks at the flag before every step. *)
LEMMA CancelledStops ==
  ASSUME NEW o \in Op, NEW r \in LiveRow, NEW i, CancelRequested(r)
  PROVE  ~Begins(ForwardFrom(o, r, i).runner.pc)
<1>1. CASE StepsAfter(o, i) # {}
  <2>1. ForwardFrom(o, r, i) = FailForward(o, r)
    BY <1>1 DEF ForwardFrom
  <2> QED
    BY <2>1, FailForwardBegins
<1>2. CASE StepsAfter(o, i) = {}
  <2>1. ForwardFrom(o, r, i) = Exit(MarkFinished(r, "done"))
    BY <1>2 DEF ForwardFrom
  <2> QED
    BY <2>1 DEF Exit, Idle, Begins
<1> QED
  BY <1>1, <1>2

LEMMA CancelledBegin ==
  ASSUME NEW o \in Op, NEW r \in LiveRow, r.cancelReq
  PROVE  ~Begins(Begin(o, r).runner.pc)
<1> DEFINE fenced == Shape[req[o]].destroys /\ parent[o] # NoOp /\ AncestorSuperseded(o)
<1>1. CASE fenced
  <2>1. Begin(o, r) = Exit(MarkFinished(r, "cancelled"))
    BY <1>1 DEF Begin
  <2> QED
    BY <2>1 DEF Exit, Idle, Begins
<1>2. CASE ~fenced /\ r.status = "compensating"
  <2>1. Begin(o, r) = UndoAll(o, Bumped(r), FALSE)
    BY <1>2 DEF Begin
  <2> QED
    BY <2>1, RowUpdates, FailForwardBegins
<1>3. CASE ~fenced /\ r.status # "compensating"
  <2>1. Begin(o, r) = ForwardFrom(o, MarkRunning(r), 0)
    BY <1>3 DEF Begin
  <2>2. MarkRunning(r) \in LiveRow
    BY RowUpdates
  <2>3. MarkRunning(r).cancelReq = r.cancelReq
    BY DEF MarkRunning, Bumped, LiveRow, Row
  <2>4. CancelRequested(MarkRunning(r))
    BY <2>3 DEF CancelRequested
  <2> QED
    BY <2>1, <2>2, <2>4, CancelledStops
<1> QED
  BY <1>1, <1>2, <1>3

(* A segment of p disturbs no other runner. *)
LEMMA SettleHeeds ==
  ASSUME EngineInv, NEW o \in Op, NEW p \in Op, NEW held, NEW out, Settle(p, held, out),
         row[p].cancelReq => ~Begins(out.runner.pc)
  PROVE  Heeds(o)
<1>1. runner' = [runner EXCEPT ![p] = out.runner]
  BY DEF Settle
<1>2. CASE o = p
  <2>1. runner'[o] = out.runner
    BY <1>1, <1>2 DEF EngineInv, TypeOK, RunnerTypeOK
  <2> QED
    BY <2>1, <1>2 DEF Heeds
<1>3. CASE o # p
  <2>1. runner'[o] = runner[o]
    BY <1>1, <1>3 DEF EngineInv, TypeOK, RunnerTypeOK
  <2> QED
    BY <2>1 DEF Heeds, Begins
<1> QED
  BY <1>2, <1>3

LEMMA GotoHeeds ==
  ASSUME EngineInv, NEW o \in Op, NEW p \in Op, NEW pc, Goto(p, pc), ~At(p, "idle")
  PROVE  Heeds(o)
<1>1. runner' = [runner EXCEPT ![p].pc = pc] /\ runner[p] \in Runner
  BY DEF Goto, EngineInv, TypeOK, RunnerTypeOK
<1>2. CASE o = p
  <2>1. runner'[o] = [runner[o] EXCEPT !.pc = pc]
    BY <1>1, <1>2 DEF EngineInv, TypeOK, RunnerTypeOK
  <2>2. runner'[o].at = runner[o].at
    BY <2>1, <1>1, <1>2 DEF Runner
  <2> QED
    BY <2>2, <1>2 DEF Heeds, At
<1>3. CASE o # p
  <2>1. runner'[o] = runner[o]
    BY <1>1, <1>3 DEF EngineInv, TypeOK, RunnerTypeOK
  <2> QED
    BY <2>1 DEF Heeds, Begins
<1> QED
  BY <1>2, <1>3

LEMMA StillHeeds ==
  ASSUME NEW o \in Op, UNCHANGED runner
  PROVE  Heeds(o)
  BY DEF Heeds, Begins

LEMMA RunnerStepHeeds ==
  ASSUME EngineInv, NEW o \in Op, NEW p \in Op, RunnerStep(p)
  PROVE  Heeds(o)
<1> DEFINE r == row[p]
           x == runner[p]
           i == runner[p].at
<1>1. ~At(p, "idle")
  BY DEF RunnerStep, At, Adopt, ProbeFallsThrough, ProbeRejects, RunTakesEffect, RunThrows,
     RunReturns, SpawnChild, AwaitChildren, PassCancelOn, AwaitThrows, ChildrenSettled,
     UndoNotNeeded, UndoProbeFallsThrough, UndoTakesEffect, UndoReturns, UndoThrows
<1>2. r \in LiveRow /\ x \in Runner /\ i \in Nat
  <2>1. r \in LiveRow
    BY <1>1, LiveRunner, OutcomeSegments DEF EngineInv
  <2>2. x \in Runner
    BY DEF EngineInv, TypeOK, RunnerTypeOK
  <2> QED
    BY <2>1, <2>2 DEF Runner
<1>3. r.cancelReq => ~Begins(RecordStep(p, i).runner.pc)
  <2> DEFINE s == [r EXCEPT !.fwd = @ \cup {i}]
  <2>1. s \in LiveRow
    BY <1>2, RowUpdates
  <2>2. s.cancelReq = r.cancelReq
    BY <1>2 DEF LiveRow, Row
  <2>3. r.cancelReq => ~Begins(ForwardFrom(p, s, i).runner.pc)
    BY <2>1, <2>2, CancelledStops DEF CancelRequested
  <2> QED
    BY <2>3 DEF RecordStep
<1>4. ~Begins(RecordUndo(p, i).runner.pc)
  BY <1>2, UndoBelowBegins DEF RecordUndo
<1>5. ~Begins(FailForward(p, r).runner.pc)
  BY <1>2, FailForwardBegins
<1>6. ~Begins(UndoBelow(p, r, i, [x EXCEPT !.failed = TRUE]).runner.pc)
  <2>1. [x EXCEPT !.failed = TRUE] \in Runner
    BY <1>2 DEF Runner
  <2> QED
    BY <2>1, UndoBelowBegins
<1>7. CASE Adopt(p) \/ RunReturns(p)
  BY <1>7, <1>3, SettleHeeds DEF Adopt, RunReturns
<1>8. CASE ProbeRejects(p) \/ RunThrows(p) \/ AwaitThrows(p)
  BY <1>8, <1>5, SettleHeeds DEF ProbeRejects, RunThrows, AwaitThrows
<1>9. CASE UndoNotNeeded(p) \/ UndoReturns(p)
  BY <1>9, <1>4, SettleHeeds DEF UndoNotNeeded, UndoReturns
<1>10. CASE UndoThrows(p)
  BY <1>10, <1>6, SettleHeeds DEF UndoThrows
<1>11. CASE \/ ProbeFallsThrough(p) \/ RunTakesEffect(p) \/ AwaitChildren(p)
            \/ ChildrenSettled(p) \/ UndoProbeFallsThrough(p) \/ UndoTakesEffect(p)
  <2>1. \E pc : Goto(p, pc)
    BY <1>11 DEF ProbeFallsThrough, RunTakesEffect, AwaitChildren, ChildrenSettled,
       UndoProbeFallsThrough, UndoTakesEffect
  <2> QED
    BY <2>1, <1>1, GotoHeeds
<1>12. CASE SpawnChild(p) \/ PassCancelOn(p)
  BY <1>12, StillHeeds DEF SpawnChild, PassCancelOn
<1> QED
  BY <1>7, <1>8, <1>9, <1>10, <1>11, <1>12 DEF RunnerStep

LEMMA NextHeeds ==
  ASSUME EngineInv, [Next]_vars, NEW o \in Op
  PROVE  Heeds(o)
<1>1. ASSUME NEW p \in Op, TryStart(p), Exists(p)
      PROVE  Heeds(o)
  <2>1. row[p] \in LiveRow
    BY <1>1, OutcomeSegments DEF EngineInv
  <2>2. CASE Start(p)
    BY <2>1, <2>2, CancelledBegin, SettleHeeds DEF Start
  <2>3. CASE FailUnknown(p)
    BY <2>3, StillHeeds DEF FailUnknown
  <2> QED
    BY <2>2, <2>3, <1>1 DEF TryStart
<1>2. CASE \E p \in Op : OpStep(p)
  <2>1. PICK p \in Op : OpStep(p)
    BY <1>2
  <2>2. CASE TickPending(p) \/ TickCompensating(p) \/ SweepRequeue(p)
    BY <2>2, <1>1 DEF TickPending, TickCompensating, SweepRequeue, OldestPending, Pending, Exists
  <2>3. CASE \/ SweepExhausted(p) \/ SweepZombie(p) \/ CancelOperation(p) \/ RetrySame(p)
             \/ FinalizeChecks(p) \/ FinalizeWrites(p) \/ FinalizeRefused(p)
    BY <2>3, StillHeeds DEF SweepExhausted, SweepZombie, CancelOperation, RetrySame,
       FinalizeChecks, FinalizeWrites, FinalizeRefused
  <2>4. CASE RetryAsNew(p)
    BY <2>4, StillHeeds DEF RetryAsNew, Submit
  <2>5. CASE RunnerFails(p)
    <3>1. ~Begins(Exit(row[p]).runner.pc)
      BY DEF Exit, Idle, Begins
    <3> QED
      BY <3>1, <2>5, SettleHeeds DEF RunnerFails
  <2>6. CASE Run(p)
    BY <2>6, RunnerStepHeeds DEF Run
  <2> QED
    BY <2>1, <2>2, <2>3, <2>4, <2>5, <2>6 DEF OpStep
<1>3. CASE \E r \in Submittable : Submit(r)
  BY <1>3, StillHeeds DEF Submit
<1>4. CASE \E k \in NonOpKeys : NonOpEnter(k) \/ NonOpLeave(k)
  BY <1>4, StillHeeds DEF NonOpEnter, NonOpLeave
<1>5. CASE CrashAndResume
  BY <1>5 DEF CrashAndResume, Heeds, Idle, Begins
<1>6. CASE UNCHANGED vars
  BY <1>6, StillHeeds DEF vars
<1> QED
  BY <1>2, <1>3, <1>4, <1>5, <1>6 DEF Next

(* A runner that was asked to cancel begins no further forward step, by    *)
(* whichever route it was started, resumed or brought to its next await.   *)
THEOREM CancelIsHeeded == Spec => NoNewStepAfterCancel
<1>1. EngineInv /\ [Next]_vars => \A o \in Op : Heeds(o)
  BY NextHeeds
<1>2. ASSUME \A o \in Op : Heeds(o)
      PROVE  \A o \in Op :
               /\ row[o].cancelReq
               /\ runner'[o].pc \in {"probe", "run"}
               => runner[o].pc # "idle" /\ runner'[o].at = runner[o].at
  BY <1>2 DEF Heeds, Begins
<1>3. EngineInv /\ [Next]_vars =>
        [\A o \in Op :
           /\ row[o].cancelReq
           /\ runner'[o].pc \in {"probe", "run"}
           => runner[o].pc # "idle" /\ runner'[o].at = runner[o].at]_vars
  BY <1>1, <1>2
<1> QED
  BY <1>3, InvariantHolds, PTL DEF Spec, NoNewStepAfterCancel

(***************************************************************************)
(* Several operations                                                      *)
(***************************************************************************)
(* Parents and children. *)

(* Only rows of the table have a parent, and no two of them are the same   *)
(* child of one parent.                                                    *)
ChildrenInv ==
  /\ \A c \in Op : parent[c] # NoOp => Exists(c)
  /\ ChildrenAreUnique

(* Every step but an insertion leaves the envelopes alone. *)
LEMMA EnvelopesStay ==
  ASSUME EngineInv, [Next]_vars
  PROVE  \/ UNCHANGED <<req, parent>> /\ \A c \in Op : Exists(c) => Exists(c)'
         \/ \E r : Insert(r, NoOp) /\ UNCHANGED runner
         \/ \E o \in Op : SpawnChild(o) /\ Exists(o)
<1>1. EngineInv'
  BY NextKeeps
<1>2. UNCHANGED req => \A c \in Op : Exists(c) => Exists(c)'
  BY <1>1 DEF EngineInv, TypeOK, StoreTypeOK, Exists
<1>3. ASSUME NEW o \in Op, TryStart(o)
      PROVE  UNCHANGED <<req, parent>>
  BY <1>3 DEF TryStart, Start, FailUnknown
<1>4. ASSUME NEW o \in Op, RunnerStep(o)
      PROVE  UNCHANGED <<req, parent>> \/ (SpawnChild(o) /\ Exists(o))
  <2>1. SpawnChild(o) => Exists(o)
    BY LiveRunner DEF SpawnChild, At
  <2>2. Adopt(o) \/ ProbeRejects(o) \/ RunThrows(o) \/ RunReturns(o) \/ AwaitThrows(o)
          \/ UndoNotNeeded(o) \/ UndoReturns(o) \/ PassCancelOn(o)
          => UNCHANGED <<req, parent>>
    BY DEF Adopt, ProbeRejects, RunThrows, RunReturns, AwaitThrows, UndoNotNeeded,
       UndoReturns, PassCancelOn
  <2>3. UndoThrows(o) => UNCHANGED <<req, parent>>
    BY DEF UndoThrows
  <2>4. ProbeFallsThrough(o) \/ RunTakesEffect(o) \/ AwaitChildren(o) \/ ChildrenSettled(o)
          \/ UndoProbeFallsThrough(o) \/ UndoTakesEffect(o)
          => UNCHANGED <<req, parent>>
    BY DEF ProbeFallsThrough, RunTakesEffect, AwaitChildren, ChildrenSettled,
       UndoProbeFallsThrough, UndoTakesEffect, storeVars
  <2> QED
    BY <1>4, <2>1, <2>2, <2>3, <2>4 DEF RunnerStep
<1>5. CASE \E o \in Op : OpStep(o)
  <2>1. PICK o \in Op : OpStep(o)
    BY <1>5
  <2>2. CASE TickPending(o) \/ TickCompensating(o) \/ SweepRequeue(o)
    BY <2>2, <1>2, <1>3 DEF TickPending, TickCompensating, SweepRequeue
  <2>3. CASE \/ SweepExhausted(o) \/ SweepZombie(o) \/ CancelOperation(o) \/ RetrySame(o)
             \/ FinalizeChecks(o) \/ FinalizeWrites(o) \/ FinalizeRefused(o) \/ RunnerFails(o)
    BY <2>3, <1>2 DEF SweepExhausted, SweepZombie, CancelOperation, RetrySame, FinalizeChecks,
       FinalizeWrites, FinalizeRefused, RunnerFails, storeVars
  <2>4. CASE RetryAsNew(o)
    BY <2>4 DEF RetryAsNew, Submit
  <2>5. CASE Run(o)
    BY <2>5, <1>2, <1>4 DEF Run
  <2> QED
    BY <2>1, <2>2, <2>3, <2>4, <2>5 DEF OpStep
<1>6. CASE \E r \in Submittable : Submit(r)
  BY <1>6 DEF Submit
<1>7. CASE \E k \in NonOpKeys : NonOpEnter(k) \/ NonOpLeave(k)
  BY <1>7, <1>2 DEF NonOpEnter, NonOpLeave, storeVars
<1>8. CASE CrashAndResume
  BY <1>8, <1>2 DEF CrashAndResume
<1>9. CASE UNCHANGED vars
  BY <1>9, <1>2 DEF vars
<1> QED
  BY <1>5, <1>6, <1>7, <1>8, <1>9 DEF Next

LEMMA ChildrenStay == EngineInv /\ ChildrenInv /\ [Next]_vars => ChildrenInv'
<1> SUFFICES ASSUME EngineInv, ChildrenInv, [Next]_vars
             PROVE  ChildrenInv'
  OBVIOUS
<1>1. CASE UNCHANGED <<req, parent>> /\ \A c \in Op : Exists(c) => Exists(c)'
  BY <1>1 DEF ChildrenInv, ChildrenAreUnique
<1>2. ASSUME NEW r, NEW p \in Op \cup {NoOp}, Insert(r, p),
             \A c \in Op : p # NoOp /\ Exists(c) /\ parent[c] = p => req[c] # r
      PROVE  ChildrenInv'
  <2>1. PICK o \in Op : /\ ~Exists(o)
                        /\ req' = [req EXCEPT ![o] = r]
                        /\ parent' = [parent EXCEPT ![o] = p]
                        /\ row' = [row EXCEPT ![o] = FreshRow]
    BY <1>2 DEF Insert
  <2>2. /\ req'[o] = r /\ parent'[o] = p
        /\ row'[o].status = "pending"
        /\ \A c \in Op \ {o} : req'[c] = req[c] /\ parent'[c] = parent[c] /\ row'[c] = row[c]
    BY <2>1 DEF EngineInv, TypeOK, StoreTypeOK, FreshRow, NoRow
  <2>3. \A c \in Op : parent'[c] # NoOp => Exists(c)'
    BY <2>2 DEF ChildrenInv, Exists
  <2>4. \A c \in Op \ {o} : ~ (parent'[c] # NoOp /\ parent'[c] = p /\ req'[c] = r)
    BY <2>2, <1>2 DEF ChildrenInv
  <2>5. ChildrenAreUnique'
    BY <2>2, <2>4 DEF ChildrenInv, ChildrenAreUnique
  <2> QED
    BY <2>3, <2>5 DEF ChildrenInv
<1>3. CASE \E r : Insert(r, NoOp)
  BY <1>2, <1>3
<1>4. CASE \E o \in Op : SpawnChild(o) /\ Exists(o)
  <2>1. PICK o \in Op : SpawnChild(o)
    BY <1>4
  <2>2. PICK r \in Unspawned(o) : Insert(r, o)
    BY <2>1 DEF SpawnChild
  <2>3. r \in SpawnsOf(o, runner[o].at)
        /\ \A c \in Children(o, runner[o].at) : req[c] # r
    BY <2>2 DEF Unspawned
  <2>4. \A c \in Op : Exists(c) /\ parent[c] = o => req[c] # r
    BY <2>3 DEF Children
  <2> QED
    BY <2>2, <2>4, <1>2
<1> QED
  BY <1>1, <1>3, <1>4, EnvelopesStay

(* However often a parent is restarted while it enqueues its children,     *)
(* each child it wants exists once.                                        *)
THEOREM ChildrenAreSpawnedOnce == Spec => []ChildrenAreUnique
<1>1. Init => ChildrenInv
  BY DEF Init, StoreInit, ChildrenInv, ChildrenAreUnique
<1>2. ChildrenInv => ChildrenAreUnique
  BY DEF ChildrenInv
<1> QED
  BY <1>1, <1>2, ChildrenStay, InvariantHolds, PTL DEF Spec

-----------------------------------------------------------------------------
(* The queue. *)

(* Only a start brings an operation into flight, and a pending one only    *)
(* the scan of tick.                                                       *)
LEMMA EntersByStart ==
  ASSUME EngineInv, [Next]_vars, NEW p \in Op, p \in inFlight', p \notin inFlight
  PROVE  Start(p) /\ (row[p].status = "pending" => TickPending(p))
<1>1. ASSUME NEW o \in Op, o \in inFlight, NEW out, Settle(o, holders, out)
      PROVE  FALSE
  BY <1>1 DEF Settle
<1>2. ASSUME NEW o \in Op, RunnerStep(o)
      PROVE  FALSE
  <2>1. ~At(o, "idle")
    BY <1>2 DEF RunnerStep, At, Adopt, ProbeFallsThrough, ProbeRejects, RunTakesEffect,
       RunThrows, RunReturns, SpawnChild, AwaitChildren, PassCancelOn, AwaitThrows,
       ChildrenSettled, UndoNotNeeded, UndoProbeFallsThrough, UndoTakesEffect, UndoReturns,
       UndoThrows
  <2>2. o \in inFlight
    BY <2>1, LiveRunner
  <2>3. CASE \/ Adopt(o) \/ ProbeRejects(o) \/ RunThrows(o) \/ RunReturns(o)
             \/ AwaitThrows(o) \/ UndoNotNeeded(o) \/ UndoReturns(o) \/ UndoThrows(o)
    <3>1. \E out : Settle(o, holders, out)
      BY <2>3 DEF Adopt, ProbeRejects, RunThrows, RunReturns, AwaitThrows, UndoNotNeeded,
         UndoReturns, UndoThrows
    <3> QED
      BY <3>1, <2>2, <1>1
  <2>4. CASE \/ ProbeFallsThrough(o) \/ RunTakesEffect(o) \/ AwaitChildren(o)
             \/ PassCancelOn(o) \/ ChildrenSettled(o) \/ UndoProbeFallsThrough(o)
             \/ UndoTakesEffect(o) \/ SpawnChild(o)
    BY <2>4 DEF ProbeFallsThrough, RunTakesEffect, AwaitChildren, PassCancelOn,
       ChildrenSettled, UndoProbeFallsThrough, UndoTakesEffect, SpawnChild, memoryVars
  <2> QED
    BY <1>2, <2>3, <2>4 DEF RunnerStep
<1>3. ASSUME NEW o \in Op, TryStart(o)
      PROVE  o = p /\ Start(p)
  <2>1. CASE Start(o)
    BY <2>1 DEF Start, Settle
  <2>2. CASE FailUnknown(o)
    BY <2>2 DEF FailUnknown, memoryVars
  <2> QED
    BY <1>3, <2>1, <2>2 DEF TryStart
<1>4. CASE \E o \in Op : OpStep(o)
  <2>1. PICK o \in Op : OpStep(o)
    BY <1>4
  <2>2. CASE TickPending(o)
    BY <2>2, <1>3 DEF TickPending
  <2>3. CASE TickCompensating(o) \/ SweepRequeue(o)
    BY <2>3, <1>3 DEF TickCompensating, SweepRequeue
  <2>4. CASE \/ SweepExhausted(o) \/ SweepZombie(o) \/ CancelOperation(o) \/ RetrySame(o)
             \/ RetryAsNew(o) \/ FinalizeChecks(o) \/ FinalizeWrites(o) \/ FinalizeRefused(o)
    BY <2>4 DEF SweepExhausted, SweepZombie, CancelOperation, RetrySame, RetryAsNew, Submit,
       FinalizeChecks, FinalizeWrites, FinalizeRefused, memoryVars
  <2>5. CASE RunnerFails(o)
    BY <2>5, <1>1 DEF RunnerFails
  <2>6. CASE Run(o)
    BY <2>6, <1>2 DEF Run
  <2> QED
    BY <2>1, <2>2, <2>3, <2>4, <2>5, <2>6 DEF OpStep
<1>5. CASE \E r \in Submittable : Submit(r)
  BY <1>5 DEF Submit, memoryVars
<1>6. CASE \E k \in NonOpKeys : NonOpEnter(k) \/ NonOpLeave(k)
  BY <1>6 DEF NonOpEnter, NonOpLeave
<1>7. CASE CrashAndResume
  BY <1>7 DEF CrashAndResume
<1>8. CASE UNCHANGED vars
  BY <1>8 DEF vars
<1> QED
  BY <1>4, <1>5, <1>6, <1>7, <1>8 DEF Next

(* Whatever is listed before a row of the window is in the window. *)
LEMMA WindowIsAPrefix ==
  ASSUME NEW o \in Pending, NEW p, ListedBefore(o, p), NEW limit \in Nat,
         p \in OldestPending(limit)
  PROVE  o \in OldestPending(limit)
<1> DEFINE before(q) == {x \in Pending : ListedBefore(x, q)}
<1>1. p \in Pending /\ Cardinality(before(p)) < limit
  BY DEF OldestPending
<1>2. Pending \in SUBSET Op /\ Op \in SUBSET Nat /\ IsFiniteSet(Op)
  <2>1. MaxOps \in Int /\ 1 \in Int
    BY StoreAssumption DEF StoreAssumption
  <2>2. IsFiniteSet(1 .. MaxOps)
    BY <2>1, FS_Interval
  <2>3. IsFiniteSet(Op)
    BY <2>2 DEF Op
  <2>4. Pending \in SUBSET Op
    BY DEF Pending
  <2>5. Op \in SUBSET Nat
    BY <2>1 DEF Op
  <2> QED
    BY <2>3, <2>4, <2>5
<1>3. before(o) \in SUBSET before(p)
  <2>1. o \in Nat /\ p \in Nat /\ o < p
    BY <1>1, <1>2 DEF ListedBefore
  <2>2. ASSUME NEW x \in Pending, x < o
        PROVE  x < p
    <3>1. x \in Nat
      BY <1>2
    <3> QED
      BY <3>1, <2>1, <2>2
  <2> QED
    BY <2>2 DEF ListedBefore
<1>4. IsFiniteSet(before(p))
  BY <1>2, FS_Subset
<1>5. /\ Cardinality(before(o)) <= Cardinality(before(p))
      /\ Cardinality(before(o)) \in Nat /\ Cardinality(before(p)) \in Nat
  BY <1>3, <1>4, FS_Subset, FS_CardinalityType
<1>6. Cardinality(before(o)) < limit
  BY <1>1, <1>5
<1> QED
  BY <1>6 DEF OldestPending

LEMMA QueueIsKept ==
  ASSUME EngineInv, [Next]_vars, NEW o \in Pending \ inFlight, NEW p \in Pending \ inFlight,
         o < p, KeysOf(o) = KeysOf(p), Shape[req[o]].known
  PROVE  p \notin inFlight'
<1> SUFFICES ASSUME p \in inFlight'
             PROVE  FALSE
  OBVIOUS
<1>1. o \in Op /\ p \in Op /\ row[p].status = "pending"
  BY DEF Pending
<1>2. TickPending(p) /\ Start(p)
  BY <1>1, EntersByStart
<1>3. Startable(p) /\ Shape[req[p]].known /\ p \in OldestPending(2 * MaxConcurrent)
  BY <1>2 DEF TickPending, TryStart, Start
<1>4. 2 * MaxConcurrent \in Nat
  BY SchedulerAssumption DEF SchedulerAssumption
<1>5. o \in OldestPending(2 * MaxConcurrent)
  BY <1>3, <1>4, WindowIsAPrefix DEF ListedBefore
<1>6. ~Startable(o)
  BY <1>2, <1>5 DEF TickPending, ListedBefore
<1>7. Startable(o)
  BY <1>3 DEF Startable
<1> QED
  BY <1>6, <1>7

(* Two requests for the same keys are served in the order they came in,    *)
(* whatever else is queued and however small the window of the scan.       *)
THEOREM NobodyOvertakes == Spec => NoOvertaking
<1> DEFINE Kept == \A o, p \in Pending \ inFlight :
                     o < p /\ KeysOf(o) = KeysOf(p) /\ Shape[req[o]].known => p \notin inFlight'
<1>1. EngineInv /\ [Next]_vars => Kept
  BY QueueIsKept
<1>2. EngineInv /\ [Next]_vars => [Kept]_vars
  BY <1>1
<1>3. Spec => [][Kept]_vars
  <2> HIDE DEF Kept
  <2> QED
    BY <1>2, InvariantHolds, PTL DEF Spec
<1> QED
  BY <1>3 DEF NoOvertaking

-----------------------------------------------------------------------------
(* The end of a parent. *)

(* What is asked of the requests: nobody finalizes by hand, every request  *)
(* locks a key, and a step that enqueues children has no probe.            *)
Families ==
  /\ "finalize" \notin OperatorActs
  /\ \A r \in Request :
       /\ Shape[r].keys # {}
       /\ \A e \in Shape[r].spawns : e[1] \notin Shape[r].probed

Over == {"done", "cancelled"}

(* The children step i of o wants exist; they are over, and none failed.   *)
Spawned(o, i) ==
  \A r \in SpawnsOf(o, i) : \E c \in Op : Exists(c) /\ parent[c] = o /\ req[c] = r
StepSettled(o, i) ==
  \A r \in SpawnsOf(o, i) :
    \E c \in Op : row[c].status \in Over /\ parent[c] = o /\ req[c] = r

(* What the row r and the runner x of o say of its children. *)
Kin(o, r, x) ==
  /\ x.pc \in ForwardPc => r.status = "running"
  /\ x.pc = "probe" => x.at \in Shape[req[o]].probed
  /\ x.pc = "await" => Spawned(o, x.at)
  /\ x.pc = "ran" => StepSettled(o, x.at)
  /\ \A i \in r.fwd : StepSettled(o, i)

(* A row with a parent is the child of one of its steps. *)
HasStep(c) ==
  parent[c] # NoOp =>
    /\ Exists(parent[c])
    /\ \E i \in StepsOf(parent[c]) : req[c] \in SpawnsOf(parent[c], i)

FamilyInv ==
  /\ \A o \in Op : Exists(o) => Kin(o, row[o], runner[o])
  /\ \A c \in Op : HasStep(c)

(* The envelope of a row that exists is final. *)
LEMMA EnvelopeKept ==
  ASSUME EngineInv, [Next]_vars, NEW c \in Op, Exists(c)
  PROVE  Exists(c)' /\ req'[c] = req[c] /\ parent'[c] = parent[c]
<1>1. ASSUME NEW r, NEW p, Insert(r, p)
      PROVE  Exists(c)' /\ req'[c] = req[c] /\ parent'[c] = parent[c]
  <2>1. PICK o \in Op : /\ ~Exists(o)
                        /\ req' = [req EXCEPT ![o] = r]
                        /\ parent' = [parent EXCEPT ![o] = p]
                        /\ row' = [row EXCEPT ![o] = FreshRow]
    BY <1>1 DEF Insert
  <2>2. o # c
    BY <2>1
  <2> QED
    BY <2>1, <2>2 DEF EngineInv, TypeOK, StoreTypeOK, Exists
<1>2. CASE \E o \in Op : SpawnChild(o) /\ Exists(o)
  BY <1>1, <1>2 DEF SpawnChild
<1> QED
  BY <1>1, <1>2, EnvelopesStay

(* An operation in flight holds a key. *)
LEMMA LiveIsHeld ==
  ASSUME EngineInv, Families, NEW o \in inFlight
  PROVE  o \in Op /\ Held(o)
<1>1. o \in Op /\ req[o] \in Request
  BY DEF EngineInv, RunnersMatch, Exists, TypeOK, StoreTypeOK, MemoryTypeOK
<1>2. KeysOf(o) # {}
  BY <1>1 DEF Families, KeysOf
<1> QED
  BY <1>1, <1>2 DEF EngineInv, HoldersAreLive, Held

(* An operation that is over and does not run stays as it is. *)
LEMMA OverStays ==
  ASSUME EngineInv, finalizing = {}, [Next]_vars,
         NEW c \in Op, row[c].status \in Over, runner[c].pc = "idle"
  PROVE  row'[c].status = row[c].status
<1>0. Exists(c) /\ c \notin inFlight
  BY DEF Exists, Over, EngineInv, RunnersMatch
<1>1. ASSUME NEW p \in Op, p # c, NEW held, NEW out, Settle(p, held, out)
      PROVE  row'[c] = row[c]
  BY <1>1 DEF Settle
<1>2. ASSUME NEW r, NEW p, Insert(r, p)
      PROVE  row'[c] = row[c]
  BY <1>0, <1>2 DEF Insert
<1>3. ASSUME NEW p \in Op, TryStart(p), row[p].status \in {"pending", "compensating"}
      PROVE  row'[c] = row[c]
  <2>1. p # c
    BY <1>3 DEF Over
  <2>2. CASE Start(p)
    BY <1>1, <2>1, <2>2 DEF Start
  <2>3. CASE FailUnknown(p)
    BY <2>1, <2>3 DEF FailUnknown
  <2> QED
    BY <1>3, <2>2, <2>3 DEF TryStart
<1>4. ASSUME NEW p \in Op, RunnerStep(p)
      PROVE  row'[c] = row[c]
  <2>1. ~At(p, "idle")
    BY <1>4 DEF RunnerStep, At, Adopt, ProbeFallsThrough, ProbeRejects, RunTakesEffect,
       RunThrows, RunReturns, SpawnChild, AwaitChildren, PassCancelOn, AwaitThrows,
       ChildrenSettled, UndoNotNeeded, UndoProbeFallsThrough, UndoTakesEffect, UndoReturns,
       UndoThrows
  <2>2. p # c
    BY <2>1 DEF At
  <2>3. CASE \/ Adopt(p) \/ ProbeRejects(p) \/ RunThrows(p) \/ RunReturns(p)
             \/ AwaitThrows(p) \/ UndoNotNeeded(p) \/ UndoReturns(p) \/ UndoThrows(p)
    <3>1. \E out : Settle(p, holders, out)
      BY <2>3 DEF Adopt, ProbeRejects, RunThrows, RunReturns, AwaitThrows, UndoNotNeeded,
         UndoReturns, UndoThrows
    <3> QED
      BY <3>1, <2>2, <1>1
  <2>4. CASE \/ ProbeFallsThrough(p) \/ RunTakesEffect(p) \/ AwaitChildren(p)
             \/ ChildrenSettled(p) \/ UndoProbeFallsThrough(p) \/ UndoTakesEffect(p)
    BY <2>4 DEF ProbeFallsThrough, RunTakesEffect, AwaitChildren, ChildrenSettled,
       UndoProbeFallsThrough, UndoTakesEffect, storeVars
  <2>5. CASE SpawnChild(p)
    BY <2>5, <1>2 DEF SpawnChild
  <2>6. CASE PassCancelOn(p)
    <3>1. c \notin Outstanding(p)
      BY DEF Outstanding, Over, Terminal
    <3> QED
      BY <3>1, <2>6 DEF PassCancelOn
  <2> QED
    BY <1>4, <2>3, <2>4, <2>5, <2>6 DEF RunnerStep
<1>5. CASE \E p \in Op : OpStep(p)
  <2>1. PICK p \in Op : OpStep(p)
    BY <1>5
  <2>2. CASE TickPending(p) \/ TickCompensating(p) \/ SweepRequeue(p)
    BY <2>2, <1>3 DEF TickPending, TickCompensating, SweepRequeue, OldestPending, Pending
  <2>3. CASE SweepExhausted(p) \/ SweepZombie(p) \/ RetrySame(p)
    <3>1. p # c
      BY <2>3 DEF SweepExhausted, SweepZombie, RetrySame, Over
    <3>2. CASE SweepExhausted(p)
      BY <3>1, <3>2 DEF SweepExhausted
    <3>3. CASE SweepZombie(p)
      BY <3>1, <3>3 DEF SweepZombie
    <3>4. CASE RetrySame(p)
      BY <3>1, <3>4 DEF RetrySame
    <3> QED
      BY <2>3, <3>2, <3>3, <3>4
  <2>4. CASE CancelOperation(p)
    <3>1. CASE p = c
      <4>1. Cancelled(row[c]) = row[c]
        BY DEF Cancelled, Over
      <4> QED
        BY <4>1, <3>1, <2>4 DEF CancelOperation
    <3>2. CASE p # c
      BY <3>2, <2>4 DEF CancelOperation
    <3> QED
      BY <3>1, <3>2
  <2>5. CASE FinalizeChecks(p) \/ FinalizeWrites(p) \/ FinalizeRefused(p)
    BY <2>5 DEF FinalizeChecks, FinalizeWrites, FinalizeRefused, storeVars
  <2>6. CASE RetryAsNew(p)
    BY <2>6, <1>2 DEF RetryAsNew, Submit
  <2>7. CASE RunnerFails(p)
    BY <2>7, <1>0, <1>1 DEF RunnerFails
  <2>8. CASE Run(p)
    BY <2>8, <1>4 DEF Run
  <2> QED
    BY <2>1, <2>2, <2>3, <2>4, <2>5, <2>6, <2>7, <2>8 DEF OpStep
<1>6. CASE \E r \in Submittable : Submit(r)
  BY <1>6, <1>2 DEF Submit
<1>7. CASE \E k \in NonOpKeys : NonOpEnter(k) \/ NonOpLeave(k)
  BY <1>7 DEF NonOpEnter, NonOpLeave, storeVars
<1>8. CASE CrashAndResume
  BY <1>8 DEF CrashAndResume, Over
<1>9. CASE UNCHANGED vars
  BY <1>9 DEF vars
<1> QED
  BY <1>5, <1>6, <1>7, <1>8, <1>9 DEF Next

(* A step once settled stays so, and children once enqueued stay there.    *)
LEMMA SettledStays ==
  ASSUME EngineInv, SagaInv, FamilyInv, [Next]_vars, NEW o \in Op, Exists(o), NEW i
  PROVE  /\ Spawned(o, i) => Spawned(o, i)'
         /\ StepSettled(o, i) => StepSettled(o, i)'
<1>1. SpawnsOf(o, i)' = SpawnsOf(o, i)
  BY EnvelopeKept DEF SpawnsOf
<1>2. Spawned(o, i) => Spawned(o, i)'
  <2>1. \A c \in Op : Exists(c) => Exists(c)' /\ req'[c] = req[c] /\ parent'[c] = parent[c]
    BY EnvelopeKept
  <2> QED
    BY <1>1, <2>1 DEF Spawned
<1>3. ASSUME NEW c \in Op, row[c].status \in Over
      PROVE  row'[c].status \in Over /\ req'[c] = req[c] /\ parent'[c] = parent[c]
  <2>1. Exists(c)
    BY <1>3 DEF Exists, Over
  <2>2. runner[c].pc \notin ForwardPc
    BY <1>3, <2>1 DEF FamilyInv, Kin, Over
  <2>3. runner[c].pc \notin UndoPc
    BY <1>3 DEF SagaInv, Saga, Walking, Over
  <2>4. runner[c].pc \in Pc
    BY DEF EngineInv, TypeOK, RunnerTypeOK, Runner
  <2>5. runner[c].pc = "idle"
    BY <2>2, <2>3, <2>4 DEF ForwardPc, UndoPc, Pc
  <2> QED
    BY <1>3, <2>1, <2>5, OverStays, EnvelopeKept DEF SagaInv
<1>4. StepSettled(o, i) => StepSettled(o, i)'
  BY <1>1, <1>3 DEF StepSettled
<1> QED
  BY <1>2, <1>4

(* A segment that ends with the forward steps F in the log, and that goes  *)
(* on forward, if it does, in a row that is running.                       *)
SegKin(o, F, out) ==
  /\ out.row.fwd = F
  /\ out.runner.pc \in ForwardPc =>
       /\ out.row.status = "running"
       /\ out.runner.pc \in {"probe", "run"}
       /\ out.runner.pc = "probe" => out.runner.at \in Shape[req[o]].probed

LEMMA ExitKin ==
  ASSUME NEW o, NEW r \in LiveRow
  PROVE  /\ SegKin(o, r.fwd, Exit(r))
         /\ \A s : SegKin(o, r.fwd, Exit(MarkFinished(r, s)))
<1>1. \A s : MarkFinished(r, s).fwd = r.fwd
  BY DEF MarkFinished, LiveRow, Row
<1>2. \A s : Exit(s).row = s /\ Exit(s).runner.pc \notin ForwardPc
  BY DEF Exit, Idle, ForwardPc
<1> QED
  BY <1>1, <1>2 DEF SegKin

LEMMA UndoBelowKin ==
  ASSUME NEW o \in Op, req[o] \in Request, NEW r \in LiveRow, NEW i, NEW x \in Runner
  PROVE  SegKin(o, r.fwd, UndoBelow(o, r, i, x))
<1> DEFINE owed == (UndoOf(o) \cap r.fwd) \ r.undone
           todo == {j \in owed : j < i}
           next == Greatest(todo)
           y == [x EXCEPT !.at = next, !.pc = IF next \in Shape[req[o]].goneCheck
                                              THEN "undoProbe" ELSE "undo"]
           outcome == IF x.cancelled THEN "cancelled" ELSE "compensated"
           s == [r EXCEPT !.undone = @ \cup owed]
<1>1. CASE todo # {} /\ Superseded(o)
  <2>1. UndoBelow(o, r, i, x) = Exit(MarkFinished(s, outcome))
    BY <1>1 DEF UndoBelow
  <2>2. s \in LiveRow
    <3>1. owed \in SUBSET Nat
      BY ShapeFacts DEF UndoOf
    <3> QED
      BY <3>1, RowUpdates
  <2>3. s.fwd = r.fwd
    BY DEF LiveRow, Row
  <2>4. SegKin(o, s.fwd, Exit(MarkFinished(s, outcome)))
    BY <2>2, ExitKin
  <2> HIDE DEF s, outcome
  <2> QED
    BY <2>1, <2>3, <2>4
<1>2. CASE todo # {} /\ ~Superseded(o)
  <2>1. UndoBelow(o, r, i, x) = Suspend(r, y)
    BY <1>2 DEF UndoBelow
  <2>2. y.pc \in {"undoProbe", "undo"}
    BY DEF Runner
  <2>3. Suspend(r, y).row = r /\ Suspend(r, y).runner.pc \notin ForwardPc
    BY <2>2 DEF ForwardPc, Suspend
  <2>4. SegKin(o, r.fwd, Suspend(r, y))
    BY <2>3 DEF SegKin
  <2> QED
    BY <2>1, <2>4
<1>3. CASE todo = {}
  <2>1. UndoBelow(o, r, i, x) = Exit(r) \/ UndoBelow(o, r, i, x) = Exit(MarkFinished(r, outcome))
    BY <1>3 DEF UndoBelow, EndWalk
  <2> QED
    BY <2>1, ExitKin
<1> QED
  BY <1>1, <1>2, <1>3

LEMMA FailForwardKin ==
  ASSUME NEW o \in Op, req[o] \in Request, NEW r \in LiveRow
  PROVE  SegKin(o, r.fwd, FailForward(o, r)) /\ SegKin(o, r.fwd, UndoAll(o, r, FALSE))
<1>1. CancelRequested(r) \in BOOLEAN
  BY DEF CancelRequested, LiveRow, Row
<1>2. \A c \in BOOLEAN : [Idle EXCEPT !.cancelled = c] \in Runner
  BY DEF Idle, Runner, Pc
<1>3. MarkCompensating(r) \in LiveRow
  BY RowUpdates
<1>4. MarkCompensating(r).fwd = r.fwd
  BY DEF MarkCompensating, LiveRow, Row
<1> QED
  BY <1>1, <1>2, <1>3, <1>4, UndoBelowKin DEF FailForward, UndoAll

LEMMA ForwardFromKin ==
  ASSUME NEW o \in Op, req[o] \in Request, NEW r \in LiveRow, NEW i, r.status = "running"
  PROVE  SegKin(o, r.fwd, ForwardFrom(o, r, i))
<1> DEFINE rest == StepsAfter(o, i)
           todo == rest \cap Unrecorded(o, r)
           next == Least(todo)
           stop == rest # {} /\ CancelRequested(r)
           y == [Idle EXCEPT !.at = next, !.pc = IF next \in Shape[req[o]].probed
                                                 THEN "probe" ELSE "run"]
<1>1. CASE stop
  <2>1. ForwardFrom(o, r, i) = FailForward(o, r)
    BY <1>1 DEF ForwardFrom
  <2> QED
    BY <2>1, FailForwardKin
<1>2. CASE ~stop /\ todo # {}
  <2>1. ForwardFrom(o, r, i) = Suspend(r, y)
    BY <1>2 DEF ForwardFrom
  <2>2. y.at = next /\ y.pc = IF next \in Shape[req[o]].probed THEN "probe" ELSE "run"
    BY DEF Idle
  <2>3. Suspend(r, y).row = r /\ Suspend(r, y).runner = y
    BY DEF Suspend
  <2>4. SegKin(o, r.fwd, Suspend(r, y))
    <3> HIDE DEF y, next
    <3> QED
      BY <2>2, <2>3 DEF SegKin
  <2> QED
    BY <2>1, <2>4
<1>3. CASE ~stop /\ todo = {}
  <2>1. ForwardFrom(o, r, i) = Exit(MarkFinished(r, "done"))
    BY <1>3 DEF ForwardFrom
  <2> QED
    BY <2>1, ExitKin
<1> QED
  BY <1>1, <1>2, <1>3

LEMMA BeginKin ==
  ASSUME NEW o \in Op, req[o] \in Request, NEW r \in LiveRow
  PROVE  SegKin(o, r.fwd, Begin(o, r))
<1> DEFINE fenced == Shape[req[o]].destroys /\ parent[o] # NoOp /\ AncestorSuperseded(o)
<1>0. /\ Bumped(r) \in LiveRow /\ MarkRunning(r) \in LiveRow
      /\ Bumped(r).fwd = r.fwd /\ MarkRunning(r).fwd = r.fwd
      /\ MarkRunning(r).status = "running"
  <2>1. Bumped(r) \in LiveRow /\ MarkRunning(r) \in LiveRow
    BY RowUpdates
  <2>2. Bumped(r).fwd = r.fwd
    BY DEF Bumped, LiveRow, Row
  <2>3. MarkRunning(r).fwd = r.fwd /\ MarkRunning(r).status = "running"
    BY <2>1, <2>2 DEF MarkRunning, LiveRow, Row
  <2> QED
    BY <2>1, <2>2, <2>3
<1>1. CASE fenced
  <2>1. Begin(o, r) = Exit(MarkFinished(r, "cancelled"))
    BY <1>1 DEF Begin
  <2> QED
    BY <2>1, ExitKin
<1>2. CASE ~fenced /\ r.status = "compensating"
  <2>1. Begin(o, r) = UndoAll(o, Bumped(r), FALSE)
    BY <1>2 DEF Begin
  <2> QED
    BY <2>1, <1>0, FailForwardKin
<1>3. CASE ~fenced /\ r.status # "compensating"
  <2>1. Begin(o, r) = ForwardFrom(o, MarkRunning(r), 0)
    BY <1>3 DEF Begin
  <2> QED
    BY <2>1, <1>0, ForwardFromKin
<1> QED
  BY <1>1, <1>2, <1>3

(* What holds of an operation goes on holding while its row and runner do  *)
(* not change in anything Kin reads.                                       *)
LEMMA KinStays ==
  ASSUME EngineInv, SagaInv, FamilyInv, [Next]_vars, NEW o \in Op, Exists(o),
         row'[o].fwd = row[o].fwd,
         runner'[o] = runner[o] \/ runner'[o].pc = "idle",
         runner'[o].pc \in ForwardPc => row'[o].status = row[o].status
  PROVE  Kin(o, row[o], runner[o])'
<1>1. Kin(o, row[o], runner[o])
  BY DEF FamilyInv
<1>2. \A i : /\ Spawned(o, i) => Spawned(o, i)'
             /\ StepSettled(o, i) => StepSettled(o, i)'
  BY SettledStays
<1>3. req'[o] = req[o]
  BY EnvelopeKept
<1>4. \A i \in row[o].fwd : StepSettled(o, i)'
  BY <1>1, <1>2 DEF Kin
<1>5. CASE runner'[o].pc = "idle"
  BY <1>4, <1>5 DEF Kin, ForwardPc
<1>6. CASE runner'[o] = runner[o]
  <2>1. /\ runner[o].pc = "await" => Spawned(o, runner[o].at)'
        /\ runner[o].pc = "ran" => StepSettled(o, runner[o].at)'
    <3>1. PICK k \in Nat : k = runner[o].at
      BY DEF EngineInv, TypeOK, RunnerTypeOK, Runner
    <3>2. k = runner'[o].at
      BY <3>1, <1>6
    <3>3. /\ runner[o].pc = "await" => Spawned(o, k)'
          /\ runner[o].pc = "ran" => StepSettled(o, k)'
      BY <3>1, <1>1, <1>2 DEF Kin
    <3>4. SpawnsOf(o, runner[o].at)' = SpawnsOf(o, k)'
      BY <3>2 DEF SpawnsOf
    <3> QED
      BY <3>3, <3>4 DEF Spawned, StepSettled
  <2> QED
    BY <1>1, <1>3, <1>4, <1>6, <2>1 DEF Kin
<1> QED
  BY <1>5, <1>6

(* A segment of p keeps what holds of o. *)
LEMMA SettleKin ==
  ASSUME EngineInv, SagaInv, FamilyInv, [Next]_vars, NEW o \in Op, Exists(o),
         NEW p \in Op, NEW held, NEW out, Settle(p, held, out),
         NEW F, SegKin(p, F, out), \A i \in F : StepSettled(p, i)
  PROVE  Kin(o, row[o], runner[o])'
<1>1. CASE o = p
  <2>1. row'[o] = out.row /\ runner'[o] = out.runner
    BY <1>1 DEF Settle, EngineInv, TypeOK, StoreTypeOK, RunnerTypeOK
  <2>2. \A i \in row'[o].fwd : StepSettled(o, i)'
    BY <1>1, <2>1, SettledStays DEF SegKin
  <2>3. req'[o] = req[o]
    BY EnvelopeKept
  <2>4. /\ runner'[o].pc \in ForwardPc => row'[o].status = "running"
        /\ runner'[o].pc = "probe" => runner'[o].at \in Shape[req'[o]].probed
        /\ runner'[o].pc # "await" /\ runner'[o].pc # "ran"
    BY <1>1, <2>1, <2>3 DEF SegKin, ForwardPc
  <2> QED
    BY <2>2, <2>4 DEF Kin
<1>2. CASE o # p
  <2>1. row'[o] = row[o] /\ runner'[o] = runner[o]
    BY <1>2 DEF Settle, EngineInv, TypeOK, StoreTypeOK, RunnerTypeOK
  <2> QED
    BY <2>1, KinStays
<1> QED
  BY <1>1, <1>2

(* So does a runner that moves on, if its children allow it. *)
LEMMA GotoKin ==
  ASSUME EngineInv, SagaInv, FamilyInv, [Next]_vars, NEW o \in Op, Exists(o),
         NEW p \in Op, NEW pc, Goto(p, pc), UNCHANGED row, pc # "probe",
         pc \in ForwardPc => runner[p].pc \in ForwardPc,
         pc = "await" => Spawned(p, runner[p].at),
         pc = "ran" => StepSettled(p, runner[p].at)
  PROVE  Kin(o, row[o], runner[o])'
<1>1. CASE o = p
  <2>1. runner[o] \in Runner /\ runner' = [runner EXCEPT ![o].pc = pc]
    BY <1>1 DEF Goto, EngineInv, TypeOK, RunnerTypeOK
  <2>2. runner'[o] = [runner[o] EXCEPT !.pc = pc]
    BY <2>1 DEF EngineInv, TypeOK, RunnerTypeOK
  <2>3. runner'[o].pc = pc /\ runner'[o].at = runner[o].at
    BY <2>1, <2>2 DEF Runner
  <2>4. PICK k \in Nat : k = runner[o].at
    BY <2>1 DEF Runner
  <2>5. /\ pc = "await" => Spawned(o, k)'
        /\ pc = "ran" => StepSettled(o, k)'
    BY <1>1, <2>4, SettledStays
  <2>6. SpawnsOf(o, runner[o].at)' = SpawnsOf(o, k)'
    BY <2>3, <2>4 DEF SpawnsOf
  <2>7. /\ pc = "await" => Spawned(o, runner[o].at)'
        /\ pc = "ran" => StepSettled(o, runner[o].at)'
    BY <2>5, <2>6 DEF Spawned, StepSettled
  <2>8. \A i \in row[o].fwd : StepSettled(o, i)'
    BY SettledStays DEF FamilyInv, Kin
  <2>9. pc \in ForwardPc => row[o].status = "running"
    BY <1>1 DEF FamilyInv, Kin
  <2> QED
    BY <2>3, <2>7, <2>8, <2>9 DEF Kin
<1>2. CASE o # p
  <2>1. runner'[o] = runner[o]
    BY <1>2 DEF Goto, EngineInv, TypeOK, RunnerTypeOK
  <2> QED
    BY <2>1, KinStays
<1> QED
  BY <1>1, <1>2

LEMMA RunnerStepKin ==
  ASSUME EngineInv, SagaInv, FamilyInv, Families, [Next]_vars, NEW o \in Op, Exists(o),
         NEW p \in Op, RunnerStep(p)
  PROVE  Kin(o, row[o], runner[o])'
<1> DEFINE r == row[p]
           x == runner[p]
           i == runner[p].at
           done == [r EXCEPT !.fwd = @ \cup {i}]
           undone == [r EXCEPT !.undone = @ \cup {i}]
<1>1. ~At(p, "idle")
  BY DEF RunnerStep, At, Adopt, ProbeFallsThrough, ProbeRejects, RunTakesEffect, RunThrows,
     RunReturns, SpawnChild, AwaitChildren, PassCancelOn, AwaitThrows, ChildrenSettled,
     UndoNotNeeded, UndoProbeFallsThrough, UndoTakesEffect, UndoReturns, UndoThrows
<1>2. /\ Exists(p) /\ r \in LiveRow /\ req[p] \in Request /\ x \in Runner /\ i \in Nat
      /\ Kin(p, r, x)
  <2>1. Exists(p)
    BY <1>1, LiveRunner
  <2>2. r \in LiveRow /\ req[p] \in Request
    BY <2>1, OutcomeSegments DEF EngineInv
  <2>3. x \in Runner
    BY DEF EngineInv, TypeOK, RunnerTypeOK
  <2> QED
    BY <2>1, <2>2, <2>3 DEF Runner, FamilyInv
<1>3. ASSUME x.pc \in ForwardPc, StepSettled(p, i), Settle(p, holders, RecordStep(p, i))
      PROVE  Kin(o, row[o], runner[o])'
  <2>1. done \in LiveRow
    BY <1>2, RowUpdates
  <2>2. done.fwd = r.fwd \cup {i} /\ done.status = "running"
    BY <1>2, <1>3 DEF LiveRow, Row, Kin
  <2>3. SegKin(p, done.fwd, ForwardFrom(p, done, i))
    BY <2>1, <2>2, <1>2, ForwardFromKin
  <2>4. SegKin(p, r.fwd \cup {i}, RecordStep(p, i))
    BY <2>2, <2>3 DEF RecordStep
  <2>5. \A j \in r.fwd \cup {i} : StepSettled(p, j)
    BY <1>2, <1>3 DEF Kin
  <2> QED
    BY <2>4, <2>5, <1>3, SettleKin
<1>4. ASSUME NEW out, Settle(p, holders, out), SegKin(p, r.fwd, out)
      PROVE  Kin(o, row[o], runner[o])'
  <2>1. \A j \in r.fwd : StepSettled(p, j)
    BY <1>2 DEF Kin
  <2> QED
    BY <2>1, <1>4, SettleKin
<1>5. SegKin(p, r.fwd, RecordUndo(p, i))
  <2>1. undone \in LiveRow
    <3>1. {i} \in SUBSET Nat
      BY <1>2
    <3> QED
      BY <3>1, <1>2, RowUpdates
  <2>2. undone.fwd = r.fwd
    BY <1>2 DEF LiveRow, Row
  <2>3. SegKin(p, undone.fwd, UndoBelow(p, undone, i, x))
    BY <2>1, <1>2, UndoBelowKin
  <2> QED
    BY <2>2, <2>3 DEF RecordUndo
<1>6. SegKin(p, r.fwd, UndoBelow(p, r, i, [x EXCEPT !.failed = TRUE]))
  <2>1. [x EXCEPT !.failed = TRUE] \in Runner
    BY <1>2 DEF Runner
  <2> QED
    BY <2>1, <1>2, UndoBelowKin
<1>7. SegKin(p, r.fwd, FailForward(p, r))
  BY <1>2, FailForwardKin
<1>8. CASE Adopt(p)
  <2>1. i \in Shape[req[p]].probed
    BY <1>8, <1>2 DEF Adopt, At, Kin
  <2>2. SpawnsOf(p, i) = {}
    BY <2>1, <1>2 DEF Families, SpawnsOf
  <2>3. StepSettled(p, i)
    BY <2>2 DEF StepSettled
  <2> QED
    BY <1>8, <1>3, <2>3 DEF Adopt, At, ForwardPc
<1>9. CASE RunReturns(p)
  BY <1>9, <1>2, <1>3 DEF RunReturns, At, ForwardPc, Kin
<1>10. CASE ProbeRejects(p) \/ RunThrows(p) \/ AwaitThrows(p)
  BY <1>10, <1>4, <1>7 DEF ProbeRejects, RunThrows, AwaitThrows
<1>11. CASE UndoNotNeeded(p) \/ UndoReturns(p)
  BY <1>11, <1>4, <1>5 DEF UndoNotNeeded, UndoReturns
<1>12. CASE UndoThrows(p)
  BY <1>12, <1>4, <1>6 DEF UndoThrows
<1>13. CASE ProbeFallsThrough(p)
  BY <1>13, GotoKin DEF ProbeFallsThrough, At, storeVars, ForwardPc
<1>14. CASE RunTakesEffect(p)
  <2>1. StepSettled(p, i)
    BY <1>14 DEF RunTakesEffect, StepSettled
  <2> QED
    BY <1>14, <2>1, GotoKin DEF RunTakesEffect, At, storeVars, ForwardPc
<1>15. CASE AwaitChildren(p)
  <2>1. Spawned(p, i)
    BY <1>15 DEF AwaitChildren, Unspawned, Children, Spawned
  <2> QED
    BY <1>15, <2>1, GotoKin DEF AwaitChildren, At, storeVars, ForwardPc
<1>16. CASE ChildrenSettled(p)
  <2>1. Spawned(p, i)
    BY <1>16, <1>2 DEF ChildrenSettled, At, Kin
  <2>2. ASSUME NEW c \in Children(p, i)
        PROVE  row[c].status \in Over
    BY <1>16, <2>2 DEF ChildrenSettled, Outstanding, ChildFailed, Terminal, Over
  <2>3. StepSettled(p, i)
    BY <2>1, <2>2 DEF Spawned, StepSettled, Children
  <2> QED
    BY <1>16, <2>3, GotoKin DEF ChildrenSettled, At, storeVars, ForwardPc
<1>17. CASE UndoProbeFallsThrough(p) \/ UndoTakesEffect(p)
  BY <1>17, GotoKin DEF UndoProbeFallsThrough, UndoTakesEffect, storeVars, ForwardPc
<1>18. CASE SpawnChild(p)
  <2>1. row'[o] = row[o] /\ UNCHANGED runner
    BY <1>18 DEF SpawnChild, Insert
  <2> QED
    BY <2>1, KinStays
<1>19. CASE PassCancelOn(p)
  <2>1. row[o] \in LiveRow
    BY DEF EngineInv, TypeOK, StoreTypeOK, Exists, LiveRow
  <2>2. row'[o] = row[o] \/ row'[o] = Cancelled(row[o])
    BY <1>19 DEF PassCancelOn
  <2>3. /\ Cancelled(row[o]).fwd = row[o].fwd
        /\ row[o].status = "running" => Cancelled(row[o]).status = "running"
    BY <2>1 DEF Cancelled, LiveRow, Row
  <2>4. runner' = runner /\ (runner[o].pc \in ForwardPc => row[o].status = "running")
    BY <1>19 DEF PassCancelOn, FamilyInv, Kin
  <2> QED
    BY <2>2, <2>3, <2>4, KinStays
<1> QED
  BY <1>8, <1>9, <1>10, <1>11, <1>12, <1>13, <1>14, <1>15, <1>16, <1>17, <1>18, <1>19
     DEF RunnerStep

LEMMA OpStepKin ==
  ASSUME EngineInv, SagaInv, FamilyInv, Families, [Next]_vars, NEW o \in Op, Exists(o),
         NEW p \in Op, OpStep(p)
  PROVE  Kin(o, row[o], runner[o])'
<1>1. row[o] \in LiveRow /\ Kin(o, row[o], runner[o])
  BY DEF EngineInv, TypeOK, StoreTypeOK, Exists, LiveRow, FamilyInv
<1>2. ASSUME TryStart(p), Exists(p)
      PROVE  Kin(o, row[o], runner[o])'
  <2>1. /\ row[p] \in LiveRow /\ req[p] \in Request
        /\ \A i \in row[p].fwd : StepSettled(p, i)
    BY <1>2, OutcomeSegments DEF EngineInv, FamilyInv, Kin
  <2>2. CASE Start(p)
    BY <2>1, <2>2, BeginKin, SettleKin DEF Start
  <2>3. CASE FailUnknown(p)
    <3>1. o = p => runner[o].pc = "idle"
      BY <1>2 DEF TryStart, Startable, EngineInv, RunnersMatch
    <3>2. row'[o].fwd = row[o].fwd /\ (o # p => row'[o] = row[o]) /\ UNCHANGED runner
      BY <1>1, <2>3 DEF FailUnknown, MarkFinished, EngineInv, TypeOK, StoreTypeOK, LiveRow, Row
    <3> QED
      BY <3>1, <3>2, KinStays DEF ForwardPc
  <2> QED
    BY <1>2, <2>2, <2>3 DEF TryStart
<1>3. ASSUME NEW s, row' = [row EXCEPT ![p] = s], UNCHANGED runner,
             o = p => s.fwd = row[o].fwd /\ (runner[o].pc = "idle" \/ s.status = row[o].status
                                              \/ row[o].status # "running")
      PROVE  Kin(o, row[o], runner[o])'
  <2>1. row'[o] = IF o = p THEN s ELSE row[o]
    BY <1>3 DEF EngineInv, TypeOK, StoreTypeOK
  <2>2. row'[o].fwd = row[o].fwd
    BY <1>3, <2>1
  <2>3. runner'[o].pc \in ForwardPc => row'[o].status = row[o].status
    BY <1>1, <1>3, <2>1 DEF Kin, ForwardPc
  <2> QED
    BY <1>3, <2>2, <2>3, KinStays
<1>4. ~Held(p) => runner[p].pc = "idle"
  BY LiveIsHeld DEF EngineInv, RunnersMatch
<1>5. CASE TickPending(p) \/ TickCompensating(p) \/ SweepRequeue(p)
  BY <1>5, <1>2 DEF TickPending, TickCompensating, SweepRequeue, OldestPending, Pending, Exists
<1>6. CASE SweepExhausted(p)
  <2>1. /\ row' = [row EXCEPT ![p] = MarkFinished(row[p], "compensation_failed")]
        /\ row[p].status # "running" /\ UNCHANGED runner
    BY <1>6 DEF SweepExhausted
  <2>2. o = p => MarkFinished(row[p], "compensation_failed").fwd = row[o].fwd
    BY <1>1 DEF MarkFinished, LiveRow, Row
  <2> QED
    BY <2>1, <2>2, <1>3
<1>7. CASE SweepZombie(p)
  <2> DEFINE s == [row[p] EXCEPT !.status = "pending"]
  <2>1. row' = [row EXCEPT ![p] = s] /\ UNCHANGED runner /\ ~Held(p)
    BY <1>7 DEF SweepZombie
  <2>2. o = p => s.fwd = row[o].fwd
    BY <1>1 DEF LiveRow, Row
  <2> QED
    BY <2>1, <2>2, <1>3, <1>4
<1>8. CASE CancelOperation(p)
  <2>1. row' = [row EXCEPT ![p] = Cancelled(row[p])] /\ UNCHANGED runner
    BY <1>8 DEF CancelOperation
  <2>2. o = p => /\ Cancelled(row[p]).fwd = row[o].fwd
                 /\ row[o].status = "running" => Cancelled(row[p]).status = "running"
    BY <1>1 DEF Cancelled, LiveRow, Row
  <2> QED
    BY <2>1, <2>2, <1>3
<1>9. CASE RetrySame(p)
  <2>1. row' = [row EXCEPT ![p] = Requeued(row[p])] /\ UNCHANGED runner /\ ~Held(p)
    BY <1>9 DEF RetrySame
  <2>2. o = p => Requeued(row[p]).fwd = row[o].fwd
    BY <1>1 DEF Requeued, LiveRow, Row
  <2> QED
    BY <2>1, <2>2, <1>3, <1>4
<1>10. CASE RetryAsNew(p)
  <2>1. row'[o] = row[o] /\ UNCHANGED runner
    BY <1>10 DEF RetryAsNew, Submit, Insert
  <2> QED
    BY <2>1, KinStays
<1>11. CASE FinalizeChecks(p) \/ FinalizeWrites(p) \/ FinalizeRefused(p)
  BY <1>11 DEF FinalizeChecks, FinalizeWrites, FinalizeRefused, Families, SagaInv
<1>12. CASE RunnerFails(p)
  <2>1. Exists(p)
    BY <1>12 DEF RunnerFails, EngineInv, RunnersMatch
  <2>2. row[p] \in LiveRow /\ \A i \in row[p].fwd : StepSettled(p, i)
    BY <2>1, OutcomeSegments DEF EngineInv, FamilyInv, Kin
  <2> QED
    BY <1>12, <2>2, ExitKin, SettleKin DEF RunnerFails
<1>13. CASE Run(p)
  BY <1>13, RunnerStepKin DEF Run
<1> QED
  BY <1>5, <1>6, <1>7, <1>8, <1>9, <1>10, <1>11, <1>12, <1>13 DEF OpStep

LEMMA NextKin ==
  ASSUME EngineInv, SagaInv, FamilyInv, Families, [Next]_vars, NEW o \in Op, Exists(o)
  PROVE  Kin(o, row[o], runner[o])'
<1>1. CASE \E p \in Op : OpStep(p)
  BY <1>1, OpStepKin
<1>2. CASE \E r \in Submittable : Submit(r)
  <2>1. row'[o] = row[o] /\ UNCHANGED runner
    BY <1>2 DEF Submit, Insert
  <2> QED
    BY <2>1, KinStays
<1>3. CASE \E k \in NonOpKeys : NonOpEnter(k) \/ NonOpLeave(k)
  BY <1>3, KinStays DEF NonOpEnter, NonOpLeave, storeVars
<1>4. CASE CrashAndResume
  <2>1. row[o] \in Row
    BY DEF EngineInv, TypeOK, StoreTypeOK
  <2>2. row'[o].fwd = row[o].fwd /\ runner'[o].pc = "idle"
    BY <1>4, <2>1 DEF CrashAndResume, Row, Idle
  <2> QED
    BY <2>2, KinStays DEF ForwardPc
<1>5. CASE UNCHANGED vars
  BY <1>5, KinStays DEF vars
<1> QED
  BY <1>1, <1>2, <1>3, <1>4, <1>5 DEF Next

(* The step of a parent that enqueues a child is one of its steps. *)
LEMMA FamilyKeeps ==
  Families /\ EngineInv /\ SagaInv /\ FamilyInv /\ [Next]_vars => FamilyInv'
<1> SUFFICES ASSUME Families, EngineInv, SagaInv, FamilyInv, [Next]_vars
             PROVE  FamilyInv'
  OBVIOUS
<1>1. EngineInv'
  BY NextKeeps
<1>2. ASSUME NEW c \in Op, Exists(c)
      PROVE  Kin(c, row[c], runner[c])' /\ HasStep(c)'
  <2>1. Kin(c, row[c], runner[c])'
    BY <1>2, NextKin
  <2>2. /\ req'[c] = req[c] /\ parent'[c] = parent[c]
        /\ HasStep(c)
    BY <1>2, EnvelopeKept DEF FamilyInv
  <2>3. CASE parent[c] = NoOp
    <3>1. parent'[c] = NoOp
      BY <2>2, <2>3
    <3> QED
      BY <2>1, <3>1 DEF HasStep
  <2>4. CASE parent[c] # NoOp
    <3>1. PICK q \in Op : q = parent[c]
      BY <2>4 DEF EngineInv, TypeOK, StoreTypeOK
    <3>2. PICK i \in StepsOf(q) : Exists(q) /\ req[c] \in SpawnsOf(q, i)
      BY <2>2, <2>4, <3>1 DEF HasStep
    <3>3. Exists(q)' /\ req'[q] = req[q] /\ parent'[c] = q
      BY <2>2, <3>1, <3>2, EnvelopeKept
    <3>4. HasStep(c)'
      BY <2>2, <3>2, <3>3 DEF HasStep, Exists, StepsOf, SpawnsOf
    <3> QED
      BY <2>1, <3>4
  <2> QED
    BY <2>1, <2>3, <2>4
<1>3. ASSUME NEW r, NEW q, Insert(r, q), UNCHANGED runner, NEW c \in Op, ~Exists(c),
             q # NoOp => /\ q \in Op /\ Exists(q)
                         /\ \E i \in StepsOf(q) : r \in SpawnsOf(q, i)
      PROVE  (Exists(c)' => Kin(c, row[c], runner[c])') /\ HasStep(c)'
  <2>1. PICK n \in Op : /\ ~Exists(n)
                        /\ req' = [req EXCEPT ![n] = r]
                        /\ parent' = [parent EXCEPT ![n] = q]
                        /\ row' = [row EXCEPT ![n] = FreshRow]
    BY <1>3 DEF Insert
  <2>2. CASE c = n
    <3>1. row'[c] = FreshRow /\ req'[c] = r /\ parent'[c] = q
      BY <2>1, <2>2 DEF EngineInv, TypeOK, StoreTypeOK
    <3>2. FreshRow.fwd = {}
      BY DEF FreshRow, NoRow
    <3>3. runner'[c].pc = "idle"
      BY <1>3 DEF EngineInv, RunnersMatch
    <3>4. Kin(c, row[c], runner[c])'
      BY <3>1, <3>2, <3>3 DEF Kin, ForwardPc
    <3>5. HasStep(c)'
      <4>1. CASE q = NoOp
        BY <3>1, <4>1 DEF HasStep
      <4>2. CASE q # NoOp
        <5>1. Exists(q)' /\ req'[q] = req[q] /\ q \in Op
          BY <1>3, <4>2, EnvelopeKept
        <5>2. PICK i \in StepsOf(q) : r \in SpawnsOf(q, i)
          BY <1>3, <4>2
        <5> QED
          BY <3>1, <5>1, <5>2 DEF HasStep, Exists, StepsOf, SpawnsOf
      <4> QED
        BY <4>1, <4>2
    <3> QED
      BY <3>4, <3>5
  <2>3. CASE c # n
    <3>1. row'[c] = row[c] /\ parent'[c] = parent[c] /\ req'[c] = req[c]
      BY <2>1, <2>3 DEF EngineInv, TypeOK, StoreTypeOK
    <3>2. ~Exists(c)'
      BY <1>3, <3>1 DEF Exists
    <3>3. CASE parent[c] = NoOp
      <4>1. parent'[c] = NoOp
        BY <3>1, <3>3
      <4>2. HasStep(c)'
        BY <4>1 DEF HasStep
      <4> QED
        BY <3>2, <4>2
    <3>4. CASE parent[c] # NoOp
      <4>1. PICK d \in Op : d = parent[c]
        BY <3>4 DEF EngineInv, TypeOK, StoreTypeOK
      <4>2. PICK i \in StepsOf(d) : Exists(d) /\ req[c] \in SpawnsOf(d, i)
        BY <3>4, <4>1 DEF FamilyInv, HasStep
      <4>3. Exists(d)' /\ req'[d] = req[d] /\ parent'[c] = d
        BY <3>1, <4>1, <4>2, EnvelopeKept
      <4>4. HasStep(c)'
        BY <3>1, <4>2, <4>3 DEF HasStep, Exists, StepsOf, SpawnsOf
      <4> QED
        BY <3>2, <4>4
    <3> QED
      BY <3>2, <3>3, <3>4
  <2> QED
    BY <2>2, <2>3
<1>4. ASSUME NEW c \in Op, ~Exists(c)
      PROVE  (Exists(c)' => Kin(c, row[c], runner[c])') /\ HasStep(c)'
  <2>1. CASE UNCHANGED <<req, parent>> /\ \A d \in Op : Exists(d) => Exists(d)'
    <3>1. ~Exists(c)'
      BY <1>1, <1>4, <2>1 DEF EngineInv, TypeOK, StoreTypeOK, Exists
    <3>2. HasStep(c)
      BY DEF FamilyInv
    <3>3. parent[c] \in Op \cup {NoOp}
      BY DEF EngineInv, TypeOK, StoreTypeOK
    <3>4. HasStep(c)'
      BY <3>2, <3>3, <2>1 DEF HasStep, Exists, StepsOf, SpawnsOf
    <3> QED
      BY <3>1, <3>4
  <2>2. CASE \E r : Insert(r, NoOp) /\ UNCHANGED runner
    BY <1>3, <1>4, <2>2
  <2>3. CASE \E o \in Op : SpawnChild(o) /\ Exists(o)
    <3>1. PICK o \in Op : SpawnChild(o) /\ Exists(o)
      BY <2>3
    <3>2. PICK r \in Unspawned(o) : Insert(r, o)
      BY <3>1 DEF SpawnChild
    <3>3. r \in SpawnsOf(o, runner[o].at)
      BY <3>2 DEF Unspawned
    <3>4. runner[o].at \in StepsOf(o)
      BY <3>1 DEF SpawnChild, At, SagaInv, Saga, ForwardPc
    <3>5. UNCHANGED runner
      BY <3>1 DEF SpawnChild
    <3> QED
      BY <3>1, <3>2, <3>3, <3>4, <3>5, <1>3, <1>4
  <2> QED
    BY <2>1, <2>2, <2>3, EnvelopesStay
<1> QED
  BY <1>2, <1>4 DEF FamilyInv

(* A parent that is done leaves no child behind, and none that failed.     *)
THEOREM DoneParentsLeaveNobody ==
  ASSUME Families
  PROVE  Spec => []ParentDoneMeansChildrenOver
<1>1. "finalize" \notin OperatorActs
  BY DEF Families
<1>2. Init => FamilyInv /\ ChildrenInv
  BY DEF Init, StoreInit, FamilyInv, HasStep, Exists, NoRow, ChildrenInv, ChildrenAreUnique
<1>3. EngineInv /\ SagaInv /\ FamilyInv /\ [Next]_vars => FamilyInv'
  BY FamilyKeeps
<1>4. ASSUME SagaInv, FamilyInv, ChildrenInv
      PROVE  ParentDoneMeansChildrenOver
  <2>1. ASSUME NEW p \in Op, row[p].status = "done", NEW c \in Op, parent[c] = p, Exists(c)
        PROVE  row[c].status \in {"done", "cancelled"}
    <3>1. p # NoOp
      BY DEF Op, NoOp
    <3>2. PICK i \in StepsOf(p) : req[c] \in SpawnsOf(p, i)
      BY <1>4, <2>1, <3>1 DEF FamilyInv, HasStep
    <3>3. Exists(p) /\ i \in row[p].fwd
      BY <1>4, <2>1, <3>2 DEF SagaInv, Saga, Exists
    <3>4. StepSettled(p, i)
      BY <1>4, <3>3 DEF FamilyInv, Kin
    <3>5. PICK d \in Op : row[d].status \in Over /\ parent[d] = p /\ req[d] = req[c]
      BY <3>2, <3>4 DEF StepSettled
    <3>6. c = d
      BY <1>4, <2>1, <3>1, <3>5 DEF ChildrenInv, ChildrenAreUnique
    <3> QED
      BY <3>5, <3>6 DEF Over
  <2> QED
    BY <2>1 DEF ParentDoneMeansChildrenOver
<1>5. Spec => []SagaInv
  BY <1>1, SagaHolds
<1> QED
  BY <1>2, <1>3, <1>4, <1>5, ChildrenStay, InvariantHolds, PTL DEF Spec

-----------------------------------------------------------------------------
(* The fence of a child. *)

LEMMA ParentIsAncestor ==
  ASSUME NEW c \in Op, parent[c] \in Op
  PROVE  parent[c] \in Ancestors(c)
  BY DEF Ancestors, NoOp, Op

LEMMA FencedStaysDown ==
  ASSUME EngineInv, [Next]_vars, NEW c \in Op, Exists(c), Shape[req[c]].destroys,
         parent[c] \in Op, Superseded(parent[c]), runner[c].pc = "idle"
  PROVE  runner'[c].pc = "idle"
<1> SUFFICES ASSUME runner'[c].pc # "idle"
             PROVE  FALSE
  OBVIOUS
<1>1. EngineInv'
  BY NextKeeps
<1>2. c \in inFlight' /\ c \notin inFlight
  BY <1>1 DEF EngineInv, RunnersMatch
<1>3. Start(c)
  BY <1>2, EntersByStart
<1>4. AncestorSuperseded(c) /\ parent[c] # NoOp
  BY ParentIsAncestor DEF AncestorSuperseded, NoOp, Op
<1>5. Begin(c, row[c]) = Exit(MarkFinished(row[c], "cancelled"))
  BY <1>4 DEF Begin
<1>6. Settle(c, Acquired(KeysOf(c), c), Begin(c, row[c]))
  BY <1>3 DEF Start
<1>7. c \notin inFlight'
  BY <1>5, <1>6 DEF Settle, Exit, Idle
<1> QED
  BY <1>2, <1>7

(* Once the parent's resources have a newer owner, its destroying child is *)
(* never started: not by tick, not by the sweep, not after a restart.      *)
THEOREM FencedChildNeverStarts == Spec => FencedChildStaysDown
<1> DEFINE Down == \A c \in Op :
                     /\ Exists(c)
                     /\ Shape[req[c]].destroys
                     /\ parent[c] \in Op
                     /\ Superseded(parent[c])
                     /\ runner[c].pc = "idle"
                     => runner'[c].pc = "idle"
<1>1. EngineInv /\ [Next]_vars => [Down]_vars
  BY FencedStaysDown
<1>2. Spec => [][Down]_vars
  <2> HIDE DEF Down
  <2> QED
    BY <1>1, InvariantHolds, PTL DEF Spec
<1> QED
  BY <1>2 DEF FencedChildStaysDown

=============================================================================
