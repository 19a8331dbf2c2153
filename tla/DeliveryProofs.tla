---------------------------- MODULE DeliveryProofs ----------------------------
(***************************************************************************)
(* However many deliveries, commits and targets there are, and wherever    *)
(* the server and the engine die: a commit that is pushed has one          *)
(* operation, a superseded one rolls nothing further out, and no app goes  *)
(* back to an earlier push.                                                *)
(*                                                                         *)
(* The handler finds the operation of a commit by its idempotency key, and *)
(* the key by the row's delivery.  So a row that is in use must name its   *)
(* delivery from its first step to its last (RowOk), and no step of the    *)
(* runner, of an operator or of a crash may give a row another delivery    *)
(* (Follows): only a fresh row gets one, where no row had the key.         *)
(*                                                                         *)
(* What was deployed stays served because the source's last push is as new *)
(* as all that was deployed, and only its operation may queue a child      *)
(* (PushInv, from AheadInv on).  It is that new because the last row of    *)
(* the table is never compacted away (Covers), so that a push which is not *)
(* late is as new as every one that ever had an operation.  Most steps     *)
(* only move rows forward; Ordinary says how, and each part of the         *)
(* invariant is kept by any ordinary step.                                 *)
(***************************************************************************)
EXTENDS BuildDeliveryProperties, FiniteSetTheorems, TLAPS

Known(r) ==
  /\ r \in OpRow /\ r.status \notin {"none", "done"} /\ r.delivery \in Delivery
  /\ r.done # 4

(* The step a live runner is in is the one after those that are recorded.  *)
InStep(r) ==
  /\ r.pc \in {"prepare", "prepared"} => r.done = 0
  /\ r.pc \in {"build", "building"} => r.done = 1
  /\ r.pc \in {"reconcile", "await"} => r.done = 2
  /\ r.pc \in {"finish", "finished"} => r.done = 3

RowOk(r) ==
  /\ r \in OpRow
  /\ r.status # "none" => r.delivery \in Delivery
  /\ r.pc # "idle" => r.status # "none"
  /\ r.done = 4 => r.status = "done"
  /\ r.status = "done" => r.pc = "idle"
  /\ InStep(r)

HandlingOk ==
  handling # None =>
    handling \in [delivery: Delivery, pc: HandlerPc, late: BOOLEAN,
                  op: Op \cup {0}, older: SUBSET Delivery]

RowsInv ==
  /\ DOMAIN op = Op
  /\ op = [o \in Op |-> op[o]]
  /\ \A o \in Op : RowOk(op[o])
  /\ HandlingOk

DeliveryInv == RowsInv /\ OneOperationPerCommit

(* Row q is row r after a step that leaves it its delivery. *)
Follows(r, q) ==
  /\ q.delivery = r.delivery /\ q.retry = r.retry
  /\ q.status # "none" => r.status # "none"

Sound(r, q) == RowOk(q) /\ Follows(r, q)

-----------------------------------------------------------------------------
(* What the runner makes of a row. *)

LEMMA FinishedIsSound ==
  ASSUME NEW r, Known(r), NEW s \in OpOver
  PROVE  Sound(r, Finished(r, s))
BY DEF Known, OpOver, OpStatus, OpPc, OpRow, Sound, RowOk, InStep, Follows, Finished

LEMMA CompensationIsSound ==
  ASSUME NEW r, Known(r), NEW o \in Op
  PROVE  Sound(r, Compensation(o, r))
<1>1. CASE r.done = 0 \/ HasSuccessor(o)
  <2>1. (IF r.cancelled THEN "cancelled" ELSE "compensated") \in OpOver
    BY DEF OpOver
  <2> QED
    BY <1>1, <2>1, FinishedIsSound DEF Compensation
<1>2. CASE ~(r.done = 0 \/ HasSuccessor(o))
  <2>1. Compensation(o, r) = [r EXCEPT !.pc = "undo"]
    BY <1>2 DEF Compensation
  <2> QED
    BY <2>1 DEF Known, OpOver, OpStatus, OpPc, OpRow, Sound, RowOk, InStep, Follows
<1> QED
  BY <1>1, <1>2

LEMMA FailedIsSound ==
  ASSUME NEW r, Known(r), NEW o \in Op
  PROVE  Sound(r, Failed(o, r))
<1> DEFINE q == [r EXCEPT !.status = "compensating", !.cancelled = r.cancel, !.cancel = FALSE]
<1>1. Known(q) /\ Follows(r, q) /\ r.status # "none"
  BY DEF Known, OpOver, OpStatus, OpRow, Follows
<1>2. Sound(q, Compensation(o, q))
  BY <1>1, CompensationIsSound
<1>3. Failed(o, r) = Compensation(o, q)
  BY DEF Failed
<1> QED
  BY <1>1, <1>2, <1>3 DEF Sound, Follows

LEMMA ForwardIsSound ==
  ASSUME NEW r, Known(r), NEW o \in Op, NEW n \in 0 .. 4
  PROVE  Sound(r, Forward(o, r, n))
<1>1. CASE n = 4
  <2> DEFINE p == [r EXCEPT !.done = 4]
             q == Finished(p, "done")
  <2>1. Forward(o, r, n) = q
    BY <1>1 DEF Forward
  <2>2. p \in OpRow /\ p.delivery = r.delivery /\ p.retry = r.retry
    BY DEF Known, OpRow
  <2>3. /\ q \in OpRow /\ q.delivery = p.delivery /\ q.retry = p.retry
        /\ q.status = "done" /\ q.pc = "idle"
    <3> HIDE DEF p
    <3> QED
      BY <2>2 DEF Finished, OpRow, OpStatus, OpOver, OpPc
  <2>4. RowOk(q)
    <3> HIDE DEF q
    <3> QED
      BY <2>2, <2>3 DEF Known, RowOk, InStep
  <2> QED
    BY <2>1, <2>2, <2>3, <2>4 DEF Known, Sound, Follows
<1>2. CASE n # 4 /\ r.cancel
  <2> DEFINE q == [r EXCEPT !.done = n]
  <2>1. Known(q) /\ Follows(r, q)
    BY <1>2 DEF Known, OpRow, Follows
  <2>2. Sound(q, Failed(o, q))
    BY <2>1, FailedIsSound
  <2>3. Forward(o, r, n) = Failed(o, q)
    BY <1>2 DEF Forward
  <2> QED
    BY <2>1, <2>2, <2>3 DEF Sound, Follows
<1>3. CASE n # 4 /\ ~r.cancel
  <2>1. Forward(o, r, n)
          = [r EXCEPT !.done = n, !.pc = <<"prepare", "build", "reconcile", "finish">>[n + 1]]
    BY <1>3 DEF Forward
  <2>2. n = 0 \/ n = 1 \/ n = 2 \/ n = 3
    BY <1>3
  <2> DEFINE q(pc) == [r EXCEPT !.done = n, !.pc = pc]
  <2> DEFINE steps == <<"prepare", "build", "reconcile", "finish">>
  <2>3. /\ steps[0 + 1] = "prepare" /\ steps[1 + 1] = "build"
        /\ steps[2 + 1] = "reconcile" /\ steps[3 + 1] = "finish"
    OBVIOUS
  <2>4. /\ n = 0 => Forward(o, r, n) = q("prepare")
        /\ n = 1 => Forward(o, r, n) = q("build")
        /\ n = 2 => Forward(o, r, n) = q("reconcile")
        /\ n = 3 => Forward(o, r, n) = q("finish")
    BY <2>1, <2>3
  <2>5. ASSUME NEW pc \in OpPc
        PROVE  /\ q(pc) \in OpRow /\ q(pc).delivery = r.delivery /\ q(pc).retry = r.retry
               /\ q(pc).status = r.status /\ q(pc).pc = pc /\ q(pc).done = n
    BY DEF Known, OpPc, OpRow
  <2>6. {"prepare", "build", "reconcile", "finish"} \subseteq OpPc
    BY DEF OpPc
  <2>7. /\ n = 0 => RowOk(q("prepare"))
        /\ n = 1 => RowOk(q("build"))
        /\ n = 2 => RowOk(q("reconcile"))
        /\ n = 3 => RowOk(q("finish"))
    <3> HIDE DEF q
    <3> QED
      BY <2>5, <2>6 DEF Known, RowOk, InStep
  <2>8. /\ n = 0 => Sound(r, q("prepare"))
        /\ n = 1 => Sound(r, q("build"))
        /\ n = 2 => Sound(r, q("reconcile"))
        /\ n = 3 => Sound(r, q("finish"))
    <3> HIDE DEF q
    <3> QED
      BY <2>5, <2>6, <2>7 DEF Known, Sound, Follows
  <2> QED
    BY <2>2, <2>4, <2>8
<1> QED
  BY <1>1, <1>2, <1>3

LEMMA CancelIsSound ==
  ASSUME NEW r, RowOk(r) PROVE Sound(r, CancelAsked(r))
BY DEF CancelAsked, RowOk, InStep, OpOver, OpStatus, OpRow, Sound, Follows

LEMMA UnchangedIsSound ==
  ASSUME NEW r, RowOk(r) PROVE Sound(r, r)
BY DEF Sound, Follows

LEMMA LiveIsKnown ==
  ASSUME NEW r, RowOk(r), r.status \in {"pending", "running", "compensating"} \/ r.pc # "idle"
  PROVE  Known(r)
BY DEF RowOk, Known
-----------------------------------------------------------------------------
(* What a step makes of the table. *)

LEMMA SoundTable ==
  ASSUME DeliveryInv, HandlingOk', op' = [o \in Op |-> op'[o]],
         \A o \in Op : Sound(op[o], op'[o])
  PROVE  DeliveryInv'
<1>1. RowsInv'
  <2>1. DOMAIN op' = Op
    OBVIOUS
  <2>2. \A o \in Op : RowOk(op'[o])
    BY DEF Sound
  <2> QED
    BY <2>1, <2>2 DEF RowsInv, RowOk, InStep
<1>2. OneOperationPerCommit'
  BY DEF DeliveryInv, OneOperationPerCommit, Sound, Follows
<1> QED
  BY <1>1, <1>2 DEF DeliveryInv

LEMMA SameTable ==
  ASSUME DeliveryInv, HandlingOk', op' = op PROVE DeliveryInv'
<1>1. \A o \in Op : Sound(op[o], op'[o])
  BY UnchangedIsSound DEF DeliveryInv, RowsInv
<1>2. op' = [o \in Op |-> op'[o]]
  BY DEF DeliveryInv, RowsInv
<1> QED
  BY <1>1, <1>2, SoundTable

LEMMA SoundRow ==
  ASSUME DeliveryInv, HandlingOk', NEW o \in Op, NEW q, Sound(op[o], q),
         op' = [op EXCEPT ![o] = q]
  PROVE  DeliveryInv'
<1>1. \A p \in Op : Sound(op[p], op'[p])
  BY UnchangedIsSound DEF DeliveryInv, RowsInv
<1>2. op' = [p \in Op |-> op'[p]]
  BY DEF DeliveryInv, RowsInv
<1> QED
  BY <1>1, <1>2, SoundTable

(* A free row is given a delivery: by hand, or where no row has its key. *)
LEMMA FreshRow ==
  ASSUME DeliveryInv, HandlingOk', NEW o \in Op, NEW d \in Delivery, NEW b \in BOOLEAN,
         op' = [op EXCEPT ![o] = FreshOp(d, b)], b \/ SameKey(d) = {}
  PROVE  DeliveryInv'
<1>1. /\ FreshOp(d, b) \in OpRow
      /\ FreshOp(d, b).status = "pending" /\ FreshOp(d, b).delivery = d
      /\ FreshOp(d, b).retry = b /\ FreshOp(d, b).pc = "idle" /\ FreshOp(d, b).done = 0
  <2>1. NoRow \in OpRow /\ NoRow.pc = "idle" /\ NoRow.done = 0
    BY DEF NoRow, OpRow, OpStatus, OpPc
  <2>2. ASSUME NEW r \in OpRow, r.pc = "idle", r.done = 0
        PROVE  LET q == [r EXCEPT !.delivery = d, !.retry = b, !.status = "pending"]
               IN  /\ q \in OpRow /\ q.status = "pending" /\ q.delivery = d
                   /\ q.retry = b /\ q.pc = "idle" /\ q.done = 0
    BY <2>2 DEF OpRow, OpStatus, OpPc
  <2> QED
    BY <2>1, <2>2 DEF FreshOp
<1>2. RowOk(FreshOp(d, b))
  BY <1>1 DEF RowOk, InStep
<1>3. op'[o] = FreshOp(d, b) /\ \A p \in Op \ {o} : op'[p] = op[p]
  BY DEF DeliveryInv, RowsInv
<1>4. RowsInv'
  <2>1. DOMAIN op' = Op /\ op' = [p \in Op |-> op'[p]]
    BY DEF DeliveryInv, RowsInv
  <2>2. \A p \in Op : RowOk(op'[p])
    BY <1>2, <1>3 DEF DeliveryInv, RowsInv
  <2> QED
    BY <2>1, <2>2 DEF RowsInv, RowOk, InStep
<1>5. ASSUME NEW p \in Op \ {o}, op'[p].status # "none", ~op'[p].retry, ~op'[o].retry,
             Event[op'[p].delivery].commit = Event[op'[o].delivery].commit
      PROVE  FALSE
  <2>1. op[p].status # "none" /\ ~op[p].retry /\ Event[op[p].delivery].commit = Event[d].commit
    BY <1>1, <1>3, <1>5
  <2>2. op[p].delivery # None
    BY <2>1, DeliveriesAssumption DEF DeliveryInv, RowsInv, RowOk
  <2>3. SameKey(d) = {}
    BY <1>1, <1>3, <1>5
  <2> QED
    BY <2>1, <2>2, <2>3 DEF SameKey
<1>6. OneOperationPerCommit'
  <2> SUFFICES ASSUME NEW p \in Op, NEW q \in Op,
                      op'[p].status # "none", op'[q].status # "none",
                      ~op'[p].retry, ~op'[q].retry,
                      Event[op'[p].delivery].commit = Event[op'[q].delivery].commit
               PROVE  p = q
    BY DEF OneOperationPerCommit
  <2>1. CASE p = o
    BY <1>5, <2>1
  <2>2. CASE q = o
    BY <1>5, <2>2
  <2>3. CASE p # o /\ q # o
    BY <1>3, <2>3 DEF DeliveryInv, OneOperationPerCommit
  <2> QED
    BY <2>1, <2>2, <2>3
<1> QED
  BY <1>4, <1>6 DEF DeliveryInv

-----------------------------------------------------------------------------
(* The webhook handler. *)

LEMMA HandlerKeeps ==
  ASSUME DeliveryInv, HandlerStep PROVE DeliveryInv'
<1> USE DEF HandlingOk
<1>1. ASSUME NEW d \in Delivery, Receive(d) PROVE DeliveryInv'
  <2>1. HandlingOk'
    BY <1>1 DEF Receive, HandlerPc, Late
  <2> QED
    BY <1>1, <2>1, SameTable DEF Receive
<1>2. CASE MarkStale \/ AttachThrows \/ MarkDuplicate \/ AnswerAccepted \/ ServerCrash
  <2>1. HandlingOk' /\ op' = op
    BY <1>2 DEF MarkStale, AttachThrows, MarkDuplicate, AnswerAccepted, ServerCrash, Answered
  <2> QED
    BY <2>1, SameTable
<1>3. CASE Enqueue
  <2>1. handling # None /\ handling.delivery \in Delivery
    BY <1>3 DEF Enqueue, At, DeliveryInv, RowsInv
  <2> DEFINE d == handling.delivery
  <2>2. PICK o \in Op :
          /\ handling' = [handling EXCEPT !.pc = "enqueued", !.op = o]
          /\ op' = op \/ (SameKey(d) = {} /\ op' = [op EXCEPT ![o] = FreshOp(d, FALSE)])
    BY <1>3 DEF Enqueue, SameKey
  <2>3. HandlingOk'
    BY <2>1, <2>2 DEF DeliveryInv, RowsInv, HandlerPc
  <2> QED
    BY <2>1, <2>2, <2>3, SameTable, FreshRow
<1>4. CASE Attach
  <2>1. HandlingOk' /\ op' = op
    BY <1>4 DEF Attach, At, DeliveryInv, RowsInv, HandlerPc
  <2> QED
    BY <2>1, SameTable
<1>5. CASE Accept
  <2>1. Older(handling.delivery) \in SUBSET Delivery
    BY DEF Older, ActiveDeliveries, Recorded
  <2>2. HandlingOk' /\ op' = op
    BY <1>5, <2>1 DEF Accept, At, DeliveryInv, RowsInv, HandlerPc
  <2> QED
    BY <2>2, SameTable
<1>6. ASSUME NEW e \in Delivery, Supersede(e) PROVE DeliveryInv'
  <2>1. HandlingOk'
    BY <1>6 DEF Supersede, At, Answered, DeliveryInv, RowsInv, HandlerPc
  <2>2. CASE op' = op
    BY <2>1, <2>2, SameTable
  <2>3. CASE op' # op
    <3> DEFINE o == delivery[e].op
    <3>1. op' = [op EXCEPT ![o] = CancelAsked(op[o])]
      BY <1>6, <2>3 DEF Supersede
    <3>2. CASE o \in Op
      <4>1. Sound(op[o], CancelAsked(op[o]))
        BY <3>2, CancelIsSound DEF DeliveryInv, RowsInv
      <4> QED
        BY <2>1, <3>1, <3>2, <4>1, SoundRow
    <3>3. CASE o \notin Op
      <4>1. op' = op
        BY <3>1, <3>3 DEF DeliveryInv, RowsInv
      <4> QED
        BY <2>3, <4>1
    <3> QED
      BY <3>2, <3>3
  <2> QED
    BY <2>2, <2>3
<1> QED
  BY <1>1, <1>2, <1>3, <1>4, <1>5, <1>6 DEF HandlerStep

-----------------------------------------------------------------------------
(* The engine. *)

LEMMA RunnerIsSound ==
  ASSUME DeliveryInv, NEW o \in Op, RunnerStep(o)
  PROVE  op' = op \/ \E q : Sound(op[o], q) /\ op' = [op EXCEPT ![o] = q]
<1> DEFINE r == op[o]
           Moved == \E q : Sound(r, q) /\ op' = [op EXCEPT ![o] = q]
<1>1. RowOk(r)
  BY DEF DeliveryInv, RowsInv
<1>2. r.pc # "idle" => Known(r)
  BY <1>1, LiveIsKnown
<1>3. CASE StepThrows(o)
  <2>1. r.pc # "idle" /\ op' = [op EXCEPT ![o] = Failed(o, r)]
    BY <1>3 DEF StepThrows
  <2> QED
    BY <1>2, <2>1, FailedIsSound
<1>4. CASE StepReturns(o)
  <2>1. r.pc \in {"prepared", "building", "finished"}
        /\ op' = [op EXCEPT ![o] = Forward(o, r, r.done + 1)]
    BY <1>4 DEF StepReturns
  <2>2. r.done + 1 \in 0 .. 4
    BY <1>1, <2>1 DEF RowOk, InStep
  <2> QED
    BY <1>2, <2>1, <2>2, ForwardIsSound
<1>5. CASE PrepareSource(o)
  <2>1. r.pc = "prepare" /\ op' = [op EXCEPT ![o] = [r EXCEPT !.pc = "prepared"]]
    BY <1>5 DEF PrepareSource, Running
  <2>2. Sound(r, [r EXCEPT !.pc = "prepared"])
    BY <1>1, <2>1 DEF Sound, Follows, RowOk, InStep, OpRow, OpPc
  <2> QED
    BY <2>1, <2>2
<1>6. CASE BuildImages(o)
  <2>1. r.pc = "build" /\ op' = [op EXCEPT ![o] = [r EXCEPT !.pc = "building"]]
    BY <1>6 DEF BuildImages, Running
  <2>2. Sound(r, [r EXCEPT !.pc = "building"])
    BY <1>1, <2>1 DEF Sound, Follows, RowOk, InStep, OpRow, OpPc
  <2> QED
    BY <2>1, <2>2
<1>7. CASE ReconcileManifest(o)
  <2>1. r.pc = "reconcile" /\ op' = [op EXCEPT ![o] = [r EXCEPT !.pc = "await"]]
    BY <1>7 DEF ReconcileManifest, Running
  <2>2. Sound(r, [r EXCEPT !.pc = "await"])
    BY <1>1, <2>1 DEF Sound, Follows, RowOk, InStep, OpRow, OpPc
  <2> QED
    BY <2>1, <2>2
<1>8. CASE PassCancelOn(o) \/ UndoThrows(o)
  <2>1. CASE PassCancelOn(o)
    BY <2>1 DEF PassCancelOn
  <2>2. CASE UndoThrows(o)
    <3>1. r.pc = "undo" /\ op' = [op EXCEPT ![o] = [r EXCEPT !.pc = "idle", !.stuck = TRUE]]
      BY <2>2 DEF UndoThrows, Running, DeliveryInv, RowsInv
    <3>2. Sound(r, [r EXCEPT !.pc = "idle", !.stuck = TRUE])
      BY <1>1, <3>1 DEF Sound, Follows, RowOk, InStep, OpRow, OpPc
    <3> QED
      BY <3>1, <3>2
  <2> QED
    BY <1>8, <2>1, <2>2
<1>9. CASE AwaitThrows(o) \/ FinishRejected(o)
  <2>1. r.pc # "idle" /\ op' = [op EXCEPT ![o] = Failed(o, r)]
    BY <1>9 DEF AwaitThrows, FinishRejected, Running
  <2> QED
    BY <1>2, <2>1, FailedIsSound
<1>10. CASE ChildrenSettled(o)
  <2>1. r.pc = "await"
    BY <1>10 DEF ChildrenSettled, Running
  <2>2. \/ op' = [op EXCEPT ![o] = Forward(o, r, 3)]
        \/ op' = [op EXCEPT ![o] = [r EXCEPT !.pc = "reconcile"]]
    BY <1>10 DEF ChildrenSettled
  <2>3. Sound(r, Forward(o, r, 3))
    BY <1>2, <2>1, ForwardIsSound
  <2>4. Sound(r, [r EXCEPT !.pc = "reconcile"])
    BY <1>1, <2>1 DEF Sound, Follows, RowOk, InStep, OpRow, OpPc
  <2> QED
    BY <2>2, <2>3, <2>4
<1>11. CASE FinishDelivery(o)
  <2>1. r.pc = "finish"
    BY <1>11 DEF FinishDelivery, Running
  <2>2. \/ op' = [op EXCEPT ![o] = [r EXCEPT !.pc = "finished"]]
        \/ op' = [op EXCEPT ![o] = Failed(o, r)]
    BY <1>11 DEF FinishDelivery
  <2>3. Sound(r, [r EXCEPT !.pc = "finished"])
    BY <1>1, <2>1 DEF Sound, Follows, RowOk, InStep, OpRow, OpPc
  <2>4. Sound(r, Failed(o, r))
    BY <1>2, <2>1, FailedIsSound
  <2> QED
    BY <2>2, <2>3, <2>4
<1>12. CASE UndoPrepare(o)
  <2> DEFINE s == IF r.cancelled THEN "cancelled" ELSE "compensated"
  <2>1. r.pc = "undo" /\ op' = [op EXCEPT ![o] = Finished(r, s)]
    BY <1>12 DEF UndoPrepare, Running
  <2>2. s \in OpOver
    BY DEF OpOver
  <2> QED
    BY <1>2, <2>1, <2>2, FinishedIsSound
<1> QED
  BY <1>3, <1>4, <1>5, <1>6, <1>7, <1>8, <1>9, <1>10, <1>11, <1>12 DEF RunnerStep

LEMMA StartIsSound ==
  ASSUME DeliveryInv, NEW o \in Op, Start(o)
  PROVE  \E q : Sound(op[o], q) /\ op' = [op EXCEPT ![o] = q]
<1> DEFINE r == op[o]
<1>1. RowOk(r)
  BY DEF DeliveryInv, RowsInv
<1>2. CASE r.status = "pending" /\ op' = [op EXCEPT ![o] = Forward(o, [r EXCEPT !.status = "running"], r.done)]
  <2> DEFINE q == [r EXCEPT !.status = "running"]
  <2>1. Known(q) /\ Follows(r, q) /\ r.done \in 0 .. 4
    BY <1>1, <1>2 DEF RowOk, Known, Follows, OpRow, OpStatus
  <2>2. Sound(q, Forward(o, q, r.done))
    BY <2>1, ForwardIsSound
  <2>3. Sound(r, Forward(o, q, r.done))
    BY <2>1, <2>2, <1>2 DEF Sound, Follows
  <2> QED
    BY <1>2, <2>3
<1>3. CASE r.status = "compensating" /\ op' = [op EXCEPT ![o] = Compensation(o, [r EXCEPT !.cancelled = FALSE])]
  <2> DEFINE q == [r EXCEPT !.cancelled = FALSE]
  <2>1. Known(q) /\ Follows(r, q)
    BY <1>1, <1>3 DEF RowOk, Known, Follows, OpRow
  <2>2. Sound(q, Compensation(o, q))
    BY <2>1, CompensationIsSound
  <2>3. Sound(r, Compensation(o, q))
    BY <2>1, <2>2 DEF Sound, Follows
  <2> QED
    BY <1>3, <2>3
<1> QED
  BY <1>2, <1>3 DEF Start

LEMMA EngineKeeps ==
  ASSUME DeliveryInv, EngineStep PROVE DeliveryInv'
<1>1. PICK o \in Op : \/ Start(o) \/ RunnerStep(o) \/ SweepExhausted(o)
                      \/ \E t \in Target : ChildStarts(o, t) \/ ChildEnds(o, t)
  BY DEF EngineStep
<1>2. handling' = handling
  BY <1>1 DEF Start, RunnerStep, SweepExhausted, ChildStarts, ChildEnds, StepThrows, StepReturns,
     PrepareSource, BuildImages, ReconcileManifest, PassCancelOn, AwaitThrows, ChildrenSettled,
     FinishDelivery, FinishRejected, UndoPrepare, UndoThrows
<1>3. HandlingOk'
  BY <1>2 DEF DeliveryInv, RowsInv, HandlingOk
<1>4. CASE Start(o)
  BY <1>3, <1>4, StartIsSound, SoundRow
<1>5. CASE RunnerStep(o)
  BY <1>3, <1>5, RunnerIsSound, SoundRow, SameTable
<1>6. CASE SweepExhausted(o)
  <2>1. op[o].status = "compensating"
        /\ op' = [op EXCEPT ![o] = Finished(op[o], "compensation_failed")]
    BY <1>6 DEF SweepExhausted
  <2>2. Known(op[o]) /\ "compensation_failed" \in OpOver
    BY <2>1, LiveIsKnown DEF OpOver, DeliveryInv, RowsInv
  <2>3. Sound(op[o], Finished(op[o], "compensation_failed"))
    BY <2>2, FinishedIsSound
  <2> QED
    BY <1>3, <2>1, <2>3, SoundRow
<1>7. ASSUME NEW t \in Target, ChildStarts(o, t) \/ ChildEnds(o, t) PROVE DeliveryInv'
  <2>1. op' = op
    BY <1>7 DEF ChildStarts, ChildEnds
  <2> QED
    BY <1>3, <2>1, SameTable
<1> QED
  BY <1>1, <1>4, <1>5, <1>6, <1>7

-----------------------------------------------------------------------------
(* The operator, and the end of the engine process. *)

LEMMA OperatorKeeps ==
  ASSUME DeliveryInv, NEW o \in Op, CancelOperation(o) \/ RetryAsNew(o)
  PROVE  DeliveryInv'
<1>1. HandlingOk'
  BY DEF DeliveryInv, RowsInv, HandlingOk, CancelOperation, RetryAsNew
<1>2. RowOk(op[o])
  BY DEF DeliveryInv, RowsInv
<1>3. CASE CancelOperation(o)
  <2>1. op' = [op EXCEPT ![o] = CancelAsked(op[o])]
    BY <1>3 DEF CancelOperation
  <2> QED
    BY <1>1, <1>2, <2>1, CancelIsSound, SoundRow
<1>4. CASE RetryAsNew(o)
  <2>1. PICK p \in Op : op' = [op EXCEPT ![p] = FreshOp(op[o].delivery, TRUE)]
    BY <1>4 DEF RetryAsNew
  <2>2. op[o].delivery \in Delivery
    BY <1>2, <1>4 DEF RetryAsNew, RowOk
  <2> QED
    BY <1>1, <2>1, <2>2, FreshRow
<1> QED
  BY <1>3, <1>4

LEMMA CrashKeeps ==
  ASSUME DeliveryInv, EngineCrash PROVE DeliveryInv'
<1>1. HandlingOk' /\ op' = [o \in Op |-> op'[o]]
  BY DEF DeliveryInv, RowsInv, HandlingOk, EngineCrash
<1>2. ASSUME NEW o \in Op PROVE Sound(op[o], op'[o])
  <2>1. op'[o] = [op[o] EXCEPT !.pc = "idle", !.cancelled = FALSE,
                     !.status = IF @ = "running" THEN "pending" ELSE @]
    BY DEF EngineCrash
  <2>2. RowOk(op[o])
    BY DEF DeliveryInv, RowsInv
  <2> QED
    BY <2>1, <2>2 DEF Sound, Follows, RowOk, InStep, OpRow, OpPc, OpStatus
<1> QED
  BY <1>1, <1>2, SoundTable

-----------------------------------------------------------------------------
(* What a superseded or stale delivery may still do.  A step that writes   *)
(* its row makes it end only after its last step (EndsAfterFinish); the    *)
(* last step, and the one that enqueues children, begin with the assertion *)
(* that the delivery is fresh.                                             *)

Ending(r, q) == q.status = "done" => r.status = "done" \/ r.pc = "finished"
Finishing(r, q) == q.pc = "finished" => r.pc = "finished"
Ends(r, q) == Ending(r, q) /\ Finishing(r, q)

LEMMA FailedEnds ==
  ASSUME NEW r \in OpRow, NEW o \in Op PROVE Ends(r, Failed(o, r))
<1> DEFINE q == [r EXCEPT !.status = "compensating", !.cancelled = r.cancel, !.cancel = FALSE]
<1>1. q \in OpRow /\ q.status = "compensating"
  BY DEF OpRow, OpStatus
<1>2. Compensation(o, q).status # "done" /\ Compensation(o, q).pc \in {"idle", "undo"}
  <2> HIDE DEF q
  <2>1. ASSUME NEW s \in {"cancelled", "compensated"}
        PROVE  Finished(q, s).status # "done" /\ Finished(q, s).pc = "idle"
    BY <1>1 DEF Finished, OpRow
  <2>2. [q EXCEPT !.pc = "undo"].status = "compensating" /\ [q EXCEPT !.pc = "undo"].pc = "undo"
    BY <1>1 DEF OpRow
  <2> QED
    BY <2>1, <2>2 DEF Compensation
<1> QED
  BY <1>2 DEF Failed, Ends, Ending, Finishing

LEMMA CompensationEnds ==
  ASSUME NEW r \in OpRow, r.status = "compensating", NEW o \in Op
  PROVE  Ends(r, Compensation(o, r))
<1>1. ASSUME NEW s \in {"cancelled", "compensated"} PROVE Ends(r, Finished(r, s))
  BY DEF Finished, OpRow, Ends, Ending, Finishing
<1>2. Ends(r, [r EXCEPT !.pc = "undo"])
  BY DEF OpRow, Ends, Ending, Finishing
<1> QED
  BY <1>1, <1>2 DEF Compensation

LEMMA ForwardEnds ==
  ASSUME NEW r \in OpRow, r.status # "done", NEW o \in Op, NEW n \in 0 .. 3
  PROVE  Ends(r, Forward(o, r, n))
<1>1. CASE r.cancel
  <2> DEFINE q == [r EXCEPT !.done = n]
  <2>1. q \in OpRow /\ q.status = r.status /\ q.pc = r.pc
    BY DEF OpRow
  <2>2. Ends(q, Failed(o, q))
    BY <2>1, FailedEnds
  <2>3. Forward(o, r, n) = Failed(o, q)
    BY <1>1 DEF Forward
  <2> QED
    BY <2>1, <2>2, <2>3 DEF Ends, Ending, Finishing
<1>2. CASE ~r.cancel
  <2> DEFINE q(pc) == [r EXCEPT !.done = n, !.pc = pc]
             steps == <<"prepare", "build", "reconcile", "finish">>
  <2>1. \E pc \in {"prepare", "build", "reconcile", "finish"} : Forward(o, r, n) = q(pc)
    <3>1. Forward(o, r, n) = q(steps[n + 1])
      BY <1>2 DEF Forward
    <3>2. steps[n + 1] \in {"prepare", "build", "reconcile", "finish"}
      OBVIOUS
    <3> QED
      BY <3>1, <3>2
  <2>2. ASSUME NEW pc \in {"prepare", "build", "reconcile", "finish"} PROVE Ends(r, q(pc))
    BY DEF OpRow, Ends, Ending, Finishing
  <2> QED
    BY <2>1, <2>2
<1> QED
  BY <1>1, <1>2

(* A row is only written as done after its last step, and only a fresh one *)
(* does that.                                                              *)
Closes(o, q) == Ending(op[o], q) /\ (Finishing(op[o], q) \/ Fresh(o))

LEMMA RunnerCloses ==
  ASSUME DeliveryInv, NEW o \in Op, RunnerStep(o)
  PROVE  op' = op \/ \E q : Closes(o, q) /\ op' = [op EXCEPT ![o] = q]
<1> DEFINE r == op[o]
<1>1. r \in OpRow /\ InStep(r) /\ (r.pc # "idle" => r.status # "done")
  BY DEF DeliveryInv, RowsInv, RowOk
<1>2. CASE StepThrows(o) \/ AwaitThrows(o) \/ FinishRejected(o)
  <2>1. op' = [op EXCEPT ![o] = Failed(o, r)]
    BY <1>2 DEF StepThrows, AwaitThrows, FinishRejected
  <2> QED
    BY <1>1, <2>1, FailedEnds DEF Ends, Closes
<1>3. CASE StepReturns(o)
  <2>1. r.pc \in {"prepared", "building", "finished"}
        /\ op' = [op EXCEPT ![o] = Forward(o, r, r.done + 1)]
    BY <1>3 DEF StepReturns
  <2>2. CASE r.pc = "finished"
    BY <2>1, <2>2 DEF Ending, Finishing, Closes
  <2>3. CASE r.pc # "finished"
    <3>1. r.done + 1 \in 0 .. 3 /\ r.status # "done"
      BY <1>1, <2>1, <2>3 DEF InStep
    <3> QED
      BY <1>1, <2>1, <3>1, ForwardEnds DEF Ends, Closes
  <2> QED
    BY <2>2, <2>3
<1>4. CASE PrepareSource(o) \/ BuildImages(o) \/ ReconcileManifest(o) \/ FinishDelivery(o)
  <2>1. Fresh(o) /\ r.pc # "idle"
    BY <1>4 DEF PrepareSource, BuildImages, ReconcileManifest, FinishDelivery, Running
  <2>2. \/ \E pc \in OpPc : op' = [op EXCEPT ![o] = [r EXCEPT !.pc = pc]]
        \/ op' = [op EXCEPT ![o] = Failed(o, r)]
    BY <1>4 DEF PrepareSource, BuildImages, ReconcileManifest, FinishDelivery, OpPc
  <2>3. ASSUME NEW pc \in OpPc PROVE Ending(r, [r EXCEPT !.pc = pc])
    BY <1>1, <2>1 DEF OpRow, Ending
  <2> QED
    BY <1>1, <2>1, <2>2, <2>3, FailedEnds DEF Ends, Closes
<1>5. CASE PassCancelOn(o)
  BY <1>5 DEF PassCancelOn
<1>6. CASE ChildrenSettled(o)
  <2>1. r.pc = "await" /\ r.status # "done"
    BY <1>1, <1>6 DEF ChildrenSettled, Running
  <2>2. \/ op' = [op EXCEPT ![o] = Forward(o, r, 3)]
        \/ op' = [op EXCEPT ![o] = [r EXCEPT !.pc = "reconcile"]]
    BY <1>6 DEF ChildrenSettled
  <2>3. Ends(r, Forward(o, r, 3))
    BY <1>1, <2>1, ForwardEnds
  <2>4. Ends(r, [r EXCEPT !.pc = "reconcile"])
    BY <1>1, <2>1 DEF OpRow, Ends, Ending, Finishing
  <2> QED
    BY <2>2, <2>3, <2>4 DEF Ends, Closes
<1>7. CASE UndoPrepare(o)
  <2> DEFINE s == IF r.cancelled THEN "cancelled" ELSE "compensated"
  <2>1. op' = [op EXCEPT ![o] = Finished(r, s)] /\ s \in {"cancelled", "compensated"}
    BY <1>7 DEF UndoPrepare
  <2>2. Ends(r, Finished(r, s))
    BY <1>1, <2>1 DEF Finished, OpRow, Ends, Ending, Finishing
  <2> QED
    BY <2>1, <2>2 DEF Ends, Closes
<1>8. CASE UndoThrows(o)
  <2>1. op' = [op EXCEPT ![o] = [r EXCEPT !.pc = "idle", !.stuck = TRUE]] /\ r.pc # "idle"
    BY <1>8 DEF UndoThrows, Running, DeliveryInv, RowsInv
  <2>2. Ends(r, [r EXCEPT !.pc = "idle", !.stuck = TRUE])
    BY <1>1, <2>1 DEF OpRow, Ends, Ending, Finishing
  <2> QED
    BY <2>1, <2>2 DEF Ends, Closes
<1> QED
  BY <1>2, <1>3, <1>4, <1>5, <1>6, <1>7, <1>8 DEF RunnerStep

LEMMA StartCloses ==
  ASSUME DeliveryInv, NEW o \in Op, Start(o)
  PROVE  \E q : Closes(o, q) /\ op' = [op EXCEPT ![o] = q]
<1> DEFINE r == op[o]
<1>1. r \in OpRow /\ RowOk(r)
  BY DEF DeliveryInv, RowsInv, RowOk
<1>2. CASE r.status = "pending" /\ op' = [op EXCEPT ![o] = Forward(o, [r EXCEPT !.status = "running"], r.done)]
  <2> DEFINE q == [r EXCEPT !.status = "running"]
  <2>1. q \in OpRow /\ q.status # "done" /\ q.pc = r.pc /\ r.done \in 0 .. 3
    BY <1>1, <1>2 DEF RowOk, OpRow, OpStatus
  <2>2. Ends(q, Forward(o, q, r.done))
    BY <2>1, ForwardEnds
  <2> QED
    BY <1>2, <2>1, <2>2 DEF Ends, Ending, Finishing, Closes
<1>3. CASE r.status = "compensating" /\ op' = [op EXCEPT ![o] = Compensation(o, [r EXCEPT !.cancelled = FALSE])]
  <2> DEFINE q == [r EXCEPT !.cancelled = FALSE]
  <2>1. q \in OpRow /\ q.status = "compensating" /\ q.pc = r.pc
    BY <1>1, <1>3 DEF OpRow
  <2>2. Ends(q, Compensation(o, q))
    BY <2>1, CompensationEnds
  <2> QED
    BY <1>3, <2>1, <2>2 DEF Ends, Ending, Finishing, Closes
<1> QED
  BY <1>2, <1>3 DEF Start

LEMMA CancelEnds ==
  ASSUME NEW r \in OpRow PROVE Ends(r, CancelAsked(r))
BY DEF CancelAsked, OpRow, Ends, Ending, Finishing

LEMMA FreshOpEnds ==
  ASSUME NEW r, NEW d, NEW b PROVE Ends(r, FreshOp(d, b))
<1>1. FreshOp(d, b).status = "pending" /\ FreshOp(d, b).pc = "idle"
  BY DEF FreshOp, NoRow
<1> QED
  BY <1>1 DEF Ends, Ending, Finishing

LEMMA StepsClose ==
  ASSUME DeliveryInv, [Next]_vars, NEW o \in Op
  PROVE  Closes(o, op'[o])
<1> DEFINE Same(p) == Closes(p, op[p])
<1>0. /\ op = [p \in Op |-> op[p]] /\ \A p \in Op : op[p] \in OpRow /\ RowOk(op[p])
      /\ \A p \in Op : Closes(p, op[p])
  BY DEF DeliveryInv, RowsInv, RowOk, Closes, Ending, Finishing
<1>1. ASSUME NEW p \in Op, NEW q, Closes(p, q), op' = [op EXCEPT ![p] = q] PROVE Closes(o, op'[o])
  BY <1>0, <1>1
<1>2. CASE op' = op
  BY <1>0, <1>2
<1>3. CASE HandlerStep
  <2>1. CASE Enqueue
    <3>1. PICK p \in Op : op' = op \/ op' = [op EXCEPT ![p] = FreshOp(handling.delivery, FALSE)]
      BY <2>1 DEF Enqueue, SameKey
    <3> QED
      BY <1>1, <1>2, <3>1, FreshOpEnds DEF Ends, Closes
  <2>2. ASSUME NEW e \in Delivery, Supersede(e) PROVE Closes(o, op'[o])
    <3>1. op' = op \/ op' = [op EXCEPT ![delivery[e].op] = CancelAsked(op[delivery[e].op])]
      BY <2>2 DEF Supersede
    <3>2. CASE delivery[e].op \in Op
      BY <1>0, <1>1, <1>2, <3>1, <3>2, CancelEnds DEF Ends, Closes
    <3>3. CASE delivery[e].op \notin Op
      <4>1. op' = op
        BY <1>0, <3>1, <3>3
      <4> QED
        BY <1>2, <4>1
    <3> QED
      BY <3>2, <3>3
  <2>3. CASE ~Enqueue /\ ~(\E e \in Delivery : Supersede(e))
    <3>1. op' = op
      BY <1>3, <2>3 DEF HandlerStep, Receive, MarkStale, Attach, AttachThrows, MarkDuplicate,
         Accept, AnswerAccepted, ServerCrash
    <3> QED
      BY <1>2, <3>1
  <2> QED
    BY <2>1, <2>2, <2>3
<1>4. CASE EngineStep
  <2>1. PICK p \in Op : \/ Start(p) \/ RunnerStep(p) \/ SweepExhausted(p)
                        \/ \E t \in Target : ChildStarts(p, t) \/ ChildEnds(p, t)
    BY <1>4 DEF EngineStep
  <2>2. CASE Start(p) \/ RunnerStep(p)
    BY <1>1, <1>2, <2>2, StartCloses, RunnerCloses
  <2>3. CASE SweepExhausted(p)
    <3>1. op' = [op EXCEPT ![p] = Finished(op[p], "compensation_failed")]
      BY <2>3 DEF SweepExhausted
    <3>2. Ends(op[p], Finished(op[p], "compensation_failed"))
      BY <1>0 DEF Finished, OpRow, Ends, Ending, Finishing
    <3> QED
      BY <1>1, <3>1, <3>2 DEF Ends, Closes
  <2>4. ASSUME NEW t \in Target, ChildStarts(p, t) \/ ChildEnds(p, t) PROVE Closes(o, op'[o])
    BY <1>2, <2>4 DEF ChildStarts, ChildEnds
  <2> QED
    BY <2>1, <2>2, <2>3, <2>4
<1>5. ASSUME NEW p \in Op, CancelOperation(p) \/ RetryAsNew(p) PROVE Closes(o, op'[o])
  <2>1. CASE CancelOperation(p)
    BY <1>0, <1>1, <2>1, CancelEnds DEF CancelOperation, Ends, Closes
  <2>2. CASE RetryAsNew(p)
    <3>1. PICK q \in Op : op' = [op EXCEPT ![q] = FreshOp(op[p].delivery, TRUE)]
      BY <2>2 DEF RetryAsNew
    <3> QED
      BY <1>1, <3>1, FreshOpEnds DEF Ends, Closes
  <2> QED
    BY <1>5, <2>1, <2>2
<1>6. CASE EngineCrash
  <2>1. op'[o] = [op[o] EXCEPT !.pc = "idle", !.cancelled = FALSE,
                     !.status = IF @ = "running" THEN "pending" ELSE @]
    BY <1>6 DEF EngineCrash
  <2>2. Ends(op[o], op'[o])
    BY <1>0, <2>1 DEF OpRow, Ends, Ending, Finishing
  <2> QED
    BY <2>2 DEF Ends, Closes
<1>7. CASE UNCHANGED vars
  BY <1>2, <1>7 DEF vars
<1> QED
  BY <1>3, <1>4, <1>5, <1>6, <1>7 DEF Next

(* The table of the children, and the step that adds to it.                *)
ChildrenOk == child \in [Op -> [Target -> ChildStatus]]

LEMMA ChildrenAreKept ==
  ASSUME ChildrenOk, [Next]_vars
  PROVE  /\ ChildrenOk'
         /\ \A o \in Op, t \in Target :
              child[o][t] = "none" /\ child'[o][t] # "none" =>
                             op[o].pc = "reconcile" /\ Fresh(o)
<1> DEFINE Goal == /\ ChildrenOk'
                   /\ \A o \in Op, t \in Target :
                        child[o][t] = "none" /\ child'[o][t] # "none" =>
                             op[o].pc = "reconcile" /\ Fresh(o)
<1>1. CASE child' = child
  BY <1>1 DEF ChildrenOk
<1>2. ASSUME NEW o \in Op, NEW t \in Target, NEW s \in ChildStatus,
             child' = [child EXCEPT ![o][t] = s],
             (op[o].pc = "reconcile" /\ Fresh(o)) \/ child[o][t] # "none"
      PROVE  Goal
  BY <1>2 DEF ChildrenOk
<1>3. ASSUME NEW o \in Op, RunnerStep(o) PROVE Goal
  <2>1. CASE ReconcileManifest(o)
    <3>1. PICK t \in Target : child' = [child EXCEPT ![o][t] = IF @ = "none" THEN "pending" ELSE @]
      BY <2>1 DEF ReconcileManifest
    <3>2. op[o].pc = "reconcile" /\ Fresh(o)
      BY <2>1 DEF ReconcileManifest, Running
    <3>3. (IF child[o][t] = "none" THEN "pending" ELSE child[o][t]) \in ChildStatus
      BY DEF ChildrenOk, ChildStatus
    <3> QED
      BY <1>2, <3>1, <3>2, <3>3
  <2>2. CASE PassCancelOn(o)
    <3>1. child' = [child EXCEPT ![o] = [t \in Target |->
                      IF child[o][t] = "pending" THEN "cancelled" ELSE child[o][t]]]
      BY <2>2 DEF PassCancelOn
    <3>2. \A t \in Target : (IF child[o][t] = "pending" THEN "cancelled" ELSE child[o][t]) \in ChildStatus
      BY DEF ChildrenOk, ChildStatus
    <3> QED
      BY <3>1, <3>2 DEF ChildrenOk
  <2>3. CASE ~ReconcileManifest(o) /\ ~PassCancelOn(o)
    <3>1. child' = child
      BY <1>3, <2>3 DEF RunnerStep, StepThrows, StepReturns, PrepareSource, BuildImages, AwaitThrows,
         ChildrenSettled, FinishDelivery, FinishRejected, UndoPrepare, UndoThrows
    <3> QED
      BY <1>1, <3>1
  <2> QED
    BY <2>1, <2>2, <2>3
<1>4. CASE EngineStep
  <2>1. PICK o \in Op : \/ Start(o) \/ RunnerStep(o) \/ SweepExhausted(o)
                        \/ \E t \in Target : ChildStarts(o, t) \/ ChildEnds(o, t)
    BY <1>4 DEF EngineStep
  <2>2. CASE Start(o) \/ SweepExhausted(o)
    BY <1>1, <2>2 DEF Start, SweepExhausted
  <2>3. ASSUME NEW t \in Target, ChildStarts(o, t) \/ ChildEnds(o, t) PROVE Goal
    <3>1. PICK s \in ChildStatus : child' = [child EXCEPT ![o][t] = s]
      BY <2>3 DEF ChildStarts, ChildEnds, ChildStatus
    <3>2. child[o][t] # "none"
      BY <2>3 DEF ChildStarts, ChildEnds
    <3> QED
      BY <1>2, <3>1, <3>2
  <2> QED
    BY <1>3, <2>1, <2>2, <2>3
<1>5. CASE HandlerStep
  BY <1>1, <1>5 DEF HandlerStep, Receive, MarkStale, Enqueue, Attach, AttachThrows, MarkDuplicate,
     Accept, Supersede, AnswerAccepted, ServerCrash
<1>6. CASE EngineCrash \/ UNCHANGED vars \/ \E o \in Op : CancelOperation(o) \/ RetryAsNew(o)
  BY <1>1, <1>6 DEF EngineCrash, vars, CancelOperation, RetryAsNew
<1> QED
  BY <1>4, <1>5, <1>6 DEF Next

LEMMA DeliveryInvInit == Init => DeliveryInv /\ ChildrenOk
<1> SUFFICES ASSUME Init PROVE DeliveryInv /\ ChildrenOk
  OBVIOUS
<1>1. \A o \in Op : op[o] = NoRow
  BY DEF Init
<1>2. RowOk(NoRow)
  BY DEF NoRow, RowOk, InStep, OpRow, OpPc, OpStatus
<1>3. RowsInv
  BY <1>1, <1>2 DEF Init, RowsInv, HandlingOk
<1>4. NoRow.status = "none"
  BY DEF NoRow
<1>5. OneOperationPerCommit
  BY <1>1, <1>4 DEF OneOperationPerCommit
<1>6. ChildrenOk
  BY DEF Init, ChildrenOk, ChildStatus
<1> QED
  BY <1>3, <1>5, <1>6 DEF DeliveryInv

LEMMA DeliveryInvHolds == Spec => [](DeliveryInv /\ ChildrenOk)
<1>1. Init => DeliveryInv /\ ChildrenOk
  BY DeliveryInvInit
<1>2. DeliveryInv /\ ChildrenOk /\ [Next]_vars => (DeliveryInv /\ ChildrenOk)'
  <2> SUFFICES ASSUME DeliveryInv, ChildrenOk, [Next]_vars PROVE DeliveryInv' /\ ChildrenOk'
    OBVIOUS
  <2>1. CASE UNCHANGED vars
    <3>1. HandlingOk' /\ op' = op
      BY <2>1 DEF vars, DeliveryInv, RowsInv, HandlingOk
    <3> QED
      BY <3>1, SameTable, ChildrenAreKept
  <2>2. CASE Next
    BY <2>2, HandlerKeeps, EngineKeeps, OperatorKeeps, CrashKeeps, ChildrenAreKept DEF Next
  <2> QED
    BY <2>1, <2>2
<1> QED
  BY <1>1, <1>2, PTL DEF Spec

(* However often a commit is pushed, redelivered or compacted away, and    *)
(* wherever either process dies: one operation is enqueued for it, and     *)
(* more only by an operator's retry (the idempotency key of                *)
(* handleGitHubBuildWebhook).                                              *)
THEOREM CommitsHaveOneOperation == Spec => []OneOperationPerCommit
<1>1. DeliveryInv => OneOperationPerCommit
  BY DEF DeliveryInv
<1> QED
  BY <1>1, DeliveryInvHolds, PTL

(* A delivery that a newer push has superseded, or that came late, rolls   *)
(* nothing further out, at whatever step of its operation it happens:      *)
(* assertFreshDelivery is before every step that has an effect outside.    *)
THEOREM SupersededRollsNothingOut == Spec => SupersededStops
<1>1. DeliveryInv /\ ChildrenOk /\ [Next]_vars =>
        [\A o \in Op :
           /\ op[o].delivery \in Recorded
           /\ delivery[op[o].delivery].status \in {"stale", "superseded"}
           => /\ \A t \in Target : child[o][t] = "none" => child'[o][t] = "none"
              /\ op[o].pc # "finished" =>
                   /\ op'[o].pc # "finished"
                   /\ op'[o].status = "done" => op[o].status = "done"]_vars
  <2> SUFFICES ASSUME DeliveryInv, ChildrenOk, [Next]_vars,
                      NEW o \in Op, op[o].delivery \in Recorded,
                      delivery[op[o].delivery].status \in {"stale", "superseded"}
               PROVE  /\ \A t \in Target : child[o][t] = "none" => child'[o][t] = "none"
                      /\ op[o].pc # "finished" =>
                           /\ op'[o].pc # "finished"
                           /\ op'[o].status = "done" => op[o].status = "done"
    OBVIOUS
  <2>1. ~Fresh(o)
    BY DEF Fresh, Recorded
  <2>2. Closes(o, op'[o])
    BY StepsClose
  <2> QED
    BY <2>1, <2>2, ChildrenAreKept DEF Closes, Ending, Finishing
<1> QED
  BY <1>1, DeliveryInvHolds, PTL DEF SupersededStops, Spec


-----------------------------------------------------------------------------
(* The table of deliveries: it always has a last row.                      *)

There(rows) == {d \in Delivery : rows[d] # None}
IsLast(rows, e) == \A d \in There(rows) \ {e} : Precedes(rows, d, e)

Table(rows) ==
  /\ rows \in [Delivery -> DeliveryRow \cup {None}]
  /\ IsFiniteSet(There(rows))
  /\ \A d \in There(rows) : rows[d].seq <= Cardinality(There(rows))
  /\ \A d, e \in There(rows) : rows[d].seq = rows[e].seq => d = e
  /\ There(rows) # {} => \E e \in There(rows) : IsLast(rows, e)

LEMMA SortKeyType == ASSUME NEW d \in Delivery PROVE SortKey(d) \in Nat
<1>1. Event[d] \in EventType
  BY DeliveriesAssumption
<1> QED
  BY <1>1 DEF EventType, SortKey, Timed

LEMMA TimedType == ASSUME NEW d \in Delivery, Timed(d) PROVE Event[d].at \in Nat /\ SortKey(d) = Event[d].at
<1>1. Event[d] \in EventType
  BY DeliveriesAssumption
<1> QED
  BY <1>1 DEF EventType, SortKey, Timed

LEMMA RowThere ==
  ASSUME NEW rows, Table(rows), NEW d \in There(rows)
  PROVE  rows[d] \in DeliveryRow /\ rows[d].seq \in Nat
BY DEF Table, There, DeliveryRow

(* Rows that keep their ids keep their order. *)
LEMMA SameIds ==
  ASSUME NEW a, NEW b, Table(a), b \in [Delivery -> DeliveryRow \cup {None}],
         There(b) = There(a), \A d \in There(a) : b[d].seq = a[d].seq
  PROVE  Table(b)
<1>1. \A d \in There(a) : d \in Delivery
  BY DEF There
<1>2. \A d, e \in There(a) : Precedes(a, d, e) => Precedes(b, d, e)
  BY DEF Precedes
<1>3. \A e \in There(a) : IsLast(a, e) => IsLast(b, e)
  BY <1>2 DEF IsLast
<1> QED
  BY <1>3 DEF Table

LEMMA MarkedTable ==
  ASSUME NEW rows, Table(rows), NEW d \in There(rows), NEW s \in Active \cup Settled
  PROVE  LET new == [rows EXCEPT ![d].status = s]
         IN  /\ Table(new) /\ There(new) = There(rows)
             /\ \A e \in Delivery \ {d} : new[e] = rows[e]
             /\ new[d].status = s /\ new[d].op = rows[d].op
<1> DEFINE new == [rows EXCEPT ![d].status = s]
<1>0. d \in Delivery /\ rows[d] \in DeliveryRow /\ rows \in [Delivery -> DeliveryRow \cup {None}]
  BY RowThere DEF There, Table
<1>1. new = [rows EXCEPT ![d] = [rows[d] EXCEPT !.status = s]]
  OBVIOUS
<1>2. /\ [rows[d] EXCEPT !.status = s] \in DeliveryRow
      /\ [rows[d] EXCEPT !.status = s].status = s
      /\ [rows[d] EXCEPT !.status = s].op = rows[d].op
      /\ [rows[d] EXCEPT !.status = s].seq = rows[d].seq
  BY <1>0 DEF DeliveryRow
<1>3. new[d] = [rows[d] EXCEPT !.status = s] /\ \A e \in Delivery \ {d} : new[e] = rows[e]
  BY <1>0, <1>1
<1>4. new \in [Delivery -> DeliveryRow \cup {None}]
  BY <1>0, <1>1, <1>2
<1>5. There(new) = There(rows)
  BY <1>0, <1>2, <1>3, RowsAssumption DEF There
<1>6. \A e \in There(rows) : new[e].seq = rows[e].seq
  BY <1>2, <1>3 DEF There
<1>7. Table(new)
  BY <1>4, <1>5, <1>6, SameIds
<1> QED
  BY <1>2, <1>3, <1>5, <1>7

(* A row that is received takes the next id. *)
LEMMA AddedTable ==
  ASSUME NEW rows, Table(rows), NEW d \in Delivery \ There(rows)
  PROVE  LET new == [rows EXCEPT ![d] =
                       [seq |-> Cardinality(There(rows)) + 1, status |-> "received", op |-> 0]]
         IN  /\ Table(new) /\ There(new) = There(rows) \cup {d}
             /\ \A e \in Delivery \ {d} : new[e] = rows[e]
             /\ new[d].status = "received" /\ new[d].op = 0
<1> DEFINE n == Cardinality(There(rows))
           row == [seq |-> n + 1, status |-> "received", op |-> 0]
           new == [rows EXCEPT ![d] = row]
<1>1. /\ n \in Nat /\ IsFiniteSet(There(rows) \cup {d})
      /\ Cardinality(There(rows) \cup {d}) = n + 1
  BY FS_CardinalityType, FS_AddElement DEF Table
<1>2. row \in DeliveryRow /\ row.seq = n + 1 /\ row.status = "received" /\ row.op = 0
  BY <1>1 DEF DeliveryRow, Active
<1>3. new[d] = row /\ \A e \in Delivery \ {d} : new[e] = rows[e]
  BY DEF Table
<1>4. new \in [Delivery -> DeliveryRow \cup {None}]
  BY <1>2 DEF Table
<1>5. There(new) = There(rows) \cup {d}
  BY <1>2, <1>3, RowsAssumption DEF There
<1>6. \A e \in There(rows) : new[e] = rows[e] /\ rows[e].seq \in Nat /\ rows[e].seq <= n
  BY <1>3, RowThere DEF There, Table
<1>7. /\ \A e \in There(new) : new[e].seq <= n + 1
      /\ \A e, f \in There(new) : new[e].seq = new[f].seq => e = f
  <2> HIDE DEF new, n
  <2>1. \A e \in There(rows) : new[e].seq <= n /\ new[e].seq \in Nat
    BY <1>6
  <2>2. new[d].seq = n + 1
    BY <1>2, <1>3
  <2>3. \A e, f \in There(rows) : new[e].seq = new[f].seq => e = f
    BY <1>6 DEF Table
  <2> QED
    BY <1>1, <1>5, <2>1, <2>2, <2>3
<1>8. \E e \in There(new) : IsLast(new, e)
  <2>1. \A e \in There(rows) : Precedes(new, e, d) \/ Precedes(new, d, e)
    <3> SUFFICES ASSUME NEW e \in There(rows) PROVE Precedes(new, e, d) \/ Precedes(new, d, e)
      OBVIOUS
    <3>1. e \in Delivery /\ SortKey(e) \in Nat /\ SortKey(d) \in Nat
      BY SortKeyType DEF There
    <3>2. new[e].seq < new[d].seq
      BY <1>1, <1>2, <1>3, <1>6
    <3> QED
      BY <3>1, <3>2 DEF Precedes
  <2>2. CASE There(rows) = {}
    BY <1>5, <2>2 DEF IsLast
  <2>3. CASE There(rows) # {}
    <3>1. PICK m \in There(rows) : IsLast(rows, m)
      BY <2>3 DEF Table
    <3>2. \A e \in There(rows) \ {m} : Precedes(new, e, m)
      BY <1>6, <3>1 DEF IsLast, Precedes
    <3>3. CASE Precedes(new, d, m)
      BY <1>5, <3>2, <3>3 DEF IsLast
    <3>4. CASE Precedes(new, m, d)
      <4>1. ASSUME NEW e \in There(rows) \ {m} PROVE Precedes(new, e, d)
        <5>1. SortKey(e) \in Nat /\ SortKey(d) \in Nat /\ SortKey(m) \in Nat
          BY SortKeyType DEF There
        <5>2. new[e].seq \in Nat /\ new[m].seq \in Nat /\ new[d].seq \in Nat
          BY <1>1, <1>2, <1>3, <1>6
        <5>3. Precedes(new, e, m)
          BY <3>2
        <5> QED
          BY <3>4, <5>1, <5>2, <5>3 DEF Precedes
      <4>2. IsLast(new, d)
        BY <1>5, <3>4, <4>1 DEF IsLast
      <4> QED
        BY <1>5, <4>2
    <3> QED
      BY <2>1, <3>1, <3>3, <3>4
  <2> QED
    BY <2>2, <2>3
<1>9. Table(new)
  <2>1. IsFiniteSet(There(new)) /\ Cardinality(There(new)) = n + 1
    BY <1>1, <1>5
  <2> HIDE DEF new, n
  <2> QED
    BY <1>4, <1>7, <1>8, <2>1 DEF Table
<1> QED
  BY <1>2, <1>3, <1>5, <1>9

(* Compaction drops settled rows only, and never the last one. *)
LEMMA CompactedTable ==
  ASSUME NEW rows, Table(rows)
  PROVE  LET new == Compacted(rows)
         IN  /\ Table(new)
             /\ \A d \in Delivery : new[d] # None =>
                  rows[d] # None /\ new[d].status = rows[d].status /\ new[d].op = rows[d].op
             /\ \A d \in There(rows) : rows[d].status \in Active => new[d] # None
             /\ \A d \in There(rows) : IsLast(rows, d) => new[d] # None
<1> DEFINE there == There(rows)
           newer(d) == {e \in there : Precedes(rows, d, e)}
           kept == {d \in there : \/ rows[d].status \in Active
                                  \/ Cardinality(newer(d)) < KeepNewest}
           upto(d) == {e \in kept : rows[e].seq <= rows[d].seq}
           seq(d) == Cardinality(upto(d))
           new == [d \in Delivery |-> IF d \in kept THEN [rows[d] EXCEPT !.seq = seq(d)] ELSE None]
<1>1. Compacted(rows) = new
  BY DEF Compacted, There
<1>2. IsFiniteSet(there) /\ kept \subseteq there /\ IsFiniteSet(kept)
  BY FS_Subset DEF Table
<1>3. \A d \in there : rows[d].seq \in Nat /\ rows[d] \in DeliveryRow /\ d \in Delivery
  BY RowThere DEF There
<1>4. ASSUME NEW d \in kept
      PROVE  /\ IsFiniteSet(upto(d)) /\ seq(d) \in Nat \ {0} /\ seq(d) <= Cardinality(kept)
  <2>1. IsFiniteSet(upto(d)) /\ seq(d) <= Cardinality(kept)
    BY <1>2, FS_Subset
  <2>2. seq(d) \in Nat
    BY <2>1, FS_CardinalityType
  <2>3. d \in upto(d)
    BY <1>2, <1>3
  <2>4. seq(d) # 0
    BY <2>1, <2>3, FS_EmptySet
  <2> QED
    BY <2>1, <2>2, <2>4
<1>5. ASSUME NEW d \in kept, NEW e \in kept, rows[d].seq < rows[e].seq
      PROVE  seq(d) < seq(e)
  <2>1. upto(d) \subseteq upto(e)
    BY <1>2, <1>3, <1>5
  <2>2. e \in upto(e) /\ e \notin upto(d)
    BY <1>2, <1>3, <1>5
  <2>3. IsFiniteSet(upto(e)) /\ seq(d) \in Nat /\ seq(e) \in Nat
    BY <1>4
  <2>4. seq(d) <= seq(e) /\ (seq(e) = seq(d) => upto(e) = upto(d))
    <3> DEFINE S == upto(e)
               T == upto(d)
    <3>1. IsFiniteSet(S) /\ T \in SUBSET S
      BY <2>1, <2>3
    <3> HIDE DEF S, T
    <3>2. Cardinality(T) <= Cardinality(S) /\ (Cardinality(S) = Cardinality(T) => S = T)
      BY <3>1, FS_Subset
    <3> QED
      BY <3>2 DEF S, T
  <2> HIDE DEF upto
  <2> QED
    BY <2>2, <2>3, <2>4
<1>6. ASSUME NEW d \in kept
      PROVE  /\ new[d] \in DeliveryRow /\ new[d].seq = seq(d)
             /\ new[d].status = rows[d].status /\ new[d].op = rows[d].op
  <2> HIDE DEF upto
  <2>1. rows[d] \in DeliveryRow /\ seq(d) \in Nat \ {0} /\ d \in Delivery
    BY <1>2, <1>3, <1>4
  <2>2. new[d] = [rows[d] EXCEPT !.seq = seq(d)]
    BY <1>6, <2>1
  <2> HIDE DEF new, seq
  <2> QED
    BY <2>1, <2>2 DEF DeliveryRow
<1>7. \A d \in Delivery \ kept : new[d] = None
  OBVIOUS
<1>8. There(new) = kept
  <2> HIDE DEF new, kept
  <2> QED
    BY <1>2, <1>3, <1>6, <1>7, RowsAssumption DEF There
<1>9. new \in [Delivery -> DeliveryRow \cup {None}]
  <2>1. new = [d \in Delivery |-> new[d]]
    OBVIOUS
  <2> HIDE DEF new, kept
  <2> QED
    BY <1>6, <1>7, <2>1
<1>10. ASSUME NEW d \in there, IsLast(rows, d) PROVE d \in kept
  <2>1. newer(d) = {}
    <3> SUFFICES ASSUME NEW e \in there, Precedes(rows, d, e) PROVE FALSE
      OBVIOUS
    <3>1. SortKey(d) \in Nat /\ SortKey(e) \in Nat /\ rows[d].seq \in Nat /\ rows[e].seq \in Nat
      BY <1>3, SortKeyType
    <3>2. e # d
      BY <3>1 DEF Precedes
    <3>3. Precedes(rows, e, d)
      BY <1>10, <3>2 DEF IsLast
    <3> QED
      BY <3>1, <3>3 DEF Precedes
  <2>2. Cardinality(newer(d)) < KeepNewest
    BY <2>1, FS_EmptySet, DeliveriesAssumption
  <2> QED
    BY <2>2
<1>11. ASSUME NEW d \in kept, NEW e \in kept, Precedes(rows, d, e) PROVE Precedes(new, d, e)
  <2>1. rows[d].seq < rows[e].seq => new[d].seq < new[e].seq
    BY <1>5, <1>6
  <2> QED
    BY <1>11, <2>1 DEF Precedes
<1>12. Table(new)
  <2> HIDE DEF new, kept, seq
  <2>1. \A d \in There(new) : new[d].seq <= Cardinality(There(new))
    BY <1>4, <1>6, <1>8
  <2>2. ASSUME NEW d \in There(new), NEW e \in There(new), new[d].seq = new[e].seq PROVE d = e
    <3>1. d \in kept /\ e \in kept /\ d \in there /\ e \in there
      BY <1>2, <1>8
    <3>2. seq(d) \in Nat /\ seq(e) \in Nat /\ seq(d) = seq(e)
      BY <1>4, <1>6, <2>2, <3>1
    <3>3. ~(rows[d].seq < rows[e].seq) /\ ~(rows[e].seq < rows[d].seq)
      BY <1>5, <3>1, <3>2
    <3>4. rows[d].seq = rows[e].seq
      BY <1>3, <3>1, <3>3
    <3> QED
      BY <3>1, <3>4 DEF Table
  <2>3. ASSUME There(new) # {} PROVE \E e \in There(new) : IsLast(new, e)
    <3>1. there # {}
      BY <1>2, <1>8, <2>3
    <3>2. PICK e \in there : IsLast(rows, e)
      BY <3>1 DEF Table
    <3>3. e \in kept
      BY <1>10, <3>2
    <3>4. IsLast(new, e)
      BY <1>2, <1>8, <1>11, <3>2, <3>3 DEF IsLast
    <3> QED
      BY <1>8, <3>3, <3>4
  <2> QED
    BY <1>2, <1>8, <1>9, <2>1, <2>2, <2>3 DEF Table
<1>13. \A d \in Delivery : new[d] # None =>
         rows[d] # None /\ new[d].status = rows[d].status /\ new[d].op = rows[d].op
  <2> HIDE DEF new, kept, seq
  <2> QED
    BY <1>2, <1>6, <1>7 DEF There
<1>14. \A d \in kept : new[d] # None
  BY <1>8 DEF There
<1>15. \A d \in there : rows[d].status \in Active => d \in kept
  OBVIOUS
<1> HIDE DEF new, kept
<1> QED
  BY <1>1, <1>10, <1>12, <1>13, <1>14, <1>15

(* Where the last row stays, some push as new as any of them is on record. *)
Covers(rows, d) == \E e \in There(rows) : Timed(e) /\ Event[d].at <= Event[e].at

LEMMA LastCovers ==
  ASSUME NEW rows, Table(rows), UntimedBelow, NEW d \in There(rows), Timed(d),
         NEW e \in There(rows), IsLast(rows, e)
  PROVE  Timed(e) /\ Event[d].at <= Event[e].at
<1>1. d \in Delivery /\ e \in Delivery /\ SortKey(d) \in Nat /\ SortKey(e) \in Nat
  BY SortKeyType DEF There
<1>2. SortKey(d) <= SortKey(e)
  BY <1>1 DEF IsLast, Precedes
<1>3. Timed(e)
  <2>1. ~Timed(e) => SortKey(e) < SortKey(d)
    BY <1>1 DEF UntimedBelow
  <2> QED
    BY <1>1, <1>2, <2>1
<1> QED
  BY <1>1, <1>2, <1>3, TimedType

LEMMA CompactedCovers ==
  ASSUME NEW rows, Table(rows), UntimedBelow, NEW d \in Delivery, Covers(rows, d), Timed(d)
  PROVE  Covers(Compacted(rows), d)
<1>1. PICK r \in There(rows) : Timed(r) /\ Event[d].at <= Event[r].at
  BY DEF Covers
<1>2. PICK e \in There(rows) : IsLast(rows, e)
  BY <1>1 DEF Table
<1>3. Timed(e) /\ Event[r].at <= Event[e].at
  BY <1>1, <1>2, LastCovers
<1>4. e \in There(Compacted(rows))
  BY <1>2, CompactedTable DEF There
<1>5. Event[d].at \in Nat /\ Event[r].at \in Nat /\ Event[e].at \in Nat
  BY <1>1, <1>3, TimedType DEF There
<1> QED
  BY <1>1, <1>3, <1>4, <1>5 DEF Covers
-----------------------------------------------------------------------------
(* The invariant. *)

Going(r) == r.status \in {"pending", "running"}
Unfinished(r) == r.status \in {"pending", "running", "compensating"}
Waiting(r) == r.pc = "idle" /\ r.status \in {"none", "pending", "cancelled"} /\ r.done = 0
Queued(s) == s \in {"pending", "running"}
SettledWell(s) == s \in {"done", "cancelled"}

TypesInv ==
  /\ source \in [last: Delivery \cup {None},
                 status: {"", "queued", "building", "deployed", "failed"}]
  /\ app \in [Target -> Delivery \cup {None}]
  /\ Table(delivery)

(* One runner at a time, and an operation begins when none before it is on *)
(* its way forward: until then its children are not enqueued.              *)
RowTurn(r) ==
  /\ r.status = "running" <=> r.pc \notin {"idle", "undo"}
  /\ r.pc = "undo" => r.status = "compensating"
  /\ r.status = "none" <=> r.delivery = None
  /\ r.status = "none" => r.done = 0

TurnInv ==
  /\ \A o \in Op : RowTurn(op[o])
  /\ \A o, p \in Op : p < o /\ op[o].status # "none" => op[p].status # "none"
  /\ \A o, p \in Op : op[o].pc # "idle" /\ op[p].pc # "idle" => o = p
  /\ \A o, p \in Op : o < p /\ Going(op[o]) => Waiting(op[p])
  /\ \A o \in Op, t \in Target : op[o].done = 0 => child[o][t] = "none"

(* A child that was served has no earlier one in its queue. *)
Served(o, t) ==
  \/ child[o][t] \in {"running", "done", "failed"}
  \/ child[o][t] = "cancelled" /\ ~op[o].cancel

ChildInv ==
  /\ \A o \in Op, t \in Target : Going(op[o]) /\ op[o].done = 3 => SettledWell(child[o][t])
  /\ \A o \in Op, t \in Target : Going(op[o]) /\ child[o][t] = "done" => app[t] = op[o].delivery
  /\ \A o, p \in Op, t \in Target : p < o /\ Going(op[o]) /\ Served(o, t) => ~Queued(child[p][t])
  /\ \A t \in Target : app[t] # None =>
       \E p \in Op : op[p].delivery = app[t] /\ child[p][t] # "none"

(* Nothing that is on its way is older than what is recorded as deployed. *)
Deployed == {d \in Recorded : delivery[d].status = "deployed"}
Ahead(f) == \A d \in Deployed : ~OlderEvent(f, d)

AheadInv ==
  /\ \A o \in Op, t \in Target : Queued(child[o][t]) => Ahead(op[o].delivery)
  /\ Deployed # {} => source.last # None
  /\ source.last # None => Ahead(source.last)

(* A push that is not late is as new as all that is on record, and as all  *)
(* that ever had an operation.                                             *)
NewestOf(h) ==
  /\ \A r \in Recorded : ~OlderEvent(h, r)
  /\ \A p \in Op : op[p].status # "none" => ~OlderEvent(h, op[p].delivery)
  /\ Timed(h) => Covers(delivery, h)

HandlerInv ==
  handling # None =>
    LET h == handling.delivery
    IN  /\ handling.pc # "recorded" =>
             /\ ~handling.late
             /\ handling.op \in Op /\ op[handling.op].status # "none" /\ ~op[handling.op].retry
        /\ handling.pc = "recorded" => handling.op = 0
        /\ handling.pc = "accepted" => source.last # None
        /\ handling.older # {} => source.last # None
        /\ delivery[h] # None => delivery[h].op \in {0, handling.op}
        /\ ~handling.late => NewestOf(h)

RecordInv ==
  \A p \in Op : op[p].status # "none" /\ Timed(op[p].delivery) => Covers(delivery, op[p].delivery)

(* Before a push is accepted, an operation that was enqueued by hand owns  *)
(* its row until it ends.                                                  *)
Owns(o) ==
  LET d == op[o].delivery
  IN  /\ delivery[d] # None /\ delivery[d].op = o
      /\ delivery[d].status \in {"queued", "building"}
      /\ op[o].done > 0 \/ op[o].pc = "prepared" => delivery[d].status = "building"

RetryInv ==
  /\ \A o \in Op : op[o].retry =>
       \E q \in Op : ~op[q].retry /\ op[q].delivery = op[o].delivery /\ op[q].status \in OpOver
  /\ source.last = None => \A o \in Op : op[o].retry /\ Unfinished(op[o]) => Owns(o)
  /\ \A o, p \in Op : op[o].status # "none" /\ ~op[o].retry /\ p < o =>
       ~OlderEvent(op[o].delivery, op[p].delivery)

(* The push that is accepted is as new as all that runs or is on its way,  *)
(* or it will never be rolled out again.                                   *)
Calm(f) == \A t \in Target : \A d \in Coming(t) : ~OlderEvent(f, d)
Spent(f) ==
  /\ \E p \in Op : op[p].status # "none" /\ OlderEvent(f, op[p].delivery)
  /\ delivery[f] # None => delivery[f].op = 0 \/ delivery[f].status = "deployed"
  /\ \A p \in Op : op[p].delivery = f /\ Going(op[p]) => op[p].done = 3

LastInv == source.last # None => Calm(source.last) \/ Spent(source.last)

Base == DeliveryInv /\ ChildrenOk /\ TypesInv /\ TurnInv /\ ChildInv

PushInv ==
  /\ Base /\ AheadInv /\ DeployedIsServed
  /\ HandlerInv /\ RecordInv /\ RetryInv /\ LastInv

-----------------------------------------------------------------------------
(* What an ordinary step does to a row of operations.                      *)

(* Its children have all come to a good end. *)
AllWell(o) == \A t \in Target : SettledWell(child[o][t])
PreparedNow(o) ==
  delivery'[op[o].delivery] # None => delivery'[op[o].delivery].status = "building"
Free(o) == KeyFree /\ \A p \in Op : p < o => op[p].status # "pending"

Turn(o, q) ==
  LET r == op[o]
  IN  /\ Sound(r, q) /\ RowTurn(q)
      /\ r.status # "none" => q.status # "none"
      /\ r.status \in OpOver => q.status \in OpOver
      /\ r.done <= q.done
      /\ Going(q) => Going(r) /\ (r.cancel => q.cancel)
      /\ Going(q) /\ q.done = 3 => r.done = 3 \/ AllWell(o)
      /\ Unfinished(q) /\ (q.done > 0 \/ q.pc = "prepared")
           => r.done > 0 \/ r.pc = "prepared" \/ PreparedNow(o)
      /\ Waiting(r) => Waiting(q) \/ Free(o)
      /\ q.pc # "idle" => r.pc # "idle" \/ KeyFree

OneRunner(o) == op'[o].pc # "idle" /\ op[o].pc = "idle" => \A p \in Op \ {o} : op'[p] = op[p]

OpsTurn ==
  /\ op' = [o \in Op |-> op'[o]]
  /\ \A o \in Op : Turn(o, op'[o]) /\ OneRunner(o)

(* The row after a step that gives the forward run up. *)
Halted(q) ==
  \/ q.status \in OpOver /\ q.pc = "idle"
  \/ q.status = "compensating" /\ q.pc = "undo"

LEMMA FinishedHalts ==
  ASSUME NEW r \in OpRow, NEW s \in OpOver
  PROVE  Halted(Finished(r, s)) /\ Finished(r, s).done = r.done /\ Finished(r, s).status = s
BY DEF Halted, Finished, OpRow

LEMMA CompensationHalts ==
  ASSUME NEW r \in OpRow, r.status = "compensating", NEW o \in Op
  PROVE  Halted(Compensation(o, r)) /\ Compensation(o, r).done = r.done
<1>1. (IF r.cancelled THEN "cancelled" ELSE "compensated") \in OpOver
  BY DEF OpOver
<1>2. Halted([r EXCEPT !.pc = "undo"]) /\ [r EXCEPT !.pc = "undo"].done = r.done
  BY DEF Halted, OpRow
<1> QED
  BY <1>1, <1>2, FinishedHalts DEF Compensation

LEMMA FailedHalts ==
  ASSUME NEW r \in OpRow, NEW o \in Op
  PROVE  Halted(Failed(o, r)) /\ Failed(o, r).done = r.done
<1> DEFINE q == [r EXCEPT !.status = "compensating", !.cancelled = r.cancel, !.cancel = FALSE]
<1>1. q \in OpRow /\ q.status = "compensating" /\ q.done = r.done
  BY DEF OpRow, OpStatus
<1>2. Failed(o, r) = Compensation(o, q)
  BY DEF Failed
<1> HIDE DEF q
<1> QED
  BY <1>1, <1>2, CompensationHalts

LEMMA ForwardShape ==
  ASSUME NEW r \in OpRow, r.status = "running", NEW o \in Op, NEW n \in 0 .. 4
  PROVE  LET q == Forward(o, r, n)
         IN  /\ q.done = n
             /\ \/ Halted(q)
                \/ q.status = "running" /\ q.cancel = r.cancel
                   /\ q.pc \in {"prepare", "build", "reconcile", "finish"}
<1>1. CASE n = 4
  <2> DEFINE p == [r EXCEPT !.done = 4]
  <2>1. p \in OpRow /\ p.done = 4 /\ "done" \in OpOver
    BY DEF OpRow, OpOver
  <2>2. Forward(o, r, n) = Finished(p, "done")
    BY <1>1 DEF Forward
  <2> HIDE DEF p
  <2> QED
    BY <1>1, <2>1, <2>2, FinishedHalts
<1>2. CASE n # 4 /\ r.cancel
  <2> DEFINE p == [r EXCEPT !.done = n]
  <2>1. p \in OpRow /\ p.done = n
    BY DEF OpRow
  <2>2. Forward(o, r, n) = Failed(o, p)
    BY <1>2 DEF Forward
  <2> HIDE DEF p
  <2> QED
    BY <2>1, <2>2, FailedHalts
<1>3. CASE n # 4 /\ ~r.cancel
  <2> DEFINE steps == <<"prepare", "build", "reconcile", "finish">>
             q(pc) == [r EXCEPT !.done = n, !.pc = pc]
  <2>1. Forward(o, r, n) = q(steps[n + 1])
    BY <1>3 DEF Forward
  <2>2. steps[n + 1] \in {"prepare", "build", "reconcile", "finish"}
    BY <1>3
  <2>3. ASSUME NEW pc \in {"prepare", "build", "reconcile", "finish"}
        PROVE  q(pc).done = n /\ q(pc).status = "running" /\ q(pc).cancel = r.cancel /\ q(pc).pc = pc
    BY DEF OpRow
  <2> HIDE DEF q, steps
  <2> QED
    BY <2>1, <2>2, <2>3
<1> QED
  BY <1>1, <1>2, <1>3

(* A row that halts has done nothing that an earlier one has not.          *)
LEMMA HaltedTurns ==
  ASSUME DeliveryInv, TurnInv, NEW o \in Op, NEW q, Sound(op[o], q), Halted(q),
         Unfinished(op[o]) \/ op[o].pc # "idle",
         op[o].done <= q.done, q.done > 0 => op[o].done > 0 \/ op[o].pc = "prepared",
         q.pc = "idle" \/ op[o].pc # "idle" \/ KeyFree, Waiting(op[o]) => Free(o)
  PROVE  Turn(o, q)
<1>1. RowOk(op[o]) /\ RowTurn(op[o]) /\ RowOk(q)
  BY DEF DeliveryInv, RowsInv, TurnInv, Sound
<1>2. q.status \in OpOver \cup {"compensating"} /\ q.status # "none" /\ ~Going(q) /\ q.delivery # None
  BY <1>1, DeliveriesAssumption DEF Halted, OpOver, Going, RowOk
<1>3. RowTurn(q)
  BY <1>1, <1>2 DEF RowTurn, Halted, OpOver
<1>4. op[o].status \notin OpOver
  BY <1>1 DEF Unfinished, OpOver, RowOk, RowTurn
<1>5. Unfinished(q) /\ (q.done > 0 \/ q.pc = "prepared") => op[o].done > 0 \/ op[o].pc = "prepared"
  BY <1>2 DEF Halted, Unfinished, OpOver
<1>6. Waiting(op[o]) => op[o].pc = "idle"
  BY DEF Waiting
<1> QED
  BY <1>1, <1>2, <1>3, <1>4, <1>5, <1>6 DEF Turn

(* A row that goes on forward. *)
LEMMA GoingTurns ==
  ASSUME DeliveryInv, TurnInv, NEW o \in Op, NEW q, Sound(op[o], q), q.status = "running",
         q.pc \notin {"idle", "undo"}, Going(op[o]), q.cancel = op[o].cancel,
         op[o].done <= q.done,
         q.done = 3 => op[o].done = 3 \/ AllWell(o),
         q.done > 0 \/ q.pc = "prepared" => op[o].done > 0 \/ op[o].pc = "prepared" \/ PreparedNow(o),
         op[o].pc # "idle" \/ Free(o)
  PROVE  Turn(o, q)
<1>1. RowOk(q) /\ RowOk(op[o]) /\ RowTurn(op[o])
  BY DEF DeliveryInv, RowsInv, TurnInv, Sound
<1>2. RowTurn(q)
  BY <1>1, DeliveriesAssumption DEF RowTurn, RowOk
<1>3. op[o].status \notin OpOver
  BY DEF Going, OpOver
<1>4. Waiting(op[o]) => op[o].pc = "idle"
  BY DEF Waiting
<1> QED
  BY <1>2, <1>3, <1>4 DEF Turn, Going, Unfinished, Free

LEMMA SameTurns ==
  ASSUME DeliveryInv, TurnInv, NEW o \in Op
  PROVE  Turn(o, op[o])
<1>1. RowOk(op[o]) /\ RowTurn(op[o])
  BY DEF DeliveryInv, RowsInv, TurnInv
<1>2. op[o].done <= op[o].done
  BY <1>1 DEF RowOk, OpRow
<1> QED
  BY <1>1, <1>2, UnchangedIsSound DEF Turn

LEMMA RowTurns ==
  ASSUME DeliveryInv, TurnInv, NEW o \in Op, NEW q, Turn(o, q), op' = [op EXCEPT ![o] = q]
  PROVE  OpsTurn
<1>1. op = [p \in Op |-> op[p]]
  BY DEF DeliveryInv, RowsInv
<1>2. op' = [p \in Op |-> op'[p]] /\ op'[o] = q /\ \A p \in Op \ {o} : op'[p] = op[p]
  BY <1>1
<1>3. \A p \in Op : Turn(p, op'[p])
  BY <1>2, SameTurns
<1>4. \A p \in Op : OneRunner(p)
  BY <1>2 DEF OneRunner
<1> QED
  BY <1>2, <1>3, <1>4 DEF OpsTurn

LEMMA AllTurn ==
  ASSUME DeliveryInv, TurnInv, op' = op
  PROVE  OpsTurn
<1>1. op' = [o \in Op |-> op'[o]]
  BY DEF DeliveryInv, RowsInv
<1>2. \A o \in Op : Turn(o, op'[o])
  BY SameTurns
<1>3. \A o \in Op : OneRunner(o)
  BY DEF OneRunner
<1> QED
  BY <1>1, <1>2, <1>3 DEF OpsTurn

LEMMA FailedTurns ==
  ASSUME DeliveryInv, TurnInv, NEW o \in Op, op[o].pc # "idle",
         op' = [op EXCEPT ![o] = Failed(o, op[o])]
  PROVE  OpsTurn
<1> DEFINE q == Failed(o, op[o])
<1>1. RowOk(op[o]) /\ op[o] \in OpRow /\ Known(op[o])
  BY LiveIsKnown DEF DeliveryInv, RowsInv, RowOk
<1>2. Sound(op[o], q) /\ Halted(q) /\ q.done = op[o].done
  BY <1>1, FailedIsSound, FailedHalts
<1>3. op[o].done <= op[o].done
  BY <1>1 DEF OpRow
<1>4. ~Waiting(op[o])
  BY DEF Waiting
<1> HIDE DEF q
<1>5. Turn(o, q)
  BY <1>2, <1>3, <1>4, HaltedTurns
<1> QED
  BY <1>5, RowTurns DEF q

LEMMA ForwardTurns ==
  ASSUME DeliveryInv, TurnInv, NEW o \in Op, NEW n \in 0 .. 4, op[o].status = "running",
         op[o].done <= n,
         n > 0 => op[o].done > 0 \/ op[o].pc = "prepared",
         n = 3 => op[o].done = 3 \/ AllWell(o),
         op' = [op EXCEPT ![o] = Forward(o, op[o], n)]
  PROVE  OpsTurn
<1> DEFINE q == Forward(o, op[o], n)
<1>1. RowOk(op[o]) /\ RowTurn(op[o]) /\ op[o] \in OpRow /\ op[o].pc # "idle" /\ Known(op[o])
  BY LiveIsKnown DEF DeliveryInv, RowsInv, RowOk, TurnInv, RowTurn
<1>2. Sound(op[o], q)
  BY <1>1, ForwardIsSound
<1>3. /\ q.done = n
      /\ \/ Halted(q)
         \/ q.status = "running" /\ q.cancel = op[o].cancel
            /\ q.pc \in {"prepare", "build", "reconcile", "finish"}
  BY <1>1, ForwardShape
<1>4. ~Waiting(op[o]) /\ Going(op[o])
  BY <1>1 DEF Waiting, Going
<1> HIDE DEF q
<1>5. CASE Halted(q)
  BY <1>1, <1>2, <1>3, <1>4, <1>5, HaltedTurns, RowTurns DEF q
<1>6. CASE ~Halted(q)
  <2>1. Turn(o, q)
    BY <1>1, <1>2, <1>3, <1>4, <1>6, GoingTurns
  <2> QED
    BY <2>1, RowTurns DEF q
<1> QED
  BY <1>5, <1>6

LEMMA StartTurns ==
  ASSUME DeliveryInv, TurnInv, NEW o \in Op, Start(o)
  PROVE  OpsTurn
<1> DEFINE r == op[o]
<1>1. RowOk(r) /\ RowTurn(r) /\ r \in OpRow /\ KeyFree
  BY DEF DeliveryInv, RowsInv, RowOk, TurnInv, Start
<1>2. CASE r.status = "pending" /\ op' = [op EXCEPT ![o] = Forward(o, [r EXCEPT !.status = "running"], r.done)]
           /\ \A p \in Op : p < o => op[p].status # "pending"
  <2> DEFINE s == [r EXCEPT !.status = "running"]
             q == Forward(o, s, r.done)
  <2>1. /\ s \in OpRow /\ Known(s) /\ Follows(r, s) /\ r.done \in 0 .. 4
        /\ s.status = "running" /\ s.cancel = r.cancel /\ s.done = r.done
    BY <1>1, <1>2 DEF RowOk, Known, Follows, OpRow, OpStatus
  <2> HIDE DEF s
  <2>2. Sound(s, q)
    BY <2>1, ForwardIsSound
  <2>3. Sound(r, q)
    BY <2>1, <2>2, <1>2 DEF Sound, Follows
  <2>4. /\ q.done = r.done
        /\ \/ Halted(q)
           \/ q.status = "running" /\ q.cancel = r.cancel
              /\ q.pc \in {"prepare", "build", "reconcile", "finish"}
    BY <2>1, ForwardShape
  <2>5. Free(o) /\ Going(r) /\ Unfinished(r)
    BY <1>1, <1>2 DEF Free, Going, Unfinished
  <2>6. r.done <= r.done
    BY <2>1
  <2> HIDE DEF q
  <2>7. Turn(o, q)
    <3>1. CASE Halted(q)
      BY <1>1, <2>3, <2>4, <2>5, <2>6, <3>1, HaltedTurns
    <3>2. CASE ~Halted(q)
      BY <1>1, <2>3, <2>4, <2>5, <2>6, <3>2, GoingTurns
    <3> QED
      BY <3>1, <3>2
  <2> QED
    BY <1>2, <2>7, RowTurns DEF q, s
<1>3. CASE r.status = "compensating" /\ op' = [op EXCEPT ![o] = Compensation(o, [r EXCEPT !.cancelled = FALSE])]
  <2> DEFINE s == [r EXCEPT !.cancelled = FALSE]
             q == Compensation(o, s)
  <2>1. s \in OpRow /\ s.status = "compensating" /\ s.done = r.done /\ Known(s) /\ Follows(r, s)
    BY <1>1, <1>3 DEF RowOk, Known, Follows, OpRow
  <2>0. r.done <= r.done
    BY <1>1 DEF OpRow
  <2> HIDE DEF s
  <2>2. Sound(s, q)
    BY <2>1, CompensationIsSound
  <2>3. Sound(r, q)
    BY <2>1, <2>2 DEF Sound, Follows
  <2>4. Halted(q) /\ q.done = r.done
    BY <2>1, CompensationHalts
  <2>5. ~Waiting(r) /\ Unfinished(r)
    BY <1>3 DEF Waiting, Unfinished
  <2> HIDE DEF q
  <2>6. Turn(o, q)
    BY <1>1, <2>0, <2>3, <2>4, <2>5, HaltedTurns
  <2> QED
    BY <1>3, <2>6, RowTurns DEF q, s
<1> QED
  BY <1>2, <1>3 DEF Start

LEMMA CancelTurns ==
  ASSUME DeliveryInv, TurnInv, NEW o \in Op
  PROVE  Turn(o, CancelAsked(op[o]))
<1> DEFINE r == op[o]
           q == CancelAsked(r)
<1>1. RowOk(r) /\ RowTurn(r) /\ r \in OpRow /\ Sound(r, q)
  BY CancelIsSound DEF DeliveryInv, RowsInv, RowOk, TurnInv
<1>2. CASE r.status = "pending"
  <2>1. q = [r EXCEPT !.status = "cancelled"] /\ r.pc = "idle"
    BY <1>1, <1>2 DEF CancelAsked, RowTurn
  <2>2. /\ q.status = "cancelled" /\ q.pc = "idle" /\ q.done = r.done /\ q.delivery = r.delivery
        /\ r.done <= r.done
    BY <1>1, <2>1 DEF OpRow
  <2>3. RowTurn(q)
    BY <1>1, <1>2, <2>2 DEF RowTurn
  <2>4. /\ ~Going(q) /\ ~Unfinished(q) /\ q.status # "none" /\ q.status \in OpOver
        /\ Waiting(r) => Waiting(q)
    <3> HIDE DEF q
    <3> QED
      BY <1>1, <1>2, <2>2 DEF Going, Unfinished, Waiting, OpOver, OpRow
  <2>5. Turn(o, q)
    <3> HIDE DEF q
    <3> QED
      BY <1>1, <2>2, <2>3, <2>4 DEF Turn
  <2> QED
    BY <2>5
<1>3. CASE r.status \in {"running", "compensating"}
  <2>1. q = [r EXCEPT !.cancel = TRUE]
    BY <1>3 DEF CancelAsked
  <2>2. /\ q.status = r.status /\ q.pc = r.pc /\ q.done = r.done /\ q.delivery = r.delivery
        /\ q.cancel = TRUE /\ r.done <= r.done
    BY <1>1, <2>1 DEF OpRow
  <2>3. RowTurn(q)
    BY <1>1, <2>2 DEF RowTurn
  <2>4. /\ Going(q) = Going(r) /\ Unfinished(q) = Unfinished(r) /\ Waiting(q) = Waiting(r)
        /\ q.status # "none" /\ r.status \notin OpOver
    <3> HIDE DEF q
    <3> QED
      BY <1>3, <2>2 DEF Going, Unfinished, Waiting, OpOver
  <2>5. Turn(o, q)
    <3> HIDE DEF q
    <3> QED
      BY <1>1, <2>2, <2>3, <2>4 DEF Turn
  <2> QED
    BY <2>5
<1>4. CASE r.status \notin {"pending", "running", "compensating"}
  <2>1. q = r
    BY <1>4 DEF CancelAsked
  <2> QED
    BY <2>1, SameTurns
<1> QED
  BY <1>2, <1>3, <1>4

LEMMA CrashTurns ==
  ASSUME DeliveryInv, TurnInv, EngineCrash
  PROVE  OpsTurn
<1>1. op' = [o \in Op |-> op'[o]]
  BY DEF EngineCrash
<1>2. ASSUME NEW o \in Op PROVE Turn(o, op'[o]) /\ OneRunner(o)
  <2> DEFINE r == op[o]
             q == op'[o]
  <2>1. RowOk(r) /\ RowTurn(r) /\ r \in OpRow
    BY DEF DeliveryInv, RowsInv, RowOk, TurnInv
  <2>2. q = [r EXCEPT !.pc = "idle", !.cancelled = FALSE,
                      !.status = IF r.status = "running" THEN "pending" ELSE r.status]
    BY DEF EngineCrash
  <2>3. /\ q.pc = "idle" /\ q.done = r.done /\ q.cancel = r.cancel /\ q.delivery = r.delivery
        /\ q.status = IF r.status = "running" THEN "pending" ELSE r.status
        /\ r.done <= r.done
    BY <2>1, <2>2 DEF OpRow
  <2>4. Sound(r, q)
    BY <2>1, <2>2 DEF Sound, Follows, RowOk, InStep, OpRow, OpPc, OpStatus
  <2>5. RowTurn(q)
    BY <2>1, <2>3 DEF RowTurn
  <2> HIDE DEF q
  <2>6. Turn(o, q)
    BY <2>1, <2>3, <2>4, <2>5 DEF Turn, Going, Unfinished, Waiting, OpOver
  <2>7. OneRunner(o)
    BY <2>3 DEF OneRunner, q
  <2> QED
    BY <2>6, <2>7 DEF q
<1> QED
  BY <1>1, <1>2 DEF OpsTurn

(* A step that only takes the runner on. *)
LEMMA PcTurns ==
  ASSUME DeliveryInv, TurnInv, NEW o \in Op, NEW pc \in OpPc \ {"idle", "undo"},
         op[o].status = "running", Sound(op[o], [op[o] EXCEPT !.pc = pc]),
         pc = "prepared" => PreparedNow(o),
         op' = [op EXCEPT ![o] = [op[o] EXCEPT !.pc = pc]]
  PROVE  OpsTurn
<1> DEFINE q == [op[o] EXCEPT !.pc = pc]
<1>1. RowOk(op[o]) /\ RowTurn(op[o]) /\ op[o] \in OpRow /\ op[o].pc # "idle"
  BY DEF DeliveryInv, RowsInv, RowOk, TurnInv, RowTurn
<1>2. /\ q.status = "running" /\ q.pc = pc /\ q.cancel = op[o].cancel /\ q.done = op[o].done
      /\ op[o].done <= op[o].done /\ Going(op[o])
  BY <1>1 DEF OpRow, Going
<1>3. Sound(op[o], q)
  OBVIOUS
<1> HIDE DEF q
<1>4. Turn(o, q)
  BY <1>1, <1>2, <1>3, GoingTurns
<1> QED
  BY <1>4, RowTurns DEF q

LEMMA Forwards ==
  /\ {"prepared", "build", "building", "reconcile", "await", "finished"} \subseteq OpPc \ {"idle", "undo"}
  /\ "prepared" \notin {"build", "building", "reconcile", "await", "finished"}
BY DEF OpPc

LEMMA RunnerTurns ==
  ASSUME DeliveryInv, TurnInv, ChildrenOk, TypesInv, NEW o \in Op, RunnerStep(o)
  PROVE  OpsTurn
<1> DEFINE r == op[o]
<1>1. RowOk(r) /\ RowTurn(r) /\ r \in OpRow /\ InStep(r)
  BY DEF DeliveryInv, RowsInv, RowOk, TurnInv
<1>2. CASE StepThrows(o) \/ AwaitThrows(o) \/ FinishRejected(o)
  <2>1. op[o].pc # "idle" /\ op' = [op EXCEPT ![o] = Failed(o, op[o])]
    BY <1>2 DEF StepThrows, AwaitThrows, FinishRejected, Running
  <2> QED
    BY <2>1, FailedTurns
<1>3. CASE StepReturns(o)
  <2>1. r.pc \in {"prepared", "building", "finished"}
        /\ op' = [op EXCEPT ![o] = Forward(o, r, r.done + 1)]
    BY <1>3 DEF StepReturns
  <2>2. /\ r.done + 1 \in 0 .. 4 /\ r.status = "running" /\ r.done <= r.done + 1
        /\ r.done + 1 > 0 => r.done > 0 \/ r.pc = "prepared"
        /\ r.done + 1 # 3
    BY <1>1, <2>1 DEF RowTurn, InStep
  <2> QED
    BY <2>1, <2>2, ForwardTurns
<1>4. CASE PrepareSource(o)
  <2>1. r.pc = "prepare" /\ op' = [op EXCEPT ![o] = [r EXCEPT !.pc = "prepared"]]
    BY <1>4 DEF PrepareSource, Running
  <2>2. Sound(r, [r EXCEPT !.pc = "prepared"]) /\ r.status = "running"
    BY <1>1, <2>1 DEF Sound, Follows, RowOk, InStep, OpRow, OpPc, RowTurn
  <2>3. PreparedNow(o)
    <3> DEFINE d == r.delivery
    <3>1. delivery' = IF delivery[d] = None THEN delivery ELSE Marked(d, "building")
      BY <1>4 DEF PrepareSource
    <3>2. d \in Delivery
      BY <1>1, <2>2 DEF RowOk
    <3>3. CASE delivery[d] = None
      BY <3>1, <3>3 DEF PreparedNow
    <3>4. CASE delivery[d] # None
      <4>1. d \in There(delivery) /\ delivery' = [delivery EXCEPT ![d].status = "building"]
        BY <3>1, <3>2, <3>4 DEF There, Marked
      <4>2. Table(delivery) /\ "building" \in Active \cup Settled
        BY DEF TypesInv, Active
      <4>3. delivery'[d].status = "building"
        BY <4>1, <4>2, MarkedTable
      <4> QED
        BY <4>3 DEF PreparedNow
    <3> QED
      BY <3>3, <3>4
  <2> QED
    BY <2>1, <2>2, <2>3, Forwards, PcTurns
<1>5. CASE BuildImages(o)
  <2>1. r.pc = "build" /\ op' = [op EXCEPT ![o] = [r EXCEPT !.pc = "building"]]
    BY <1>5 DEF BuildImages, Running
  <2>2. Sound(r, [r EXCEPT !.pc = "building"]) /\ r.status = "running"
    BY <1>1, <2>1 DEF Sound, Follows, RowOk, InStep, OpRow, OpPc, RowTurn
  <2> QED
    BY <2>1, <2>2, Forwards, PcTurns
<1>6. CASE ReconcileManifest(o)
  <2>1. r.pc = "reconcile" /\ op' = [op EXCEPT ![o] = [r EXCEPT !.pc = "await"]]
    BY <1>6 DEF ReconcileManifest, Running
  <2>2. Sound(r, [r EXCEPT !.pc = "await"]) /\ r.status = "running"
    BY <1>1, <2>1 DEF Sound, Follows, RowOk, InStep, OpRow, OpPc, RowTurn
  <2> QED
    BY <2>1, <2>2, Forwards, PcTurns
<1>7. CASE PassCancelOn(o)
  BY <1>7, AllTurn DEF PassCancelOn
<1>8. CASE ChildrenSettled(o)
  <2>1. r.pc = "await" /\ r.status = "running" /\ r.done = 2
    BY <1>1, <1>8 DEF ChildrenSettled, Running, RowTurn, InStep
  <2>2. CASE Enqueued(o) = Target
    <3>1. AllWell(o)
      <4> SUFFICES ASSUME NEW t \in Target PROVE SettledWell(child[o][t])
        BY DEF AllWell
      <4>1. child[o][t] \in ChildStatus /\ child[o][t] # "none"
        BY <2>2 DEF Enqueued, ChildrenOk
      <4>2. child[o][t] \notin {"pending", "running", "failed"}
        BY <1>8 DEF ChildrenSettled, Outstanding
      <4> QED
        BY <4>1, <4>2 DEF ChildStatus, SettledWell
    <3>2. op' = [op EXCEPT ![o] = Forward(o, op[o], 3)]
      BY <1>8, <2>2 DEF ChildrenSettled
    <3>3. 3 \in 0 .. 4 /\ op[o].done <= 3 /\ op[o].done > 0
      BY <2>1
    <3> QED
      BY <2>1, <3>1, <3>2, <3>3, ForwardTurns
  <2>3. CASE Enqueued(o) # Target
    <3>1. op' = [op EXCEPT ![o] = [r EXCEPT !.pc = "reconcile"]]
      BY <1>8, <2>3 DEF ChildrenSettled
    <3>2. Sound(r, [r EXCEPT !.pc = "reconcile"])
      BY <1>1, <2>1 DEF Sound, Follows, RowOk, InStep, OpRow, OpPc
    <3> QED
      BY <2>1, <3>1, <3>2, Forwards, PcTurns
  <2> QED
    BY <2>2, <2>3
<1>9. CASE FinishDelivery(o)
  <2>1. r.pc = "finish" /\ r.status = "running"
    BY <1>1, <1>9 DEF FinishDelivery, Running, RowTurn
  <2>2. CASE op' = [op EXCEPT ![o] = [r EXCEPT !.pc = "finished"]]
    <3>1. Sound(r, [r EXCEPT !.pc = "finished"])
      BY <1>1, <2>1 DEF Sound, Follows, RowOk, InStep, OpRow, OpPc
    <3> QED
      BY <2>1, <2>2, <3>1, Forwards, PcTurns
  <2>3. CASE op' = [op EXCEPT ![o] = Failed(o, r)]
    BY <2>1, <2>3, FailedTurns
  <2> QED
    BY <1>9, <2>2, <2>3 DEF FinishDelivery
<1>10. CASE UndoPrepare(o)
  <2> DEFINE s == IF r.cancelled THEN "cancelled" ELSE "compensated"
  <2>1. r.pc = "undo" /\ op' = [op EXCEPT ![o] = Finished(r, s)] /\ r.status = "compensating"
    BY <1>1, <1>10 DEF UndoPrepare, Running, RowTurn
  <2>2. s \in OpOver
    BY DEF OpOver
  <2>3. Sound(r, Finished(r, s)) /\ Halted(Finished(r, s)) /\ Finished(r, s).done = r.done
    BY <1>1, <2>1, <2>2, LiveIsKnown, FinishedIsSound, FinishedHalts
  <2>4. ~Waiting(r) /\ Unfinished(r)
    BY <2>1 DEF Waiting, Unfinished
  <2>5. Turn(o, Finished(r, s))
    <3>1. r.done <= r.done
      BY <1>1 DEF OpRow
    <3> QED
      BY <2>1, <2>3, <2>4, <3>1, HaltedTurns
  <2> QED
    BY <2>1, <2>5, RowTurns
<1>11. CASE UndoThrows(o)
  <2> DEFINE q == [r EXCEPT !.pc = "idle", !.stuck = TRUE]
  <2>1. r.pc = "undo" /\ op' = [op EXCEPT ![o] = q] /\ r.status = "compensating"
    BY <1>1, <1>11 DEF UndoThrows, Running, RowTurn
  <2>2. Sound(r, q)
    BY <1>1, <2>1 DEF Sound, Follows, RowOk, InStep, OpRow, OpPc
  <2>3. /\ q.pc = "idle" /\ q.status = "compensating" /\ q.done = r.done /\ q.delivery = r.delivery
        /\ r.done <= r.done
    BY <1>1, <2>1 DEF OpRow
  <2> HIDE DEF q
  <2>4. Turn(o, q)
    BY <1>1, <2>1, <2>2, <2>3 DEF Turn, Going, Unfinished, Waiting, OpOver, RowTurn
  <2> QED
    BY <2>1, <2>4, RowTurns
<1> QED
  BY <1>2, <1>3, <1>4, <1>5, <1>6, <1>7, <1>8, <1>9, <1>10, <1>11 DEF RunnerStep

LEMMA SweepTurns ==
  ASSUME DeliveryInv, TurnInv, NEW o \in Op, SweepExhausted(o)
  PROVE  OpsTurn
<1> DEFINE q == Finished(op[o], "compensation_failed")
<1>1. op[o].status = "compensating" /\ op[o].pc = "idle" /\ op' = [op EXCEPT ![o] = q]
  BY DEF SweepExhausted, Running
<1>2. "compensation_failed" \in OpOver /\ op[o] \in OpRow /\ Known(op[o])
  BY <1>1, LiveIsKnown DEF OpOver, DeliveryInv, RowsInv, RowOk
<1>3. Sound(op[o], q) /\ Halted(q) /\ q.done = op[o].done /\ q.status = "compensation_failed"
  BY <1>2, FinishedIsSound, FinishedHalts
<1>4. ~Waiting(op[o]) /\ Unfinished(op[o]) /\ op[o].done <= op[o].done
  BY <1>1, <1>2 DEF Waiting, Unfinished, OpRow
<1> HIDE DEF q
<1>5. Turn(o, q)
  BY <1>3, <1>4, HaltedTurns DEF Halted
<1> QED
  BY <1>1, <1>5, RowTurns
-----------------------------------------------------------------------------
(* What an ordinary step does to the children, the source, the table and   *)
(* the handler.                                                            *)

KidMoves(o, t) ==
  LET c == child[o][t]
      d == child'[o][t]
  IN  \/ d = c
      \/ c = "none" /\ d = "pending" /\ op[o].pc = "reconcile" /\ Fresh(o)
      \/ c = "pending" /\ d = "cancelled" /\ op[o].cancel
      \/ c = "pending" /\ d = "running"
           /\ \A p \in Op : child[p][t] # "running" /\ (p < o => child[p][t] # "pending")
      \/ c = "running" /\ d \in {"done", "failed", "cancelled"}
           /\ (d = "done" => app'[t] = op[o].delivery)

AppMoves(t) ==
  \/ app'[t] = app[t]
  \/ \E o \in Op : child[o][t] = "running" /\ child'[o][t] # "running" /\ app'[t] = op[o].delivery

KidsMove ==
  /\ ChildrenOk' /\ app' \in [Target -> Delivery \cup {None}]
  /\ \A o \in Op, t \in Target : KidMoves(o, t)
  /\ \A o, p \in Op : child'[o] # child[o] /\ child'[p] # child[p] => o = p
  /\ \A t \in Target : AppMoves(t)

SourceMoves ==
  /\ source' \in [last: Delivery \cup {None},
                  status: {"", "queued", "building", "deployed", "failed"}]
  /\ \/ source'.last = source.last
     \/ \E o \in Op :
          /\ op[o].pc = "finish" /\ Fresh(o) /\ source'.last = op[o].delivery
          /\ delivery[source'.last] # None /\ delivery[source'.last].status = "building"
             /\ delivery'[source'.last] # None => delivery'[source'.last].status = "deployed"

(* Who may mark row e, and how. *)
Marks(e, s) ==
  /\ Allowed(delivery[e].status, s)
  /\ \/ s \in {"stale", "duplicate"} /\ handling # None /\ e = handling.delivery
     \/ s = "superseded" /\ source.last # None
     \/ s = "building" /\ \E o \in Op : op[o].delivery = e /\ op[o].pc = "prepare"
                                        /\ delivery[e].op \in {0, o}
     \/ s = "deployed" /\ source'.last = e
          /\ \E o \in Op : op[o].delivery = e /\ op[o].pc = "finish" /\ Fresh(o)
     \/ s = "failed" /\ \E o \in Op : op[o].delivery = e /\ op[o].pc = "undo"
                                      /\ op'[o].status \in OpOver

RowMoves(e) ==
  /\ delivery'[e] # None =>
       /\ delivery[e] # None /\ delivery'[e].op = delivery[e].op
       /\ delivery'[e].status = delivery[e].status \/ Marks(e, delivery'[e].status)
  /\ delivery[e] # None /\ delivery[e].status \in Active =>
       delivery'[e] # None \/ \E s \in Settled : Marks(e, s)

RowsMove ==
  /\ Table(delivery')
  /\ \A e \in Delivery : RowMoves(e)
  /\ \A d \in Delivery : Timed(d) /\ Covers(delivery, d) => Covers(delivery', d)

HandlingMoves ==
  \/ handling' = None
  \/ \E less \in SUBSET Delivery :
       /\ handling # None /\ less \subseteq handling.older
       /\ handling' = [handling EXCEPT !.older = less]
  \/ handling' = handling

Ordinary == OpsTurn /\ KidsMove /\ SourceMoves /\ RowsMove /\ HandlingMoves

-----------------------------------------------------------------------------
LEMMA SameKids ==
  ASSUME ChildrenOk, TypesInv, child' = child, app' = app
  PROVE  KidsMove
<1>1. ChildrenOk' /\ app' \in [Target -> Delivery \cup {None}]
  BY DEF ChildrenOk, TypesInv
<1>2. \A o \in Op, t \in Target : KidMoves(o, t)
  BY DEF KidMoves
<1>3. \A t \in Target : AppMoves(t)
  BY DEF AppMoves
<1> QED
  BY <1>1, <1>2, <1>3 DEF KidsMove

LEMMA SameSource ==
  ASSUME TypesInv, source' = source
  PROVE  SourceMoves
BY DEF SourceMoves, TypesInv

LEMMA SameRows ==
  ASSUME TypesInv, delivery' = delivery
  PROVE  RowsMove
BY DEF RowsMove, RowMoves, TypesInv

LEMMA SameHandling ==
  ASSUME handling' = handling
  PROVE  HandlingMoves
BY DEF HandlingMoves

LEMMA CompactedMoves ==
  ASSUME TypesInv, UntimedBelow, delivery' = Compacted(delivery)
  PROVE  RowsMove
<1>1. Table(delivery)
  BY DEF TypesInv
<1>2. Table(delivery')
  BY <1>1, CompactedTable
<1>3. ASSUME NEW e \in Delivery PROVE RowMoves(e)
  BY <1>1, CompactedTable DEF RowMoves, There
<1>4. \A d \in Delivery : Timed(d) /\ Covers(delivery, d) => Covers(delivery', d)
  BY <1>1, CompactedCovers
<1> QED
  BY <1>2, <1>3, <1>4 DEF RowsMove

LEMMA MarkedMoves ==
  ASSUME TypesInv, UntimedBelow, NEW d \in There(delivery), NEW s \in Active \cup Settled, Marks(d, s),
         \/ delivery' = Marked(d, s)
         \/ delivery' = Compacted(Marked(d, s)) /\ s \in Settled
  PROVE  RowsMove
<1> DEFINE mid == Marked(d, s)
<1>1. Table(delivery) /\ d \in Delivery /\ delivery[d] # None
  BY DEF TypesInv, There
<1>2. mid = [delivery EXCEPT ![d].status = s]
  BY DEF Marked
<1> HIDE DEF mid
<1>3. /\ Table(mid) /\ There(mid) = There(delivery)
      /\ \A e \in Delivery \ {d} : mid[e] = delivery[e]
      /\ mid[d].status = s /\ mid[d].op = delivery[d].op
  <2>1. LET new == [delivery EXCEPT ![d].status = s]
        IN  /\ Table(new) /\ There(new) = There(delivery)
            /\ \A e \in Delivery \ {d} : new[e] = delivery[e]
            /\ new[d].status = s /\ new[d].op = delivery[d].op
    BY <1>1, MarkedTable
  <2> QED
    BY <1>2, <2>1
<1>4. \A e \in Delivery : Covers(delivery, e) => Covers(mid, e)
  BY <1>3 DEF Covers
<1>5. \A e \in Delivery : delivery[e] # None => mid[e] # None
  BY <1>3 DEF There
<1>6. \A e \in Delivery : mid[e] # None => delivery[e] # None
  BY <1>3 DEF There
<1>7. CASE delivery' = mid
  <2>1. \A e \in Delivery : RowMoves(e)
    BY <1>1, <1>3, <1>5, <1>6, <1>7 DEF RowMoves
  <2> QED
    BY <1>3, <1>4, <1>7, <2>1 DEF RowsMove
<1>8. CASE delivery' = Compacted(mid) /\ s \in Settled
  <2>1. /\ Table(delivery')
        /\ \A e \in Delivery : delivery'[e] # None =>
             mid[e] # None /\ delivery'[e].status = mid[e].status /\ delivery'[e].op = mid[e].op
        /\ \A e \in There(mid) : mid[e].status \in Active => delivery'[e] # None
    BY <1>3, <1>8, CompactedTable
  <2>2. ASSUME NEW e \in Delivery PROVE RowMoves(e)
    <3>1. CASE e = d
      BY <1>1, <1>3, <1>8, <2>1, <3>1 DEF RowMoves
    <3>2. CASE e # d
      <4>1. mid[e] = delivery[e] /\ (delivery[e] # None => e \in There(mid))
        BY <1>3, <3>2 DEF There
      <4> QED
        BY <2>1, <4>1 DEF RowMoves
    <3> QED
      BY <3>1, <3>2
  <2>3. \A e \in Delivery : Timed(e) /\ Covers(delivery, e) => Covers(delivery', e)
    BY <1>3, <1>4, <1>8, CompactedCovers
  <2> QED
    BY <2>1, <2>2, <2>3 DEF RowsMove
<1> QED
  BY <1>7, <1>8 DEF mid

-----------------------------------------------------------------------------
(* The steps of the engine and the operator's cancel are ordinary.         *)

LEMMA ReconcileMoves ==
  ASSUME ChildrenOk, TypesInv, NEW o \in Op, ReconcileManifest(o)
  PROVE  KidsMove
<1>1. PICK t \in Target : child' = [child EXCEPT ![o][t] = IF @ = "none" THEN "pending" ELSE @]
  BY DEF ReconcileManifest
<1>2. app' = app /\ op[o].pc = "reconcile" /\ Fresh(o)
  BY DEF ReconcileManifest, Running
<1>3. /\ child'[o][t] = IF child[o][t] = "none" THEN "pending" ELSE child[o][t]
      /\ \A s \in Target \ {t} : child'[o][s] = child[o][s]
      /\ \A p \in Op \ {o} : child'[p] = child[p]
  BY <1>1 DEF ChildrenOk
<1>4. ChildrenOk'
  BY <1>1 DEF ChildrenOk, ChildStatus
<1>5. \A p \in Op, s \in Target : KidMoves(p, s)
  BY <1>2, <1>3 DEF KidMoves
<1>6. \A s \in Target : AppMoves(s)
  BY <1>2 DEF AppMoves
<1> QED
  BY <1>2, <1>3, <1>4, <1>5, <1>6 DEF KidsMove, TypesInv

LEMMA PassCancelMoves ==
  ASSUME ChildrenOk, TypesInv, NEW o \in Op, PassCancelOn(o)
  PROVE  KidsMove
<1>1. child' = [child EXCEPT ![o] = [t \in Target |->
                  IF child[o][t] = "pending" THEN "cancelled" ELSE child[o][t]]]
  BY DEF PassCancelOn
<1>2. app' = app /\ op[o].cancel
  BY DEF PassCancelOn
<1>3. /\ \A t \in Target : child'[o][t] = IF child[o][t] = "pending" THEN "cancelled" ELSE child[o][t]
      /\ \A p \in Op \ {o} : child'[p] = child[p]
  BY <1>1 DEF ChildrenOk
<1>4. ChildrenOk'
  <2>1. \A t \in Target : (IF child[o][t] = "pending" THEN "cancelled" ELSE child[o][t]) \in ChildStatus
    BY DEF ChildrenOk, ChildStatus
  <2> QED
    BY <1>1, <2>1 DEF ChildrenOk
<1>5. \A p \in Op, s \in Target : KidMoves(p, s)
  BY <1>2, <1>3 DEF KidMoves
<1>6. \A s \in Target : AppMoves(s)
  BY <1>2 DEF AppMoves
<1> QED
  BY <1>2, <1>3, <1>4, <1>5, <1>6 DEF KidsMove, TypesInv

LEMMA ChildMoves ==
  ASSUME DeliveryInv, TurnInv, ChildrenOk, TypesInv, NEW o \in Op, NEW t \in Target, o \in Op,
         ChildStarts(o, t) \/ ChildEnds(o, t), op[o].delivery \in Delivery
  PROVE  KidsMove
<1>1. PICK s \in ChildStatus :
        /\ child' = [child EXCEPT ![o][t] = s]
        /\ \/ child[o][t] = "pending" /\ s = "running" /\ app' = app
              /\ \A p \in Op : child[p][t] # "running" /\ (p < o => child[p][t] # "pending")
           \/ child[o][t] = "running" /\ s \in {"done", "failed", "cancelled"}
              /\ \/ app' = [app EXCEPT ![t] = op[o].delivery]
                 \/ child'[o][t] # "done" /\ app' = app
  <2>1. CASE ChildStarts(o, t)
    BY <2>1 DEF ChildStarts, ChildStatus
  <2>2. CASE ChildEnds(o, t)
    BY <2>2 DEF ChildEnds, ChildStatus
  <2> QED
    BY <2>1, <2>2
<1>2. /\ child'[o][t] = s
      /\ \A u \in Target \ {t} : child'[o][u] = child[o][u]
      /\ \A p \in Op \ {o} : child'[p] = child[p]
  BY <1>1 DEF ChildrenOk
<1>3. ChildrenOk'
  BY <1>1 DEF ChildrenOk
<1>4. /\ app' \in [Target -> Delivery \cup {None}]
      /\ \A u \in Target \ {t} : app'[u] = app[u]
      /\ app'[t] = app[t] \/ (child[o][t] = "running" /\ s # "running" /\ app'[t] = op[o].delivery)
      /\ child[o][t] = "running" /\ s = "done" => app'[t] = op[o].delivery
  BY <1>1, <1>2 DEF TypesInv
<1>5. ASSUME NEW p \in Op, NEW u \in Target PROVE KidMoves(p, u)
  <2>1. CASE p = o /\ u = t
    BY <1>1, <1>2, <1>4, <2>1 DEF KidMoves
  <2>2. CASE ~(p = o /\ u = t)
    BY <1>2, <2>2 DEF KidMoves
  <2> QED
    BY <2>1, <2>2
<1>6. \A u \in Target : AppMoves(u)
  BY <1>2, <1>4 DEF AppMoves
<1> QED
  BY <1>2, <1>3, <1>4, <1>5, <1>6 DEF KidsMove

(* A child belongs to an operation that is in use. *)
LEMMA ChildsOperation ==
  ASSUME DeliveryInv, TurnInv, NEW o \in Op, NEW t \in Target, child[o][t] # "none"
  PROVE  op[o].status # "none" /\ op[o].delivery \in Delivery /\ ~Waiting(op[o])
<1>1. op[o].done # 0
  BY DEF TurnInv
<1> QED
  BY <1>1 DEF DeliveryInv, RowsInv, RowOk, TurnInv, RowTurn, Waiting

LEMMA RunnerIsOrdinary ==
  ASSUME Base, UntimedBelow, NEW o \in Op, RunnerStep(o)
  PROVE  Ordinary
<1> DEFINE r == op[o]
           d == r.delivery
<1>0. DeliveryInv /\ ChildrenOk /\ TypesInv /\ TurnInv
  BY DEF Base
<1>1. OpsTurn
  BY <1>0, RunnerTurns
<1>2. RowOk(r) /\ RowTurn(r) /\ r \in OpRow /\ InStep(r) /\ (r.pc # "idle" => d \in Delivery)
  BY <1>0 DEF DeliveryInv, RowsInv, RowOk, TurnInv
<1>3. HandlingMoves
  <2>1. handling' = handling
    BY DEF RunnerStep, StepThrows, StepReturns, PrepareSource, BuildImages, ReconcileManifest, PassCancelOn,
       AwaitThrows, ChildrenSettled, FinishDelivery, FinishRejected, UndoPrepare, UndoThrows
  <2> QED
    BY <2>1, SameHandling
<1>4. KidsMove
  <2>1. CASE ReconcileManifest(o) \/ PassCancelOn(o)
    BY <1>0, <2>1, ReconcileMoves, PassCancelMoves
  <2>2. CASE ~(ReconcileManifest(o) \/ PassCancelOn(o))
    <3>1. child' = child /\ app' = app
      BY <2>2 DEF RunnerStep, StepThrows, StepReturns, PrepareSource, BuildImages,
         AwaitThrows, ChildrenSettled, FinishDelivery, FinishRejected, UndoPrepare, UndoThrows
    <3> QED
      BY <1>0, <3>1, SameKids
  <2> QED
    BY <2>1, <2>2
<1>5. CASE PrepareSource(o)
  <2>1. /\ r.pc = "prepare" /\ source' = [source EXCEPT !.status = "building"]
        /\ delivery[d] # None => delivery[d].op \in {0, o} /\ CanBecome(d, "building")
        /\ delivery' = IF delivery[d] = None THEN delivery ELSE Marked(d, "building")
    BY <1>5 DEF PrepareSource, Running
  <2>2. SourceMoves
    BY <1>0, <2>1 DEF SourceMoves, TypesInv
  <2>3. RowsMove
    <3>1. CASE delivery[d] = None
      BY <1>0, <2>1, <3>1, SameRows
    <3>2. CASE delivery[d] # None
      <4>1. Marks(d, "building") /\ "building" \in Active \cup Settled
        BY <2>1, <3>2 DEF Marks, CanBecome, Active
      <4>2. d \in There(delivery)
        BY <1>2, <2>1, <3>2 DEF There
      <4> QED
        BY <1>0, <2>1, <3>2, <4>1, <4>2, MarkedMoves
    <3> QED
      BY <3>1, <3>2
  <2> QED
    BY <1>1, <1>3, <1>4, <2>2, <2>3 DEF Ordinary
<1>6. CASE FinishDelivery(o)
  <2>1. /\ r.pc = "finish" /\ Fresh(o) /\ source' = [last |-> d, status |-> "deployed"]
        /\ d \in Delivery
    BY <1>2, <1>6 DEF FinishDelivery, Running
  <2>2. CASE delivery[d] = None
    <3>1. delivery' = Compacted(delivery)
      BY <1>6, <2>2 DEF FinishDelivery
    <3>2. RowsMove
      BY <1>0, <3>1, CompactedMoves
    <3>3. SourceMoves
      BY <2>1, <2>2 DEF SourceMoves
    <3> QED
      BY <1>1, <1>3, <1>4, <3>2, <3>3 DEF Ordinary
  <2>3. CASE delivery[d] # None /\ CanBecome(d, "deployed")
    <3>1. delivery' = Compacted(Marked(d, "deployed"))
      BY <1>6, <2>3 DEF FinishDelivery
    <3>2. Marks(d, "deployed") /\ "deployed" \in Settled
      BY <2>1, <2>3 DEF Marks, CanBecome, Settled
    <3>3. d \in There(delivery)
      BY <2>1, <2>3 DEF There
    <3>4. RowsMove
      BY <1>0, <3>1, <3>2, <3>3, MarkedMoves
    <3>5. delivery'[d] # None => delivery'[d].status = "deployed"
      <4>0. Table(delivery) /\ "deployed" \in Active \cup Settled
        BY <1>0, <3>2 DEF TypesInv
      <4>1. LET new == [delivery EXCEPT ![d].status = "deployed"]
            IN  /\ Table(new) /\ There(new) = There(delivery)
                /\ \A e \in Delivery \ {d} : new[e] = delivery[e]
                /\ new[d].status = "deployed" /\ new[d].op = delivery[d].op
        BY <3>3, <4>0, MarkedTable
      <4>2. Table(Marked(d, "deployed")) /\ Marked(d, "deployed")[d].status = "deployed"
        BY <4>1 DEF Marked
      <4> QED
        BY <2>1, <3>1, <4>2, CompactedTable
    <3>6. SourceMoves
      BY <2>1, <3>5 DEF SourceMoves
    <3> QED
      BY <1>1, <1>3, <1>4, <3>4, <3>6 DEF Ordinary
  <2>4. CASE delivery[d] # None /\ ~CanBecome(d, "deployed")
    <3>1. delivery' = delivery
      BY <1>6, <2>4 DEF FinishDelivery
    <3>2. delivery[d].status # "building"
      BY <2>4 DEF CanBecome, Allowed
    <3>3. SourceMoves
      BY <2>1, <3>2 DEF SourceMoves
    <3> QED
      BY <1>0, <1>1, <1>3, <1>4, <3>1, <3>3, SameRows DEF Ordinary
  <2> QED
    BY <2>2, <2>3, <2>4
<1>7. CASE UndoPrepare(o)
  <2> DEFINE open == delivery[d] # None /\ delivery[d].status \notin {"stale", "superseded"}
  <2>1. /\ r.pc = "undo" /\ d \in Delivery
        /\ open => CanBecome(d, "failed")
        /\ delivery' = Compacted(IF open THEN Marked(d, "failed") ELSE delivery)
        /\ source' = IF source.last \in {None, d} THEN [source EXCEPT !.status = "failed"] ELSE source
        /\ op' = [op EXCEPT ![o] = Finished(r, IF r.cancelled THEN "cancelled" ELSE "compensated")]
    BY <1>2, <1>7 DEF UndoPrepare, Running
  <2>2. SourceMoves
    BY <1>0, <2>1 DEF SourceMoves, TypesInv
  <2>3. RowsMove
    <3>1. CASE ~open
      BY <1>0, <2>1, <3>1, CompactedMoves
    <3>2. CASE open
      <4>1. op'[o].status \in OpOver
        <5>1. (IF r.cancelled THEN "cancelled" ELSE "compensated") \in OpOver
          BY DEF OpOver
        <5>2. op'[o] = Finished(r, IF r.cancelled THEN "cancelled" ELSE "compensated")
          BY <1>0, <2>1 DEF DeliveryInv, RowsInv
        <5> QED
          BY <1>2, <5>1, <5>2, FinishedHalts
      <4>2. Marks(d, "failed") /\ "failed" \in Settled
        BY <2>1, <3>2, <4>1 DEF Marks, CanBecome, Settled
      <4>3. d \in There(delivery)
        BY <2>1, <3>2 DEF There
      <4> QED
        BY <1>0, <2>1, <3>2, <4>2, <4>3, MarkedMoves
    <3> QED
      BY <3>1, <3>2
  <2> QED
    BY <1>1, <1>3, <1>4, <2>2, <2>3 DEF Ordinary
<1>8. CASE ~PrepareSource(o) /\ ~FinishDelivery(o) /\ ~UndoPrepare(o)
  <2>1. delivery' = delivery /\ source' = source
    BY <1>8 DEF RunnerStep, StepThrows, StepReturns, BuildImages, ReconcileManifest, PassCancelOn,
       AwaitThrows, ChildrenSettled, FinishRejected, UndoThrows
  <2> QED
    BY <1>0, <1>1, <1>3, <1>4, <2>1, SameSource, SameRows DEF Ordinary
<1> QED
  BY <1>5, <1>6, <1>7, <1>8

LEMMA EngineIsOrdinary ==
  ASSUME Base, UntimedBelow, EngineStep
  PROVE  Ordinary
<1>0. DeliveryInv /\ ChildrenOk /\ TypesInv /\ TurnInv
  BY DEF Base
<1>1. PICK o \in Op : \/ Start(o) \/ RunnerStep(o) \/ SweepExhausted(o)
                      \/ \E t \in Target : ChildStarts(o, t) \/ ChildEnds(o, t)
  BY DEF EngineStep
<1>2. CASE Start(o) \/ SweepExhausted(o)
  <2>1. /\ delivery' = delivery /\ source' = source /\ handling' = handling
        /\ child' = child /\ app' = app
    BY <1>2 DEF Start, SweepExhausted
  <2>2. OpsTurn
    BY <1>0, <1>2, StartTurns, SweepTurns
  <2> QED
    BY <1>0, <2>1, <2>2, SameKids, SameSource, SameRows, SameHandling DEF Ordinary
<1>3. CASE RunnerStep(o)
  BY <1>3, RunnerIsOrdinary
<1>4. ASSUME NEW t \in Target, ChildStarts(o, t) \/ ChildEnds(o, t) PROVE Ordinary
  <2>1. delivery' = delivery /\ source' = source /\ handling' = handling /\ op' = op
    BY <1>4 DEF ChildStarts, ChildEnds
  <2>2. child[o][t] # "none"
    BY <1>4 DEF ChildStarts, ChildEnds
  <2>3. op[o].delivery \in Delivery
    BY <1>0, <2>2, ChildsOperation
  <2>4. KidsMove
    BY <1>0, <1>4, <2>3, ChildMoves
  <2> QED
    BY <1>0, <2>1, <2>4, AllTurn, SameSource, SameRows, SameHandling DEF Ordinary
<1> QED
  BY <1>1, <1>2, <1>3, <1>4

LEMMA OperatorIsOrdinary ==
  ASSUME Base, UntimedBelow, EngineCrash \/ \E o \in Op : CancelOperation(o)
  PROVE  Ordinary
<1>0. DeliveryInv /\ ChildrenOk /\ TypesInv /\ TurnInv
  BY DEF Base
<1>1. /\ delivery' = delivery /\ source' = source /\ handling' = handling
      /\ child' = child /\ app' = app
  BY DEF EngineCrash, CancelOperation
<1>2. CASE EngineCrash
  BY <1>0, <1>1, <1>2, CrashTurns, SameKids, SameSource, SameRows, SameHandling DEF Ordinary
<1>3. ASSUME NEW o \in Op, CancelOperation(o) PROVE Ordinary
  <2>1. op' = [op EXCEPT ![o] = CancelAsked(op[o])]
    BY <1>3 DEF CancelOperation
  <2>2. OpsTurn
    BY <1>0, <2>1, CancelTurns, RowTurns
  <2> QED
    BY <1>0, <1>1, <2>2, SameKids, SameSource, SameRows, SameHandling DEF Ordinary
<1> QED
  BY <1>2, <1>3

(* So are the steps of the handler that only mark rows, or end it.         *)
LEMMA HandlerIsOrdinary ==
  ASSUME Base, UntimedBelow, HandlerInv,
         MarkStale \/ AttachThrows \/ MarkDuplicate \/ AnswerAccepted \/ ServerCrash
         \/ \E e \in Delivery : Supersede(e)
  PROVE  Ordinary
<1> DEFINE h == handling.delivery
<1>0. DeliveryInv /\ ChildrenOk /\ TypesInv /\ TurnInv
  BY DEF Base
<1>1. source' = source /\ child' = child /\ app' = app
  BY DEF MarkStale, AttachThrows, MarkDuplicate, AnswerAccepted, ServerCrash, Supersede
<1>2. KidsMove /\ SourceMoves
  BY <1>0, <1>1, SameKids, SameSource
<1>3. handling # None /\ h \in Delivery /\ handling.older \in SUBSET Delivery
  BY <1>0 DEF MarkStale, AttachThrows, MarkDuplicate, AnswerAccepted, ServerCrash, Supersede, At,
     DeliveryInv, RowsInv, HandlingOk
<1>4. ASSUME NEW e \in Delivery, NEW s \in Settled, CanBecome(e, s),
             \/ s \in {"stale", "duplicate"} /\ e = h
             \/ s = "superseded" /\ source.last # None,
             delivery' = Marked(e, s) \/ delivery' = Compacted(Marked(e, s))
      PROVE  RowsMove
  <2>1. Marks(e, s) /\ e \in There(delivery)
    BY <1>3, <1>4 DEF Marks, CanBecome, There
  <2> QED
    BY <1>0, <1>4, <2>1, MarkedMoves
<1>5. CASE MarkStale \/ MarkDuplicate
  <2>1. PICK s \in {"stale", "duplicate"} :
          delivery' = IF CanBecome(h, s) THEN Compacted(Marked(h, s)) ELSE delivery
    BY <1>5 DEF MarkStale, MarkDuplicate
  <2>2. RowsMove
    BY <1>0, <1>3, <1>4, <2>1, SameRows DEF Settled
  <2>3. op' = op /\ handling' = None
    BY <1>5 DEF MarkStale, MarkDuplicate, Answered
  <2> QED
    BY <1>0, <1>2, <2>2, <2>3, AllTurn DEF Ordinary, HandlingMoves
<1>6. CASE AttachThrows
  BY <1>0, <1>2, <1>6, AllTurn, SameRows DEF AttachThrows, Answered, Ordinary, HandlingMoves
<1>7. CASE AnswerAccepted
  BY <1>0, <1>2, <1>7, AllTurn, CompactedMoves DEF AnswerAccepted, Answered, Ordinary, HandlingMoves
<1>8. CASE ServerCrash
  <2>1. op' = op /\ handling' = None
    BY <1>8 DEF ServerCrash, Answered
  <2>2. RowsMove
    <3>1. CASE delivery' = delivery
      BY <1>0, <3>1, SameRows
    <3>2. CASE delivery' # delivery
      <4>1. PICK e \in handling.older : CanBecome(e, "superseded") /\ delivery' = Marked(e, "superseded")
        BY <1>8, <3>2 DEF ServerCrash
      <4>2. source.last # None /\ e \in Delivery
        BY <1>3 DEF HandlerInv
      <4> QED
        BY <1>4, <4>1, <4>2 DEF Settled
    <3> QED
      BY <3>1, <3>2
  <2> QED
    BY <1>0, <1>2, <2>1, <2>2, AllTurn DEF Ordinary, HandlingMoves
<1>9. ASSUME NEW e \in Delivery, Supersede(e) PROVE Ordinary
  <2>1. handling.older # {} /\ source.last # None
    BY <1>3, <1>9 DEF Supersede, HandlerInv
  <2>2. CASE CanBecome(e, "superseded")
    <3>1. /\ delivery' = Marked(e, "superseded")
          /\ op' = IF delivery[e].op = 0 THEN op ELSE [op EXCEPT ![delivery[e].op] = CancelAsked(@)]
          /\ handling' = [handling EXCEPT !.older = handling.older \ {e}]
      BY <1>9, <2>2 DEF Supersede
    <3>2. RowsMove
      BY <1>4, <2>1, <2>2, <3>1 DEF Settled
    <3>3. OpsTurn
      <4> DEFINE o == delivery[e].op
      <4>1. e \in There(delivery) /\ Table(delivery)
        BY <1>0, <2>2 DEF CanBecome, There, TypesInv
      <4>2. o \in Op \cup {0}
        BY <4>1, RowThere DEF DeliveryRow
      <4>3. CASE o = 0
        BY <1>0, <3>1, <4>3, AllTurn
      <4>4. CASE o # 0
        <5>1. o \in Op /\ op' = [op EXCEPT ![o] = CancelAsked(op[o])]
          BY <3>1, <4>2, <4>4
        <5> HIDE DEF o
        <5>2. Turn(o, CancelAsked(op[o]))
          BY <1>0, <5>1, CancelTurns
        <5> QED
          BY <1>0, <5>1, <5>2, RowTurns
      <4> QED
        BY <4>3, <4>4
    <3>4. HandlingMoves
      <4>1. handling.older \ {e} \in SUBSET Delivery
        BY <1>3
      <4> QED
        BY <1>3, <3>1, <4>1 DEF HandlingMoves
    <3> QED
      BY <1>2, <3>2, <3>3, <3>4 DEF Ordinary
  <2>3. CASE ~CanBecome(e, "superseded")
    <3>1. delivery' = delivery /\ op' = op /\ handling' = None
      BY <1>9, <2>3 DEF Supersede, Answered
    <3> QED
      BY <1>0, <1>2, <3>1, AllTurn, SameRows DEF Ordinary, HandlingMoves
  <2> QED
    BY <2>2, <2>3
<1> QED
  BY <1>5, <1>6, <1>7, <1>8, <1>9
-----------------------------------------------------------------------------
(* An ordinary step keeps the invariant.                                   *)

LEMMA OrdinaryTurns ==
  ASSUME Base, Ordinary
  PROVE  TurnInv'
<1>0. /\ DeliveryInv /\ ChildrenOk /\ TurnInv
      /\ \A o \in Op : Turn(o, op'[o]) /\ OneRunner(o)
      /\ \A o \in Op, t \in Target : KidMoves(o, t)
  BY DEF Base, Ordinary, OpsTurn, KidsMove
<1>1. \A o \in Op : RowTurn(op'[o])
  BY <1>0 DEF Turn
<1>2. \A o \in Op : (op'[o].status = "none") = (op[o].status = "none")
  BY <1>0 DEF Turn, Sound, Follows
<1>3. \A o, p \in Op : p < o /\ op'[o].status # "none" => op'[p].status # "none"
  BY <1>0, <1>2 DEF TurnInv
<1>4. ASSUME NEW o \in Op, NEW p \in Op, op'[o].pc # "idle", op'[p].pc # "idle", o # p PROVE FALSE
  <2>1. CASE op[o].pc # "idle" /\ op[p].pc # "idle"
    BY <1>0, <1>4, <2>1 DEF TurnInv
  <2>2. CASE op[o].pc = "idle"
    <3>1. KeyFree /\ op'[p] = op[p]
      BY <1>0, <1>4, <2>2 DEF Turn, OneRunner
    <3> QED
      BY <1>4, <3>1 DEF KeyFree
  <2>3. CASE op[p].pc = "idle"
    <3>1. KeyFree /\ op'[o] = op[o]
      BY <1>0, <1>4, <2>3 DEF Turn, OneRunner
    <3> QED
      BY <1>4, <3>1 DEF KeyFree
  <2> QED
    BY <2>1, <2>2, <2>3
<1>5. ASSUME NEW o \in Op, NEW p \in Op, o < p, Going(op'[o]) PROVE Waiting(op'[p])
  <2>1. Going(op[o]) /\ Waiting(op[p])
    BY <1>0, <1>5 DEF Turn, TurnInv
  <2>2. ~Free(p)
    <3>1. op[o].status = "pending" \/ op[o].pc # "idle"
      BY <1>0, <2>1 DEF Going, TurnInv, RowTurn
    <3> QED
      BY <1>5, <3>1 DEF Free, KeyFree
  <2> QED
    BY <1>0, <2>1, <2>2 DEF Turn
<1>6. ASSUME NEW o \in Op, NEW t \in Target, op'[o].done = 0 PROVE child'[o][t] = "none"
  <2>1. op[o].done = 0
    <3>1. op[o] \in OpRow /\ op[o].done <= op'[o].done
      BY <1>0 DEF DeliveryInv, RowsInv, RowOk, Turn
    <3> QED
      BY <1>6, <3>1 DEF OpRow
  <2>2. child[o][t] = "none" /\ op[o].pc # "reconcile"
    BY <1>0, <2>1 DEF TurnInv, DeliveryInv, RowsInv, RowOk, InStep
  <2> QED
    BY <1>0, <2>2 DEF KidMoves
<1> QED
  BY <1>1, <1>3, <1>4, <1>5, <1>6 DEF TurnInv

LEMMA OrdinaryKids ==
  ASSUME Base, Ordinary
  PROVE  ChildInv'
<1>0. /\ DeliveryInv /\ ChildrenOk /\ TurnInv /\ ChildInv
      /\ \A o \in Op : Turn(o, op'[o])
      /\ \A o \in Op, t \in Target : KidMoves(o, t)
      /\ \A t \in Target : AppMoves(t)
      /\ \A o, p \in Op : child'[o] # child[o] /\ child'[p] # child[p] => o = p
  BY DEF Base, Ordinary, OpsTurn, KidsMove
<1>1. \A o \in Op : op'[o].delivery = op[o].delivery /\ (Going(op'[o]) => Going(op[o]))
  BY <1>0 DEF Turn, Sound, Follows
<1>2. \A o \in Op : RowOk(op[o]) /\ RowTurn(op[o])
  BY <1>0 DEF DeliveryInv, RowsInv, TurnInv

(* The app only changes by a child that runs, and that is not behind one   *)
(* that is done and whose operation is not.                                *)
<1>3. ASSUME NEW o \in Op, NEW t \in Target, Going(op[o]), child[o][t] = "done"
      PROVE  app'[t] = app[t]
  <2> SUFFICES ASSUME app'[t] # app[t] PROVE FALSE
    OBVIOUS
  <2>1. PICK p \in Op : child[p][t] = "running"
    BY <1>0 DEF AppMoves
  <2>2. ~(p < o)
    BY <1>0, <1>3, <2>1 DEF ChildInv, Served, Queued
  <2>3. ~(o < p)
    <3>1. o < p => op[p].done = 0
      BY <1>0, <1>3 DEF TurnInv, Waiting
    <3> QED
      BY <1>0, <2>1, <3>1 DEF TurnInv
  <2>4. o # p
    BY <1>3, <2>1
  <2>5. Op \subseteq Int
    BY DEF Op
  <2> HIDE DEF Op
  <2> QED
    BY <2>2, <2>3, <2>4, <2>5
<1>4. ASSUME NEW o \in Op, NEW t \in Target, Going(op'[o]), op'[o].done = 3
      PROVE  SettledWell(child'[o][t])
  <2>1. Going(op[o]) /\ SettledWell(child[o][t])
    BY <1>0, <1>1, <1>4 DEF Turn, AllWell, ChildInv
  <2> QED
    BY <1>0, <2>1 DEF KidMoves, SettledWell
<1>5. ASSUME NEW o \in Op, NEW t \in Target, Going(op'[o]), child'[o][t] = "done"
      PROVE  app'[t] = op'[o].delivery
  <2>1. Going(op[o])
    BY <1>1, <1>5
  <2>2. CASE child[o][t] = "done"
    BY <1>0, <1>1, <1>3, <2>1, <2>2 DEF ChildInv
  <2>3. CASE child[o][t] # "done"
    BY <1>0, <1>1, <1>5, <2>3 DEF KidMoves
  <2> QED
    BY <2>2, <2>3
<1>6. ASSUME NEW o \in Op, NEW p \in Op, NEW t \in Target, p < o, Going(op'[o]), Served(o, t)'
      PROVE  ~Queued(child'[p][t])
  <2> SUFFICES ASSUME Queued(child'[p][t]) PROVE FALSE
    OBVIOUS
  <2>0. o # p /\ Going(op[o]) /\ (op[o].cancel => op'[o].cancel)
    <3>1. Op \subseteq Int
      BY DEF Op
    <3> HIDE DEF Op
    <3> QED
      BY <1>0, <1>1, <1>6, <3>1 DEF Turn
  <2>1. child[o][t] # "none"
    <3>1. CASE child[o][t] = "none"
      <4>1. child'[o][t] \notin {"none", "pending"}
        BY <1>6 DEF Served
      <4> QED
        BY <1>0, <3>1, <4>1 DEF KidMoves
    <3> QED
      BY <3>1
  <2>2. Queued(child[p][t])
    <3>1. CASE child[p][t] = "none"
      <4>1. op[p].pc = "reconcile"
        BY <1>0, <3>1 DEF KidMoves, Queued
      <4>2. Going(op[p])
        BY <1>2, <4>1 DEF RowTurn, Going
      <4>3. op[o].done = 0
        BY <1>0, <1>6, <4>2 DEF TurnInv, Waiting
      <4> QED
        BY <1>0, <2>1, <4>3 DEF TurnInv
    <3>2. CASE child[p][t] # "none"
      BY <1>0, <3>2 DEF KidMoves, Queued
    <3> QED
      BY <3>1, <3>2
  <2>3. ~Served(o, t)
    BY <1>0, <1>6, <2>0, <2>2 DEF ChildInv
  <2>4. child[o][t] = "pending" /\ child'[o][t] # "pending"
    <3>1. child[o][t] = "cancelled" => op[o].cancel
      BY <2>3 DEF Served
    <3>2. child[o][t] # "cancelled"
      BY <1>0, <1>6, <2>0, <3>1 DEF KidMoves, Served
    <3>3. child[o][t] \in ChildStatus
      BY <1>0 DEF ChildrenOk
    <3> QED
      BY <1>6, <2>1, <2>3, <3>2, <3>3 DEF Served, ChildStatus
  <2>5. CASE child'[o][t] = "cancelled"
    BY <1>0, <1>6, <2>0, <2>4, <2>5 DEF KidMoves, Served
  <2>6. CASE child'[o][t] = "running"
    BY <1>0, <1>6, <2>2, <2>4, <2>6 DEF KidMoves, Queued
  <2> QED
    BY <1>0, <2>4, <2>5, <2>6 DEF KidMoves
<1>7. ASSUME NEW t \in Target, app'[t] # None
      PROVE  \E p \in Op : op'[p].delivery = app'[t] /\ child'[p][t] # "none"
  <2>1. PICK p \in Op : op[p].delivery = app'[t] /\ child[p][t] # "none"
    <3>1. CASE app'[t] = app[t]
      BY <1>0, <1>7, <3>1 DEF ChildInv
    <3>2. CASE app'[t] # app[t]
      BY <1>0, <3>2 DEF AppMoves
    <3> QED
      BY <3>1, <3>2
  <2>2. child'[p][t] # "none"
    BY <1>0, <2>1 DEF KidMoves
  <2> QED
    BY <1>1, <2>1, <2>2
<1> QED
  BY <1>4, <1>5, <1>6, <1>7 DEF ChildInv

(* When an operation finishes, nothing that is on its way belongs to       *)
(* another, and all its children have come to a good end.                  *)
LEMMA AtFinish ==
  ASSUME Base, NEW o \in Op, op[o].pc = "finish", Fresh(o)
  PROVE  /\ Going(op[o]) /\ op[o].done = 3 /\ op[o].delivery \in Delivery
         /\ source.last \in {None, op[o].delivery}
         /\ \A t \in Target : SettledWell(child[o][t])
         /\ \A t \in Target : child[o][t] = "done" => app[t] = op[o].delivery
         /\ \A p \in Op, t \in Target : ~Queued(child[p][t])
         /\ \A p \in Op, t \in Target : child[p][t] # "none" => p <= o
<1>0. DeliveryInv /\ TurnInv /\ ChildInv
  BY DEF Base
<1>1. RowOk(op[o]) /\ RowTurn(op[o]) /\ ~op[o].cancel /\ source.last \in {None, op[o].delivery}
  BY <1>0 DEF DeliveryInv, RowsInv, TurnInv, Fresh
<1>2. Going(op[o]) /\ op[o].done = 3 /\ op[o].delivery \in Delivery
  BY <1>1 DEF RowOk, RowTurn, InStep, Going
<1>3. \A t \in Target : SettledWell(child[o][t]) /\ (child[o][t] = "done" => app[t] = op[o].delivery)
  BY <1>0, <1>2 DEF ChildInv
<1>4. ASSUME NEW p \in Op, NEW t \in Target, child[p][t] # "none" PROVE p <= o
  <2>1. o < p => op[p].done = 0
    BY <1>0, <1>2 DEF TurnInv, Waiting
  <2>2. ~(o < p)
    BY <1>0, <1>4, <2>1 DEF TurnInv
  <2>3. Op \subseteq Int
    BY DEF Op
  <2> HIDE DEF Op
  <2> QED
    BY <2>2, <2>3
<1>5. ASSUME NEW p \in Op, NEW t \in Target, Queued(child[p][t]) PROVE FALSE
  <2>1. p <= o
    BY <1>4, <1>5 DEF Queued
  <2>2. p # o
    BY <1>3, <1>5 DEF Queued, SettledWell
  <2>3. Served(o, t)
    BY <1>1, <1>3 DEF Served, SettledWell
  <2>4. ~(p < o)
    BY <1>0, <1>2, <1>5, <2>3 DEF ChildInv
  <2>5. Op \subseteq Int
    BY DEF Op
  <2> HIDE DEF Op
  <2> QED
    BY <2>1, <2>2, <2>4, <2>5
<1> QED
  BY <1>1, <1>2, <1>3, <1>4, <1>5

LEMMA NotOlderThanItself ==
  ASSUME NEW d \in Delivery PROVE ~OlderEvent(d, d)
BY TimedType DEF OlderEvent

(* No step queues a child while an operation is at its end. *)
LEMMA QueuedBefore ==
  ASSUME Base, Ordinary, NEW p \in Op, NEW t \in Target, Queued(child'[p][t])
  PROVE  Queued(child[p][t]) \/ (child[p][t] = "none" /\ op[p].pc = "reconcile" /\ Fresh(p))
<1>1. KidMoves(p, t)
  BY DEF Ordinary, KidsMove
<1> QED
  BY <1>1 DEF KidMoves, Queued

LEMMA OrdinaryDeployed ==
  ASSUME Base, Ordinary, NEW d \in Deployed'
  PROVE  /\ d \in Delivery
         /\ \/ d \in Deployed
            \/ source'.last = d /\ \E o \in Op : op[o].delivery = d /\ op[o].pc = "finish" /\ Fresh(o)
<1>1. d \in Delivery /\ delivery'[d] # None /\ delivery'[d].status = "deployed" /\ RowMoves(d)
  BY DEF Ordinary, RowsMove, Deployed, Recorded
<1> QED
  BY <1>1 DEF RowMoves, Marks, Deployed, Recorded

LEMMA OrdinaryAhead ==
  ASSUME Base, AheadInv, Ordinary
  PROVE  AheadInv'
<1>0. /\ DeliveryInv /\ ChildrenOk /\ TypesInv /\ TurnInv /\ ChildInv
      /\ \A o \in Op : Turn(o, op'[o])
      /\ SourceMoves
  BY DEF Base, Ordinary, OpsTurn
<1>1. \A o \in Op : op'[o].delivery = op[o].delivery
  BY <1>0 DEF Turn, Sound, Follows
<1>2. source.last # None => source'.last # None
  BY <1>0, DeliveriesAssumption, AtFinish DEF SourceMoves
<1>3. ASSUME NEW p \in Op, NEW t \in Target, Queued(child'[p][t]), NEW d \in Deployed'
      PROVE  ~OlderEvent(op[p].delivery, d)
  <2>1. CASE d \in Deployed
    <3>1. CASE Queued(child[p][t])
      BY <2>1, <3>1 DEF AheadInv, Ahead
    <3>2. CASE op[p].pc = "reconcile" /\ Fresh(p)
      BY <2>1, <3>2 DEF AheadInv, Ahead, Fresh
    <3> QED
      BY <1>3, <3>1, <3>2, QueuedBefore
  <2>2. CASE d \notin Deployed
    <3>1. PICK o \in Op : op[o].delivery = d /\ op[o].pc = "finish" /\ Fresh(o)
      BY <2>2, OrdinaryDeployed
    <3>2. ~Queued(child[p][t])
      BY <3>1, AtFinish
    <3>3. op[p].pc = "reconcile"
      BY <1>3, <3>2, QueuedBefore
    <3> QED
      BY <1>0, <3>1, <3>3 DEF TurnInv
  <2> QED
    BY <2>1, <2>2
<1>4. ASSUME NEW d \in Deployed' PROVE source'.last # None /\ ~OlderEvent(source'.last, d)
  <2>1. d \in Delivery
    BY OrdinaryDeployed
  <2>2. CASE source'.last = d
    BY <2>1, <2>2, NotOlderThanItself, DeliveriesAssumption
  <2>3. CASE source'.last # d
    <3>1. d \in Deployed /\ source.last # None /\ ~OlderEvent(source.last, d)
      BY <2>3, OrdinaryDeployed DEF AheadInv, Ahead
    <3>2. source'.last = source.last
      <4>1. CASE source'.last # source.last
        <5>1. PICK o \in Op : op[o].pc = "finish" /\ Fresh(o) /\ source'.last = op[o].delivery
          BY <1>0, <4>1 DEF SourceMoves
        <5>2. source.last = op[o].delivery
          BY <3>1, <5>1, AtFinish
        <5> QED
          BY <4>1, <5>1, <5>2
      <4> QED
        BY <4>1
    <3> QED
      BY <3>1, <3>2
  <2> QED
    BY <2>2, <2>3
<1> QED
  BY <1>1, <1>3, <1>4 DEF AheadInv, Ahead

LEMMA OrdinaryServed ==
  ASSUME Base, AheadInv, DeployedIsServed, Ordinary
  PROVE  DeployedIsServed'
<1>0. /\ DeliveryInv /\ ChildrenOk /\ TypesInv /\ TurnInv /\ ChildInv
      /\ \A o \in Op : Turn(o, op'[o])
      /\ \A o \in Op, t \in Target : KidMoves(o, t)
      /\ \A t \in Target : AppMoves(t)
  BY DEF Base, Ordinary, OpsTurn, KidsMove
<1>1. \A o \in Op : op'[o].delivery = op[o].delivery
  BY <1>0 DEF Turn, Sound, Follows
<1>2. \A o \in Op, t \in Target : child[o][t] # "none" => op[o].delivery \in Delivery
  BY <1>0, ChildsOperation
<1> DEFINE Serves(o, d) == \A t \in Target :
             \/ child[o][t] = "cancelled"
             \/ child[o][t] = "done" /\ app[t] # None /\ ~OlderEvent(app[t], d)
<1>3. ASSUME NEW d \in Deployed, NEW o \in Op, op[o].delivery = d, Serves(o, d), NEW t \in Target
      PROVE  \/ child'[o][t] = "cancelled"
             \/ child'[o][t] = "done" /\ app'[t] # None /\ ~OlderEvent(app'[t], d)
  <2>1. child'[o][t] = child[o][t]
    <3>1. child[o][t] \in {"cancelled", "done"}
      BY <1>3
    <3> QED
      BY <1>0, <3>1 DEF KidMoves
  <2>2. CASE app'[t] = app[t]
    BY <1>3, <2>1, <2>2
  <2>3. CASE app'[t] # app[t]
    <3>1. PICK p \in Op : child[p][t] = "running" /\ app'[t] = op[p].delivery
      BY <1>0, <2>3 DEF AppMoves
    <3>2. app'[t] # None
      BY <1>2, <3>1, DeliveriesAssumption
    <3>3. ~OlderEvent(app'[t], d)
      BY <3>1 DEF AheadInv, Ahead, Queued
    <3> QED
      BY <1>3, <2>1, <3>2, <3>3
  <2> QED
    BY <2>2, <2>3
<1>4. ASSUME NEW d \in Deployed'
      PROVE  \E o \in Op :
               /\ op'[o].delivery = d
               /\ \A t \in Target :
                    \/ child'[o][t] = "cancelled"
                    \/ child'[o][t] = "done" /\ app'[t] # None /\ ~OlderEvent(app'[t], d)
  <2>1. CASE d \in Deployed
    <3>1. PICK o \in Op : op[o].delivery = d /\ Serves(o, d)
      BY <2>1 DEF DeployedIsServed, Deployed
    <3> HIDE DEF Serves
    <3>2. \A t \in Target : \/ child'[o][t] = "cancelled"
                            \/ child'[o][t] = "done" /\ app'[t] # None /\ ~OlderEvent(app'[t], d)
      BY <1>3, <2>1, <3>1
    <3> QED
      BY <1>1, <3>1, <3>2
  <2>2. CASE d \notin Deployed
    <3>1. PICK o \in Op : op[o].delivery = d /\ op[o].pc = "finish" /\ Fresh(o)
      BY <2>2, OrdinaryDeployed
    <3>2. d \in Delivery
      BY OrdinaryDeployed
    <3>3. ASSUME NEW t \in Target
          PROVE  \/ child'[o][t] = "cancelled"
                 \/ child'[o][t] = "done" /\ app'[t] # None /\ ~OlderEvent(app'[t], d)
      <4>1. SettledWell(child[o][t]) /\ (child[o][t] = "done" => app[t] = d)
        BY <3>1, AtFinish
      <4>2. child'[o][t] = child[o][t]
        BY <1>0, <4>1 DEF KidMoves, SettledWell
      <4>3. app'[t] = app[t]
        <5>1. \A p \in Op : child[p][t] # "running"
          BY <3>1, AtFinish DEF Queued
        <5> QED
          BY <1>0, <5>1 DEF AppMoves
      <4> QED
        BY <3>2, <4>1, <4>2, <4>3, NotOlderThanItself, DeliveriesAssumption DEF SettledWell
    <3> QED
      BY <1>1, <3>1, <3>3
  <2> QED
    BY <2>1, <2>2
<1> QED
  BY <1>4 DEF DeployedIsServed, Deployed

LEMMA OrdinaryTypes ==
  ASSUME Ordinary PROVE TypesInv'
BY DEF Ordinary, SourceMoves, KidsMove, RowsMove, TypesInv

(* An operation keeps its delivery, and a push its row's operation. *)
LEMMA OrdinaryKeeps ==
  ASSUME Base, Ordinary
  PROVE  /\ \A o \in Op : /\ op'[o].delivery = op[o].delivery /\ op'[o].retry = op[o].retry
                          /\ (op'[o].status = "none") = (op[o].status = "none")
         /\ \A e \in Delivery : delivery'[e] # None =>
              delivery[e] # None /\ delivery'[e].op = delivery[e].op
         /\ source.last # None => source'.last # None
<1>1. /\ \A o \in Op : Turn(o, op'[o])
      /\ \A e \in Delivery : RowMoves(e)
      /\ SourceMoves
  BY DEF Ordinary, OpsTurn, RowsMove
<1>2. source.last # None => source'.last # None
  BY <1>1, DeliveriesAssumption, AtFinish DEF SourceMoves
<1> QED
  BY <1>1, <1>2 DEF Turn, Sound, Follows, RowMoves

LEMMA OrdinaryCovers ==
  ASSUME Base, Ordinary, NEW d \in Delivery, Timed(d), Covers(delivery, d)
  PROVE  Covers(delivery', d)
BY DEF Ordinary, RowsMove

LEMMA OrdinaryRecord ==
  ASSUME Base, RecordInv, Ordinary PROVE RecordInv'
<1> SUFFICES ASSUME NEW p \in Op, op'[p].status # "none", Timed(op'[p].delivery)
             PROVE  Covers(delivery', op'[p].delivery)
  BY DEF RecordInv
<1>1. op'[p].delivery = op[p].delivery /\ op[p].status # "none"
  BY OrdinaryKeeps
<1>2. op[p].delivery \in Delivery
  BY <1>1 DEF Base, DeliveryInv, RowsInv, RowOk
<1>3. Covers(delivery, op[p].delivery)
  BY <1>1 DEF RecordInv
<1> QED
  BY <1>1, <1>2, <1>3, OrdinaryCovers

LEMMA OrdinaryHandler ==
  ASSUME Base, HandlerInv, Ordinary PROVE HandlerInv'
<1> SUFFICES ASSUME handling' # None PROVE HandlerInv'
  BY DEF HandlerInv
<1>1. /\ handling # None /\ handling'.delivery = handling.delivery /\ handling'.pc = handling.pc
      /\ handling'.late = handling.late /\ handling'.op = handling.op
      /\ handling'.older \subseteq handling.older
  <2>1. handling # None
    BY DEF Ordinary, HandlingMoves
  <2>2. handling \in [delivery: Delivery, pc: HandlerPc, late: BOOLEAN,
                      op: Op \cup {0}, older: SUBSET Delivery]
    BY <2>1 DEF Base, DeliveryInv, RowsInv, HandlingOk
  <2>3. CASE handling' = handling
    BY <2>1, <2>3
  <2>4. ASSUME NEW less \in SUBSET Delivery, less \subseteq handling.older,
               handling' = [handling EXCEPT !.older = less]
        PROVE  <1>1!2 /\ <1>1!3
    BY <2>2, <2>4
  <2> QED
    BY <2>1, <2>2, <2>3 DEF Ordinary, HandlingMoves
<1> DEFINE h == handling.delivery
<1>2. h \in Delivery
  BY <1>1 DEF Base, DeliveryInv, RowsInv, HandlingOk
<1>3. /\ handling.pc # "recorded" =>
           /\ ~handling.late
           /\ handling.op \in Op /\ op[handling.op].status # "none" /\ ~op[handling.op].retry
      /\ handling.pc = "recorded" => handling.op = 0
      /\ handling.pc = "accepted" => source.last # None
      /\ handling.older # {} => source.last # None
      /\ delivery[h] # None => delivery[h].op \in {0, handling.op}
      /\ ~handling.late => NewestOf(h)
  BY <1>1 DEF HandlerInv
<1>4. NewestOf(h) => NewestOf(h)'
  <2> SUFFICES ASSUME NewestOf(h) PROVE NewestOf(h)'
    OBVIOUS
  <2>1. \A r \in Recorded' : ~OlderEvent(h, r)
    BY OrdinaryKeeps DEF NewestOf, Recorded
  <2>2. \A p \in Op : op'[p].status # "none" => ~OlderEvent(h, op'[p].delivery)
    BY OrdinaryKeeps DEF NewestOf
  <2>3. Timed(h) => Covers(delivery', h)
    BY <1>2, OrdinaryCovers DEF NewestOf
  <2> QED
    BY <1>1, <2>1, <2>2, <2>3 DEF NewestOf
<1>5. delivery'[h] # None => delivery'[h].op \in {0, handling.op}
  BY <1>2, <1>3, OrdinaryKeeps
<1>6. /\ handling'.pc # "recorded" =>
           /\ ~handling'.late
           /\ handling'.op \in Op /\ op'[handling'.op].status # "none" /\ ~op'[handling'.op].retry
      /\ handling'.pc = "recorded" => handling'.op = 0
      /\ handling'.pc = "accepted" => source'.last # None
      /\ handling'.older # {} => source'.last # None
  BY <1>1, <1>3, OrdinaryKeeps
<1> HIDE DEF h
<1> QED
  BY <1>1, <1>3, <1>4, <1>5, <1>6 DEF HandlerInv, h, NewestOf

(* The row that a retried operation owns only moves on to "building".      *)
LEMMA OwnedRow ==
  ASSUME Base, HandlerInv, RetryInv, source.last = None, source'.last = None,
         NEW o \in Op, op[o].retry, Unfinished(op[o]), op'[o].status \notin OpOver,
         NEW s, Marks(op[o].delivery, s)
  PROVE  s = "building"
<1> DEFINE d == op[o].delivery
<1>1. /\ delivery[d] # None /\ delivery[d].op = o
      /\ delivery[d].status \in {"queued", "building"}
  BY DEF RetryInv, Owns
<1>2. d \in Delivery /\ o # 0 /\ op[o].status # "none"
  BY DEF Base, DeliveryInv, RowsInv, RowOk, Unfinished, Op
<1>3. ASSUME handling # None, d = handling.delivery PROVE FALSE
  <2>1. o = handling.op
    BY <1>1, <1>2, <1>3 DEF HandlerInv
  <2> QED
    BY <1>2, <1>3, <2>1 DEF HandlerInv
<1>4. ASSUME NEW p \in Op, op[p].delivery = d, op[p].pc = "undo", op'[p].status \in OpOver PROVE FALSE
  <2>1. p # o /\ op[p].status = "compensating"
    BY <1>4 DEF Base, TurnInv, RowTurn
  <2>2. CASE op[p].retry
    <3>1. delivery[d].op = p
      BY <1>4, <2>1, <2>2 DEF RetryInv, Owns, Unfinished
    <3> QED
      BY <1>1, <2>1, <3>1
  <2>3. CASE ~op[p].retry
    <3>1. PICK q \in Op : ~op[q].retry /\ op[q].delivery = d /\ op[q].status \in OpOver
      BY DEF RetryInv
    <3>2. op[q].status # "none"
      BY <3>1 DEF OpOver
    <3>3. q = p
      BY <1>4, <2>1, <2>3, <3>1, <3>2 DEF Base, DeliveryInv, OneOperationPerCommit
    <3> QED
      BY <2>1, <3>1, <3>3 DEF OpOver
  <2> QED
    BY <2>2, <2>3
<1>5. source'.last # d
  BY <1>2, DeliveriesAssumption
<1> HIDE DEF d
<1> QED
  BY <1>3, <1>4, <1>5 DEF Marks, d

LEMMA OrdinaryRetries ==
  ASSUME Base, HandlerInv, RetryInv, Ordinary PROVE RetryInv'
<1>0. /\ DeliveryInv /\ TurnInv
      /\ \A o \in Op : Turn(o, op'[o])
      /\ \A e \in Delivery : RowMoves(e)
  BY DEF Base, Ordinary, OpsTurn, RowsMove
<1>1. ASSUME NEW o \in Op, op'[o].retry
      PROVE  \E q \in Op : ~op'[q].retry /\ op'[q].delivery = op'[o].delivery /\ op'[q].status \in OpOver
  <2>1. PICK q \in Op : ~op[q].retry /\ op[q].delivery = op[o].delivery /\ op[q].status \in OpOver
    BY <1>1, OrdinaryKeeps DEF RetryInv
  <2>2. op'[q].status \in OpOver
    BY <1>0, <2>1 DEF Turn
  <2> QED
    BY <2>1, <2>2, OrdinaryKeeps
<1>2. ASSUME source'.last = None, NEW o \in Op, op'[o].retry, Unfinished(op'[o]) PROVE Owns(o)'
  <2> DEFINE d == op[o].delivery
             q == op'[o]
  <2>1. source.last = None /\ op[o].retry /\ q.delivery = d
    BY <1>2, OrdinaryKeeps
  <2>2. q.status \notin OpOver /\ op[o].status \notin OpOver /\ op[o].status # "none"
    BY <1>0, <1>2 DEF Turn, Unfinished, OpOver, Sound, Follows
  <2>3. Unfinished(op[o]) /\ d \in Delivery
    BY <1>0, <2>2 DEF DeliveryInv, RowsInv, RowOk, OpRow, OpStatus, Unfinished
  <2>4. /\ delivery[d] # None /\ delivery[d].op = o
        /\ delivery[d].status \in {"queued", "building"}
        /\ op[o].done > 0 \/ op[o].pc = "prepared" => delivery[d].status = "building"
    BY <2>1, <2>3 DEF RetryInv, Owns
  <2>5. \A s : Marks(d, s) => s = "building"
    BY <1>2, <2>1, <2>2, <2>3, OwnedRow
  <2>6. delivery'[d] # None
    <3>1. delivery[d].status \in Active /\ "building" \notin Settled
      BY <2>4 DEF Active, Settled
    <3> QED
      BY <1>0, <2>3, <2>4, <2>5, <3>1 DEF RowMoves
  <2>7. /\ delivery'[d].op = o
        /\ delivery'[d].status = delivery[d].status \/ delivery'[d].status = "building"
    BY <1>0, <2>3, <2>4, <2>5, <2>6 DEF RowMoves
  <2>8. q.done > 0 \/ q.pc = "prepared" => delivery'[d].status = "building"
    BY <1>0, <1>2, <2>4, <2>6, <2>7 DEF Turn, PreparedNow
  <2> QED
    BY <2>1, <2>4, <2>6, <2>7, <2>8 DEF Owns
<1>3. \A o, p \in Op : op'[o].status # "none" /\ ~op'[o].retry /\ p < o =>
        ~OlderEvent(op'[o].delivery, op'[p].delivery)
  BY OrdinaryKeeps DEF RetryInv
<1> QED
  BY <1>1, <1>2, <1>3 DEF RetryInv

(* While the source keeps its last push. *)
LEMMA CalmStays ==
  ASSUME Base, Ordinary, NEW f \in Delivery, source.last = f, Calm(f)
  PROVE  Calm(f)'
<1>0. \A t \in Target : AppMoves(t)
  BY DEF Ordinary, KidsMove
<1>1. ASSUME NEW t \in Target, NEW d \in Coming(t)' PROVE ~OlderEvent(f, d)
  <2>0. d \in Delivery
    BY DEF Coming
  <2>1. CASE d = app'[t]
    <3>1. d \in Coming(t)
      BY <1>0, <2>0, <2>1 DEF AppMoves, Coming
    <3> QED
      BY <3>1 DEF Calm
  <2>2. ASSUME NEW o \in Op, op'[o].delivery = d, Queued(child'[o][t]) PROVE ~OlderEvent(f, d)
    <3>1. op[o].delivery = d
      BY <2>2, OrdinaryKeeps
    <3>2. CASE Queued(child[o][t])
      <4>1. d \in Coming(t)
        BY <2>0, <3>1, <3>2 DEF Coming, Queued
      <4> QED
        BY <4>1 DEF Calm
    <3>3. CASE Fresh(o)
      <4>1. d = f
        BY <3>1, <3>3, DeliveriesAssumption DEF Fresh
      <4> QED
        BY <4>1, NotOlderThanItself
    <3> QED
      BY <2>2, <3>2, <3>3, QueuedBefore
  <2> QED
    BY <2>1, <2>2 DEF Coming, Queued
<1> QED
  BY <1>1 DEF Calm

LEMMA SpentStays ==
  ASSUME Base, Ordinary, NEW f \in Delivery, Spent(f)
  PROVE  Spent(f)'
<1>0. /\ \A o \in Op : Turn(o, op'[o])
      /\ \A e \in Delivery : RowMoves(e)
  BY DEF Ordinary, OpsTurn, RowsMove
<1>1. \E p \in Op : op'[p].status # "none" /\ OlderEvent(f, op'[p].delivery)
  BY OrdinaryKeeps DEF Spent
<1>2. delivery'[f] # None => delivery'[f].op = 0 \/ delivery'[f].status = "deployed"
  <2> SUFFICES ASSUME delivery'[f] # None, delivery'[f].op # 0 PROVE delivery'[f].status = "deployed"
    OBVIOUS
  <2>1. delivery[f].status = "deployed"
    BY OrdinaryKeeps DEF Spent
  <2> QED
    BY <1>0, <2>1 DEF RowMoves, Marks, Allowed
<1>3. ASSUME NEW p \in Op, op'[p].delivery = f, Going(op'[p]) PROVE op'[p].done = 3
  <2>1. op[p].done = 3
    BY <1>0, <1>3, OrdinaryKeeps DEF Turn, Spent
  <2>2. op'[p].done \in 0 .. 4 /\ op'[p].done # 4
    BY <1>0, <1>3 DEF Turn, Sound, RowOk, OpRow, Going
  <2>3. op[p].done <= op'[p].done
    BY <1>0 DEF Turn
  <2> QED
    BY <2>1, <2>2, <2>3
<1> QED
  BY <1>1, <1>2, <1>3 DEF Spent

(* When the source gets its first one, at the end of an operation.         *)
LEMMA CalmAtFinish ==
  ASSUME Base, Ordinary, NEW o \in Op, op[o].pc = "finish", Fresh(o),
         NEW f, f = op[o].delivery,
         \A p \in Op : p < o /\ op[p].status # "none" => ~OlderEvent(f, op[p].delivery)
  PROVE  Calm(f)'
<1>0. /\ DeliveryInv /\ TurnInv /\ ChildInv /\ \A t \in Target : AppMoves(t)
      /\ f \in Delivery /\ op'[o].delivery = f
  BY AtFinish, OrdinaryKeeps DEF Base, Ordinary, KidsMove
<1>1. ASSUME NEW t \in Target, NEW d \in Coming(t)' PROVE ~OlderEvent(f, d)
  <2>1. CASE d = app'[t]
    <3>1. d \in Delivery /\ app[t] = d
      <4>1. \A p \in Op : child[p][t] # "running"
        BY AtFinish DEF Queued
      <4> QED
        BY <1>0, <2>1, <4>1 DEF AppMoves, Coming
    <3>2. PICK p \in Op : op[p].delivery = d /\ child[p][t] # "none"
      BY <1>0, <3>1, DeliveriesAssumption DEF ChildInv
    <3>3. p <= o /\ op[p].status # "none"
      BY <1>0, <3>2, AtFinish, ChildsOperation
    <3>4. p = o \/ p < o
      <4>1. Op \subseteq Int
        BY DEF Op
      <4> HIDE DEF Op
      <4> QED
        BY <3>3, <4>1
    <3> QED
      BY <1>0, <3>2, <3>3, <3>4, NotOlderThanItself
  <2>2. ASSUME NEW p \in Op, Queued(child'[p][t]) PROVE FALSE
    <3>1. op[p].pc = "reconcile"
      BY <2>2, AtFinish, QueuedBefore
    <3> QED
      BY <1>0, <3>1 DEF TurnInv
  <2> QED
    BY <2>1, <2>2 DEF Coming, Queued
<1>2. \A t \in Target : \A d \in Coming(t)' : ~OlderEvent(f, d)
  BY <1>1
<1> QED
  BY <1>2 DEF Calm, Coming

LEMMA OrdinaryLast ==
  ASSUME Base, RetryInv, LastInv, Ordinary PROVE LastInv'
<1>0. DeliveryInv /\ TurnInv /\ \A o \in Op : Turn(o, op'[o])
  BY DEF Base, Ordinary, OpsTurn
<1>1. CASE source'.last = source.last
  <2>1. ASSUME NEW f, f = source.last, f # None PROVE Calm(f)' \/ Spent(f)'
    <3>1. f \in Delivery
      BY <2>1 DEF Base, TypesInv
    <3>2. Calm(f) \/ Spent(f)
      BY <2>1 DEF LastInv
    <3> QED
      BY <2>1, <3>1, <3>2, CalmStays, SpentStays
  <2> QED
    BY <1>1, <2>1 DEF LastInv, Calm, Spent
<1>2. CASE source'.last # source.last
  <2>1. PICK o \in Op :
          /\ op[o].pc = "finish" /\ Fresh(o) /\ source'.last = op[o].delivery
          /\ delivery[source'.last] # None /\ delivery[source'.last].status = "building"
             /\ delivery'[source'.last] # None => delivery'[source'.last].status = "deployed"
    BY <1>2 DEF Ordinary, SourceMoves
  <2>2. PICK f \in Delivery : f = op[o].delivery /\ f = source'.last
    BY <2>1, AtFinish
  <2>3. source.last = None /\ Going(op[o]) /\ op[o].done = 3
    BY <1>2, <2>1, AtFinish
  <2> DEFINE Newer == \E p \in Op : op[p].status # "none" /\ OlderEvent(f, op[p].delivery)
  <2>4. Calm(f)' \/ Spent(f)' => LastInv'
    BY <2>2 DEF LastInv, Calm, Spent
  <2>5. CASE ~Newer
    <3>1. \A p \in Op : p < o /\ op[p].status # "none" => ~OlderEvent(f, op[p].delivery)
      BY <2>5
    <3> QED
      BY <2>1, <2>2, <2>4, <3>1, CalmAtFinish
  <2>6. CASE Newer /\ ~op[o].retry
    <3>1. op[o].status # "none"
      BY <2>3 DEF Going
    <3>2. \A p \in Op : p < o /\ op[p].status # "none" => ~OlderEvent(f, op[p].delivery)
      BY <2>2, <2>6, <3>1 DEF RetryInv
    <3> QED
      BY <2>1, <2>2, <2>4, <3>2, CalmAtFinish
  <2>7. CASE Newer /\ op[o].retry
    <3>1. /\ delivery[f] # None /\ delivery[f].op = o
          /\ delivery[f].status = "building"
      <4>1. Owns(o)
        BY <2>3, <2>7 DEF RetryInv, Going, Unfinished
      <4>2. op[o].done > 0
        BY <2>3
      <4> QED
        BY <2>2, <4>1, <4>2 DEF Owns
    <3>2. delivery'[f] # None => delivery'[f].op = 0 \/ delivery'[f].status = "deployed"
      BY <2>1, <2>2, <3>1
    <3>3. ASSUME NEW p \in Op, op'[p].delivery = f, Going(op'[p]) PROVE op'[p].done = 3
      <4>1. op[p].delivery = f /\ Going(op[p])
        BY <1>0, <3>3, OrdinaryKeeps DEF Turn
      <4>2. CASE op[p].retry
        <5>1. p = o
          BY <2>3, <3>1, <4>1, <4>2 DEF RetryInv, Owns, Going, Unfinished
        <5>2. op'[o].done \in 0 .. 4 /\ op'[o].done # 4
          BY <1>0, <3>3, <5>1 DEF Turn, Sound, RowOk, OpRow, Going
        <5>3. 3 <= op'[o].done
          BY <1>0, <2>3 DEF Turn
        <5> QED
          BY <5>1, <5>2, <5>3
      <4>3. CASE ~op[p].retry
        <5>1. PICK q \in Op : ~op[q].retry /\ op[q].delivery = f /\ op[q].status \in OpOver
          BY <2>2, <2>7 DEF RetryInv
        <5>2. q = p
          BY <1>0, <4>1, <4>3, <5>1 DEF DeliveryInv, OneOperationPerCommit, OpOver, Going
        <5> QED
          BY <4>1, <5>1, <5>2 DEF OpOver, Going
      <4> QED
        BY <4>2, <4>3
    <3>4. \E p \in Op : op'[p].status # "none" /\ OlderEvent(f, op'[p].delivery)
      BY <2>7, OrdinaryKeeps
    <3> QED
      BY <2>4, <3>2, <3>3, <3>4 DEF Spent
  <2> QED
    BY <2>5, <2>6, <2>7
<1> QED
  BY <1>1, <1>2

LEMMA OrdinaryKeepsAll ==
  ASSUME UntimedBelow, PushInv, DeliveryInv', Ordinary PROVE PushInv'
<1>1. /\ Base /\ AheadInv /\ DeployedIsServed
      /\ HandlerInv /\ RecordInv /\ RetryInv /\ LastInv
  BY DEF PushInv
<1>2. ChildrenOk'
  BY DEF Ordinary, KidsMove
<1>3. Base'
  BY <1>1, <1>2, OrdinaryTypes, OrdinaryTurns, OrdinaryKids DEF Base
<1> QED
  BY <1>1, <1>3, OrdinaryAhead, OrdinaryServed, OrdinaryHandler, OrdinaryRecord, OrdinaryRetries,
     OrdinaryLast DEF PushInv
-----------------------------------------------------------------------------
(* The steps that are not ordinary: a push is received, enqueued, attached *)
(* and accepted, and an operation is retried as a new one.                 *)

LEMMA SameBase ==
  ASSUME Base, DeliveryInv', op' = op, child' = child, app' = app, Table(delivery'),
         source' \in [last: Delivery \cup {None},
                      status: {"", "queued", "building", "deployed", "failed"}]
  PROVE  Base'
<1>1. ChildrenOk' /\ TypesInv'
  BY DEF Base, ChildrenOk, TypesInv
<1>2. TurnInv'
  BY DEF Base, TurnInv
<1>3. ChildInv'
  <2>1. \A o \in Op, t \in Target : Served(o, t)' = Served(o, t)
    BY DEF Served
  <2>2. ChildInv
    BY DEF Base
  <2> QED
    BY <2>1, <2>2 DEF ChildInv
<1> QED
  BY <1>1, <1>2, <1>3 DEF Base

LEMMA SameAhead ==
  ASSUME AheadInv, DeployedIsServed, op' = op, child' = child, app' = app, source' = source,
         Deployed' = Deployed
  PROVE  AheadInv' /\ DeployedIsServed'
<1>1. AheadInv'
  BY DEF AheadInv, Ahead
<1>2. DeployedIsServed'
  <2>1. \A d \in Deployed : \E o \in Op :
          /\ op'[o].delivery = d
          /\ \A t \in Target :
               \/ child'[o][t] = "cancelled"
               \/ child'[o][t] = "done" /\ app'[t] # None /\ ~OlderEvent(app'[t], d)
    BY DEF DeployedIsServed, Deployed
  <2> QED
    BY <2>1 DEF DeployedIsServed, Deployed
<1> QED
  BY <1>1, <1>2

(* What is not late is as new as all that is on record. *)
LEMMA NotLate ==
  ASSUME Base, RecordInv, UntimedBelow, NEW d \in Delivery, ~Late(d)
  PROVE  /\ \A r \in Recorded : ~OlderEvent(d, r)
         /\ \A p \in Op : op[p].status # "none" => ~OlderEvent(d, op[p].delivery)
<1>0. Table(delivery) /\ Recorded = There(delivery) /\ DeliveryInv
  BY DEF Base, TypesInv, Recorded, There
<1>1. ASSUME NEW r \in Recorded, OlderEvent(d, r) PROVE FALSE
  <2>1. r \in There(delivery) /\ Timed(r) /\ Timed(d) /\ Event[d].at < Event[r].at
    BY <1>0, <1>1 DEF OlderEvent
  <2>2. PICK e \in There(delivery) : IsLast(delivery, e)
    BY <1>0, <2>1 DEF Table
  <2>3. Timed(e) /\ Event[r].at <= Event[e].at
    BY <1>0, <2>1, <2>2, LastCovers
  <2>4. Event[d].at \in Nat /\ Event[r].at \in Nat /\ Event[e].at \in Nat
    BY <2>1, <2>3, TimedType DEF There
  <2>5. e # d /\ Event[d].at <= Event[e].at
    BY <2>1, <2>3, <2>4
  <2>6. e \in Latest
    BY <1>0, <2>2 DEF Latest, IsLast
  <2> QED
    BY <2>1, <2>3, <2>5, <2>6 DEF Late
<1>2. ASSUME NEW p \in Op, op[p].status # "none", OlderEvent(d, op[p].delivery) PROVE FALSE
  <2> DEFINE e == op[p].delivery
  <2>1. e \in Delivery /\ Timed(e) /\ Timed(d) /\ Event[d].at < Event[e].at
    BY <1>0, <1>2 DEF DeliveryInv, RowsInv, RowOk, OlderEvent
  <2>2. PICK r \in There(delivery) : Timed(r) /\ Event[e].at <= Event[r].at
    BY <1>2, <2>1 DEF RecordInv, Covers
  <2>3. Event[d].at \in Nat /\ Event[r].at \in Nat /\ Event[e].at \in Nat
    BY <2>1, <2>2, TimedType DEF There
  <2>4. OlderEvent(d, r)
    BY <2>1, <2>2, <2>3 DEF OlderEvent
  <2> QED
    BY <1>0, <1>1, <2>2, <2>4
<1> QED
  BY <1>1, <1>2

LEMMA ReceiveKeeps ==
  ASSUME UntimedBelow, PushInv, DeliveryInv', NEW d \in Delivery, Receive(d)
  PROVE  PushInv'
<1>0. /\ Base /\ AheadInv /\ DeployedIsServed
      /\ HandlerInv /\ RecordInv /\ RetryInv /\ LastInv /\ Table(delivery) /\ TypesInv
  BY DEF PushInv, Base, TypesInv
<1>1. /\ op' = op /\ child' = child /\ app' = app /\ source' = source
      /\ handling' = [delivery |-> d, pc |-> "recorded", late |-> Late(d), op |-> 0, older |-> {}]
  BY DEF Receive
<1>2. /\ Table(delivery') /\ There(delivery') = There(delivery) \cup {d}
      /\ \A e \in There(delivery) : delivery'[e] = delivery[e]
      /\ delivery'[d].op = 0
      /\ d \notin There(delivery) => delivery'[d].status = "received"
  <2>1. CASE delivery[d] = None
    <3>1. delivery' = [delivery EXCEPT ![d] =
                         [seq |-> Cardinality(There(delivery)) + 1, status |-> "received", op |-> 0]]
      BY <2>1 DEF Receive, Recorded, There
    <3>2. d \in Delivery \ There(delivery)
      BY <2>1 DEF There
    <3>3. LET new == [delivery EXCEPT ![d] =
                       [seq |-> Cardinality(There(delivery)) + 1, status |-> "received", op |-> 0]]
          IN  /\ Table(new) /\ There(new) = There(delivery) \cup {d}
              /\ \A e \in Delivery \ {d} : new[e] = delivery[e]
              /\ new[d].status = "received" /\ new[d].op = 0
      BY <1>0, <3>2, AddedTable
    <3> QED
      BY <3>1, <3>2, <3>3 DEF There
  <2>2. CASE delivery[d] # None
    BY <1>0, <2>2 DEF Receive, There
  <2> QED
    BY <2>1, <2>2
<1>3. Deployed' = Deployed
  <2>1. \A e \in Deployed' : e \in There(delivery)
    BY <1>2 DEF Deployed, Recorded, There
  <2> QED
    BY <1>2, <2>1 DEF Deployed, Recorded, There
<1>4. Base'
  BY <1>0, <1>1, <1>2, SameBase DEF TypesInv
<1>5. AheadInv' /\ DeployedIsServed'
  BY <1>0, <1>1, <1>3, SameAhead
<1>6. \A e \in Delivery : Covers(delivery, e) => Covers(delivery', e)
  BY <1>2 DEF Covers
<1>7. RecordInv'
  BY <1>0, <1>1, <1>6 DEF RecordInv, Base, DeliveryInv, RowsInv, RowOk
<1>8. HandlerInv'
  <2>1. /\ handling'.delivery = d /\ handling'.pc = "recorded" /\ handling'.late = Late(d)
        /\ handling'.op = 0 /\ handling'.older = {}
    BY <1>1
  <2>2. ASSUME ~Late(d) PROVE NewestOf(d)'
    <3>1. \A r \in There(delivery') : ~OlderEvent(d, r)
      <4>1. \A r \in There(delivery) : ~OlderEvent(d, r)
        BY <1>0, <2>2, NotLate DEF Recorded, There
      <4> QED
        BY <1>2, <4>1, NotOlderThanItself
    <3>2. \A p \in Op : op'[p].status # "none" => ~OlderEvent(d, op'[p].delivery)
      BY <1>0, <1>1, <2>2, NotLate
    <3>3. Timed(d) => Covers(delivery', d)
      <4>1. Timed(d) => Event[d].at <= Event[d].at
        BY TimedType
      <4> QED
        BY <1>2, <4>1 DEF Covers
    <3>4. Recorded' = There(delivery')
      BY DEF Recorded, There
    <3> QED
      BY <3>1, <3>2, <3>3, <3>4 DEF NewestOf
  <2> QED
    BY <1>2, <2>1, <2>2 DEF HandlerInv, NewestOf
<1>9. RetryInv'
  <2>1. ASSUME NEW o \in Op, Unfinished(op[o]), Owns(o) PROVE Owns(o)'
    <3>1. op[o].delivery \in There(delivery)
      BY <1>0, <2>1 DEF Base, DeliveryInv, RowsInv, RowOk, Unfinished, Owns, There
    <3>2. delivery'[op[o].delivery] = delivery[op[o].delivery]
      BY <1>2, <3>1
    <3> QED
      BY <1>1, <2>1, <3>2 DEF Owns
  <2> QED
    BY <1>0, <1>1, <2>1 DEF RetryInv
<1>10. LastInv'
  <2>1. \A f \in Delivery : Calm(f) => Calm(f)'
    BY <1>1 DEF Calm, Coming
  <2>2. ASSUME NEW f \in Delivery, Spent(f) PROVE Spent(f)'
    <3>1. delivery'[f] # None => delivery'[f].op = 0 \/ delivery'[f].status = "deployed"
      <4>1. CASE f \in There(delivery)
        BY <1>2, <2>2, <4>1 DEF Spent, There
      <4>2. CASE f \notin There(delivery)
        BY <1>2, <4>2 DEF There
      <4> QED
        BY <4>1, <4>2
    <3> QED
      BY <1>1, <2>2, <3>1 DEF Spent
  <2>3. source.last # None => source.last \in Delivery
    BY <1>0 DEF TypesInv
  <2>4. ASSUME NEW f \in Delivery, f = source'.last PROVE Calm(f)' \/ Spent(f)'
    BY <1>0, <1>1, <2>1, <2>2, <2>4, DeliveriesAssumption DEF LastInv
  <2>5. source'.last # None => source'.last \in Delivery
    BY <1>1, <2>3
  <2> QED
    BY <2>4, <2>5 DEF LastInv, Calm, Spent
<1> QED
  BY <1>4, <1>5, <1>7, <1>8, <1>9, <1>10 DEF PushInv

LEMMA AttachKeeps ==
  ASSUME PushInv, DeliveryInv', Attach
  PROVE  PushInv'
<1> DEFINE h == handling.delivery
           o == handling.op
           s == IF delivery[h].status = "received" THEN "queued" ELSE delivery[h].status
           row == [delivery[h] EXCEPT !.op = o, !.status = s]
<1>0. /\ Base /\ AheadInv /\ DeployedIsServed
      /\ HandlerInv /\ RecordInv /\ RetryInv /\ LastInv /\ Table(delivery) /\ TypesInv
  BY DEF PushInv, Base, TypesInv
<1>1. /\ op' = op /\ child' = child /\ app' = app /\ source' = source
      /\ handling # None /\ handling.pc = "enqueued" /\ handling' = [handling EXCEPT !.pc = "attached"]
      /\ delivery[h] # None /\ delivery[h].op \in {0, o}
  BY DEF Attach, At, Attachable
<1>2. /\ handling \in [delivery: Delivery, pc: HandlerPc, late: BOOLEAN,
                       op: Op \cup {0}, older: SUBSET Delivery]
      /\ h \in There(delivery) /\ delivery[h] \in DeliveryRow
  <2>1. handling \in [delivery: Delivery, pc: HandlerPc, late: BOOLEAN,
                      op: Op \cup {0}, older: SUBSET Delivery]
    BY <1>0, <1>1 DEF Base, DeliveryInv, RowsInv, HandlingOk
  <2> QED
    BY <1>0, <1>1, <2>1, RowThere DEF There
<1>3. ~handling.late /\ o \in Op /\ op[o].status # "none" /\ ~op[o].retry /\ NewestOf(h)
  BY <1>0, <1>1 DEF HandlerInv
<1>4. delivery' = [delivery EXCEPT ![h] = row]
  BY DEF Attach
<1>5. /\ row \in DeliveryRow /\ row.op = o /\ row.seq = delivery[h].seq
      /\ row.status = s /\ s # "received"
      /\ s = "deployed" <=> delivery[h].status = "deployed"
  <2>1. s \in Active \cup Settled
    BY <1>2 DEF DeliveryRow, Active
  <2> HIDE DEF s
  <2>2. row \in DeliveryRow /\ row.op = o /\ row.seq = delivery[h].seq /\ row.status = s
    BY <1>2, <1>3, <2>1 DEF DeliveryRow
  <2> QED
    BY <2>2 DEF s
<1> HIDE DEF row
<1>6. delivery'[h] = row /\ \A e \in Delivery \ {h} : delivery'[e] = delivery[e]
  BY <1>0, <1>2, <1>4 DEF Table, There
<1>7. Table(delivery') /\ There(delivery') = There(delivery)
  <2>1. delivery' \in [Delivery -> DeliveryRow \cup {None}]
    BY <1>0, <1>4, <1>5 DEF Table
  <2>2. There(delivery') = There(delivery)
    BY <1>2, <1>5, <1>6, RowsAssumption DEF There
  <2>3. \A e \in There(delivery) : delivery'[e].seq = delivery[e].seq
    BY <1>5, <1>6 DEF There
  <2> QED
    BY <1>0, <2>1, <2>2, <2>3, SameIds
<1>8. Recorded' = Recorded /\ Deployed' = Deployed
  <2>1. Recorded' = Recorded
    BY <1>7 DEF Recorded, There
  <2> QED
    BY <1>5, <1>6, <2>1 DEF Deployed, Recorded
<1>9. Base'
  BY <1>0, <1>1, <1>7, SameBase DEF TypesInv
<1>10. AheadInv' /\ DeployedIsServed'
  BY <1>0, <1>1, <1>8, SameAhead
<1>11. \A e : Covers(delivery', e) = Covers(delivery, e)
  BY <1>7 DEF Covers
<1>12. RecordInv'
  BY <1>0, <1>1, <1>11 DEF RecordInv
<1>13. HandlerInv'
  <2>1. /\ handling'.delivery = h /\ handling'.pc = "attached" /\ handling'.late = handling.late
        /\ handling'.op = o /\ handling'.older = handling.older
    BY <1>1, <1>2
  <2>2. NewestOf(h)'
    <3>1. /\ \A r \in Recorded' : ~OlderEvent(h, r)
          /\ \A p \in Op : op'[p].status # "none" => ~OlderEvent(h, op'[p].delivery)
          /\ Timed(h) => Covers(delivery', h)
      BY <1>1, <1>3, <1>8, <1>11 DEF NewestOf
    <3> QED
      BY <2>1, <3>1 DEF NewestOf
  <2>3. delivery'[h].op = o /\ (handling.older # {} => source'.last # None)
    BY <1>0, <1>1, <1>5, <1>6 DEF HandlerInv
  <2>4. NewestOf(handling.delivery)'
    BY <2>2
  <2>5. (handling.delivery)' = h
    BY <2>1
  <2> HIDE DEF h, o
  <2> QED
    BY <1>1, <1>3, <2>1, <2>3, <2>4, <2>5 DEF HandlerInv
<1>14. RetryInv'
  <2>1. ASSUME NEW p \in Op, op[p].retry, Unfinished(op[p]), Owns(p) PROVE Owns(p)'
    <3>1. op[p].delivery \in Delivery /\ p # 0
      BY <1>0, <2>1 DEF Base, DeliveryInv, RowsInv, RowOk, Unfinished, Op
    <3>2. op[p].delivery # h
      BY <1>1, <1>3, <2>1, <3>1 DEF Owns
    <3>3. delivery'[op[p].delivery] = delivery[op[p].delivery]
      BY <1>6, <3>1, <3>2
    <3> QED
      BY <1>1, <2>1, <3>3 DEF Owns
  <2> QED
    BY <1>0, <1>1, <2>1 DEF RetryInv
<1>15. LastInv'
  <2>1. \A f \in Delivery : Calm(f) => Calm(f)'
    BY <1>1 DEF Calm, Coming
  <2>2. ASSUME NEW f \in Delivery, Spent(f) PROVE Spent(f)'
    <3>1. f # h
      BY <1>3, <2>2 DEF Spent, NewestOf
    <3>2. delivery'[f] = delivery[f]
      BY <1>6, <3>1
    <3> QED
      BY <1>1, <2>2, <3>2 DEF Spent
  <2>3. source.last # None => source.last \in Delivery
    BY <1>0 DEF TypesInv
  <2>4. ASSUME NEW f \in Delivery, f = source'.last PROVE Calm(f)' \/ Spent(f)'
    BY <1>0, <1>1, <2>1, <2>2, <2>4, DeliveriesAssumption DEF LastInv
  <2>5. source'.last # None => source'.last \in Delivery
    BY <1>1, <2>3
  <2> QED
    BY <2>4, <2>5 DEF LastInv, Calm, Spent
<1> QED
  BY <1>9, <1>10, <1>12, <1>13, <1>14, <1>15 DEF PushInv

LEMMA AcceptKeeps ==
  ASSUME PushInv, DeliveryInv', Accept
  PROVE  PushInv'
<1> DEFINE h == handling.delivery
<1>0. /\ Base /\ AheadInv /\ DeployedIsServed
      /\ HandlerInv /\ RecordInv /\ RetryInv /\ LastInv /\ Table(delivery) /\ TypesInv
      /\ DeliveryInv /\ TurnInv /\ ChildInv
  BY DEF PushInv, Base, TypesInv
<1>1. /\ delivery' = delivery /\ op' = op /\ child' = child /\ app' = app
      /\ source' = [last |-> h, status |-> "queued"]
      /\ handling # None /\ handling.pc = "attached"
      /\ handling' = [handling EXCEPT !.pc = "accepted", !.older = Older(h)]
  BY DEF Accept, At
<1>2. handling \in [delivery: Delivery, pc: HandlerPc, late: BOOLEAN,
                    op: Op \cup {0}, older: SUBSET Delivery]
  BY <1>0, <1>1 DEF DeliveryInv, RowsInv, HandlingOk
<1>3. /\ ~handling.late /\ handling.op \in Op /\ op[handling.op].status # "none"
      /\ ~op[handling.op].retry /\ NewestOf(h) /\ h \in Delivery
      /\ delivery[h] # None => delivery[h].op \in {0, handling.op}
  BY <1>0, <1>1, <1>2 DEF HandlerInv
<1>4. Base' /\ source'.last = h /\ h # None
  BY <1>0, <1>1, <1>3, SameBase, DeliveriesAssumption
<1>5. DeployedIsServed'
  BY <1>0, <1>1 DEF DeployedIsServed, Recorded
<1>6. AheadInv'
  <2>1. Deployed' = Deployed /\ Deployed \subseteq Recorded
    BY <1>1 DEF Deployed, Recorded
  <2>2. \A d \in Deployed : ~OlderEvent(h, d)
    BY <1>3, <2>1 DEF NewestOf
  <2>3. \A o \in Op, t \in Target : Queued(child'[o][t]) => \A d \in Deployed' : ~OlderEvent(op'[o].delivery, d)
    BY <1>0, <1>1, <2>1 DEF AheadInv, Ahead
  <2>4. \A d \in Deployed' : ~OlderEvent(source'.last, d)
    BY <1>4, <2>1, <2>2
  <2> QED
    BY <1>4, <2>3, <2>4 DEF AheadInv, Ahead
<1>7. RecordInv'
  BY <1>0, <1>1 DEF RecordInv
<1>8. HandlerInv'
  <2>1. /\ handling'.delivery = h /\ handling'.pc = "accepted" /\ handling'.late = handling.late
        /\ handling'.op = handling.op
    BY <1>1, <1>2
  <2>2. /\ \A r \in Recorded' : ~OlderEvent(h, r)
        /\ \A p \in Op : op'[p].status # "none" => ~OlderEvent(h, op'[p].delivery)
        /\ Timed(h) => Covers(delivery', h)
    BY <1>1, <1>3 DEF NewestOf, Recorded
  <2>3. NewestOf(handling.delivery)'
    BY <2>1, <2>2 DEF NewestOf
  <2> QED
    BY <1>1, <1>3, <1>4, <2>1, <2>3 DEF HandlerInv
<1>9. RetryInv'
  BY <1>0, <1>1, <1>4 DEF RetryInv
<1>10. LastInv'
  <2>1. ASSUME NEW t \in Target, NEW d \in Coming(t) PROVE ~OlderEvent(h, d)
    <3>1. PICK p \in Op : op[p].delivery = d /\ child[p][t] # "none"
      <4>1. CASE d = app[t]
        BY <1>0, <4>1, DeliveriesAssumption DEF Coming, ChildInv
      <4>2. CASE d # app[t]
        BY <4>2 DEF Coming
      <4> QED
        BY <4>1, <4>2
    <3>2. op[p].status # "none"
      BY <1>0, <3>1, ChildsOperation
    <3> QED
      BY <1>3, <3>1, <3>2 DEF NewestOf
  <2>2. ASSUME NEW t \in Target, NEW d \in Coming(t)' PROVE ~OlderEvent(source'.last, d)
    <3>1. d \in Coming(t)
      BY <1>1 DEF Coming
    <3> QED
      BY <1>4, <2>1, <3>1
  <2>3. \A t \in Target : \A d \in Coming(t)' : ~OlderEvent(source'.last, d)
    BY <2>2
  <2>4. Calm(source.last)'
    BY <2>3 DEF Calm
  <2> QED
    BY <2>4 DEF LastInv
<1> QED
  BY <1>4, <1>5, <1>6, <1>7, <1>8, <1>9, <1>10 DEF PushInv

(* The first free row is given a delivery. *)
Takes(o, d, b) ==
  /\ op[o].delivery = None
  /\ \A p \in Op : op[p].delivery = None => o <= p
  /\ op' = [op EXCEPT ![o] = FreshOp(d, b)]

LEMMA TakenRow ==
  ASSUME Base, NEW o \in Op, NEW d \in Delivery, NEW b \in BOOLEAN, Takes(o, d, b)
  PROVE  /\ op'[o].delivery = d /\ op'[o].retry = b /\ op'[o].status = "pending"
         /\ op'[o].pc = "idle" /\ op'[o].done = 0
         /\ \A p \in Op \ {o} : op'[p] = op[p]
         /\ op[o].status = "none"
         /\ \A t \in Target : child[o][t] = "none"
         /\ \A p \in Op : p < o => op[p].status # "none"
         /\ \A p \in Op : o < p => op[p].status = "none"
<1>0. DeliveryInv /\ TurnInv /\ \A p \in Op : RowTurn(op[p])
  BY DEF Base, TurnInv
<1>1. op'[o] = FreshOp(d, b) /\ \A p \in Op \ {o} : op'[p] = op[p]
  BY <1>0 DEF Takes, DeliveryInv, RowsInv
<1>2. /\ FreshOp(d, b).delivery = d /\ FreshOp(d, b).retry = b /\ FreshOp(d, b).status = "pending"
      /\ FreshOp(d, b).pc = "idle" /\ FreshOp(d, b).done = 0
  BY DEF FreshOp, NoRow
<1>3. op[o].status = "none" /\ op[o].done = 0
  BY <1>0 DEF Takes, RowTurn
<1>4. \A t \in Target : child[o][t] = "none"
  BY <1>0, <1>3 DEF TurnInv
<1>5. ASSUME NEW p \in Op, p < o PROVE op[p].status # "none"
  <2>1. ~(o <= p)
    <3>1. Op \subseteq Int
      BY DEF Op
    <3> HIDE DEF Op
    <3> QED
      BY <1>5, <3>1
  <2>2. op[p].delivery # None
    BY <2>1 DEF Takes
  <2> QED
    BY <1>0, <2>2 DEF RowTurn
<1>6. \A p \in Op : o < p => op[p].status = "none"
  BY <1>0, <1>3 DEF TurnInv
<1> QED
  BY <1>1, <1>2, <1>3, <1>4, <1>5, <1>6

LEMMA TakenBase ==
  ASSUME Base, DeliveryInv', NEW o \in Op, NEW d \in Delivery, NEW b \in BOOLEAN, Takes(o, d, b),
         child' = child, app' = app, source' = source, Table(delivery')
  PROVE  Base'
<1>0. DeliveryInv /\ TurnInv /\ ChildInv
  BY DEF Base
<1>1. ChildrenOk' /\ TypesInv'
  BY DEF Base, ChildrenOk, TypesInv
<1>2. TurnInv'
  <2>1. ASSUME NEW p \in Op PROVE RowTurn(op'[p])
    <3>1. CASE p = o
      BY <3>1, TakenRow, DeliveriesAssumption DEF RowTurn
    <3>2. CASE p # o
      BY <1>0, <3>2, TakenRow DEF TurnInv
    <3> QED
      BY <3>1, <3>2
  <2>2. \A p, q \in Op : q < p /\ op'[p].status # "none" => op'[q].status # "none"
    <3> SUFFICES ASSUME NEW p \in Op, NEW q \in Op, q < p, op'[p].status # "none"
                 PROVE  op'[q].status # "none"
      OBVIOUS
    <3>1. CASE q = o
      BY <3>1, TakenRow
    <3>2. CASE q # o /\ p = o
      BY <3>2, TakenRow
    <3>3. CASE q # o /\ p # o
      BY <1>0, <3>3, TakenRow DEF TurnInv
    <3> QED
      BY <3>1, <3>2, <3>3
  <2>3. \A p, q \in Op : op'[p].pc # "idle" /\ op'[q].pc # "idle" => p = q
    BY <1>0, TakenRow DEF TurnInv
  <2>4. ASSUME NEW p \in Op, NEW q \in Op, p < q, Going(op'[p]) PROVE Waiting(op'[q])
    <3>1. CASE q = o
      BY <3>1, TakenRow DEF Waiting
    <3>2. CASE q # o /\ p = o
      <4>1. op'[q] = op[q] /\ op[q].status = "none"
        BY <2>4, <3>2, TakenRow
      <4>2. op[q].pc = "idle" /\ op[q].done = 0
        BY <1>0, <4>1 DEF DeliveryInv, RowsInv, RowOk, TurnInv, RowTurn
      <4> QED
        BY <4>1, <4>2 DEF Waiting
    <3>3. CASE q # o /\ p # o
      BY <1>0, <2>4, <3>3, TakenRow DEF TurnInv
    <3> QED
      BY <3>1, <3>2, <3>3
  <2>5. \A p \in Op, t \in Target : op'[p].done = 0 => child'[p][t] = "none"
    BY <1>0, TakenRow DEF TurnInv
  <2> QED
    BY <2>1, <2>2, <2>3, <2>4, <2>5 DEF TurnInv
<1>3. ChildInv'
  <2>1. \A p \in Op, t \in Target : child[p][t] # "none" => op'[p] = op[p] /\ p # o
    BY TakenRow
  <2>2. \A p \in Op, t \in Target : Going(op'[p]) /\ op'[p].done = 3 => SettledWell(child'[p][t])
    <3>1. \A p \in Op : op'[p].done = 3 => op'[p] = op[p]
      BY TakenRow
    <3> QED
      BY <1>0, <3>1 DEF ChildInv
  <2>3. \A p \in Op, t \in Target : Going(op'[p]) /\ child'[p][t] = "done" => app'[t] = op'[p].delivery
    BY <1>0, <2>1 DEF ChildInv
  <2>4. ASSUME NEW p \in Op, NEW q \in Op, NEW t \in Target, q < p, Going(op'[p]), Served(p, t)'
        PROVE  ~Queued(child'[q][t])
    <3>1. child[p][t] # "none"
      BY <2>4 DEF Served
    <3>2. Served(p, t) /\ Going(op[p])
      BY <2>1, <2>4, <3>1 DEF Served
    <3> QED
      BY <1>0, <2>4, <3>2 DEF ChildInv
  <2>5. \A t \in Target : app'[t] # None =>
          \E p \in Op : op'[p].delivery = app'[t] /\ child'[p][t] # "none"
    <3> SUFFICES ASSUME NEW t \in Target, app'[t] # None
                 PROVE  \E p \in Op : op'[p].delivery = app'[t] /\ child'[p][t] # "none"
      OBVIOUS
    <3>1. PICK p \in Op : op[p].delivery = app[t] /\ child[p][t] # "none"
      BY <1>0 DEF ChildInv
    <3> QED
      BY <2>1, <3>1
  <2> QED
    BY <2>2, <2>3, <2>4, <2>5 DEF ChildInv
<1> QED
  BY <1>1, <1>2, <1>3 DEF Base

LEMMA TakenAhead ==
  ASSUME Base, AheadInv, DeployedIsServed,
         NEW o \in Op, NEW d \in Delivery, NEW b \in BOOLEAN, Takes(o, d, b),
         child' = child, app' = app, source' = source, Deployed' = Deployed
  PROVE  AheadInv' /\ DeployedIsServed'
<1>1. \A p \in Op, t \in Target : child[p][t] # "none" => op'[p] = op[p]
  BY TakenRow
<1>2. AheadInv'
  <2>1. \A p \in Op, t \in Target : Queued(child'[p][t]) => op'[p] = op[p]
    BY <1>1 DEF Queued
  <2> QED
    BY <2>1 DEF AheadInv, Ahead
<1>3. DeployedIsServed'
  <2>1. ASSUME NEW e \in Deployed
        PROVE  \E p \in Op :
                 /\ op'[p].delivery = e
                 /\ \A t \in Target :
                      \/ child'[p][t] = "cancelled"
                      \/ child'[p][t] = "done" /\ app'[t] # None /\ ~OlderEvent(app'[t], e)
    <3>1. PICK p \in Op :
            /\ op[p].delivery = e
            /\ \A t \in Target :
                 \/ child[p][t] = "cancelled"
                 \/ child[p][t] = "done" /\ app[t] # None /\ ~OlderEvent(app[t], e)
      BY DEF DeployedIsServed, Deployed
    <3>2. p # o
      BY DeliveriesAssumption, <3>1 DEF Takes, Deployed, Recorded
    <3>3. op'[p] = op[p]
      BY <3>2, TakenRow
    <3> QED
      BY <3>1, <3>3
  <2> QED
    BY <2>1 DEF DeployedIsServed, Deployed
<1> QED
  BY <1>2, <1>3

(* Neither what was recorded last nor what is on its way changes by it. *)
LEMMA TakenLast ==
  ASSUME Base, LastInv, NEW o \in Op, NEW d \in Delivery, NEW b \in BOOLEAN, Takes(o, d, b),
         child' = child, app' = app, source' = source,
         \A e \in Delivery \ {d} : delivery'[e] = delivery[e],
         ~Spent(d)
  PROVE  LastInv'
<1>1. \A p \in Op, t \in Target : child[p][t] # "none" => op'[p] = op[p]
  BY TakenRow
<1>2. ASSUME NEW f \in Delivery, Calm(f) PROVE Calm(f)'
  <2>1. ASSUME NEW t \in Target, NEW e \in Coming(t)' PROVE e \in Coming(t)
    BY <1>1, <2>1 DEF Coming
  <2>2. \A t \in Target : \A e \in Coming(t)' : ~OlderEvent(f, e)
    BY <1>2, <2>1 DEF Calm
  <2> QED
    BY <2>2 DEF Calm
<1>3. ASSUME NEW f \in Delivery, Spent(f) PROVE Spent(f)'
  <2>1. f # d /\ delivery'[f] = delivery[f]
    BY <1>3
  <2>2. \E p \in Op : op'[p].status # "none" /\ OlderEvent(f, op'[p].delivery)
    <3>1. PICK p \in Op : op[p].status # "none" /\ OlderEvent(f, op[p].delivery)
      BY <1>3 DEF Spent
    <3>2. op'[p] = op[p]
      BY <3>1, TakenRow
    <3> QED
      BY <3>1, <3>2
  <2>3. \A p \in Op : op'[p].delivery = f /\ Going(op'[p]) => op'[p].done = 3
    <3>1. \A p \in Op : op'[p].delivery = f => op'[p] = op[p]
      BY <2>1, TakenRow
    <3> QED
      BY <1>3, <3>1 DEF Spent
  <2>4. delivery'[f] # None => delivery'[f].op = 0 \/ delivery'[f].status = "deployed"
    BY <1>3, <2>1 DEF Spent
  <2> QED
    BY <2>2, <2>3, <2>4 DEF Spent
<1>4. source.last # None => source.last \in Delivery
  BY DEF Base, TypesInv
<1>5. ASSUME NEW f \in Delivery, f = source'.last PROVE Calm(f)' \/ Spent(f)'
  BY <1>2, <1>3, <1>5, DeliveriesAssumption DEF LastInv
<1>6. source'.last # None => source'.last \in Delivery
  BY <1>4
<1> QED
  BY <1>5, <1>6 DEF LastInv, Calm, Spent

LEMMA EnqueueKeeps ==
  ASSUME PushInv, DeliveryInv', Enqueue
  PROVE  PushInv'
<1> DEFINE h == handling.delivery
<1>0. /\ Base /\ AheadInv /\ DeployedIsServed
      /\ HandlerInv /\ RecordInv /\ RetryInv /\ LastInv /\ Table(delivery) /\ TypesInv
      /\ DeliveryInv /\ TurnInv
  BY DEF PushInv, Base, TypesInv
<1>1. /\ delivery' = delivery /\ child' = child /\ app' = app /\ source' = source
      /\ handling # None /\ handling.pc = "recorded" /\ ~handling.late
  BY DEF Enqueue, At
<1>2. handling \in [delivery: Delivery, pc: HandlerPc, late: BOOLEAN,
                    op: Op \cup {0}, older: SUBSET Delivery]
  BY <1>0, <1>1 DEF DeliveryInv, RowsInv, HandlingOk
<1>3. /\ h \in Delivery /\ NewestOf(h)
      /\ delivery[h] # None => delivery[h].op = 0
      /\ handling.older # {} => source.last # None
  BY <1>0, <1>1, <1>2 DEF HandlerInv
<1>4. PICK o \in Op :
        /\ handling' = [handling EXCEPT !.pc = "enqueued", !.op = o]
        /\ \/ o \in SameKey(h) /\ op' = op
           \/ Takes(o, h, FALSE)
  <2> DEFINE next(o) == [handling EXCEPT !.pc = "enqueued", !.op = o]
             free == {o \in Op : op[o].delivery = None}
  <2>1. \/ \E o \in SameKey(h) : handling' = next(o) /\ op' = op
        \/ \E o \in free : /\ \A p \in free : o <= p
                           /\ op' = [op EXCEPT ![o] = FreshOp(h, FALSE)]
                           /\ handling' = next(o)
    BY DEF Enqueue
  <2> HIDE DEF next
  <2>2. SameKey(h) \subseteq Op
    BY DEF SameKey
  <2>3. \E o \in Op : handling' = next(o) /\ ((o \in SameKey(h) /\ op' = op) \/ Takes(o, h, FALSE))
    BY <2>1, <2>2 DEF Takes
  <2> QED
    BY <2>3 DEF next
<1>5. /\ handling'.delivery = h /\ handling'.pc = "enqueued" /\ handling'.late = handling.late
      /\ handling'.op = o /\ handling'.older = handling.older
  BY <1>2, <1>4
<1>6. Deployed' = Deployed /\ Recorded' = Recorded
  BY <1>1 DEF Deployed, Recorded
<1>7. ASSUME /\ op'[o].status # "none" /\ ~op'[o].retry
             /\ \A p \in Op : op'[p].status # "none" => ~OlderEvent(h, op'[p].delivery)
      PROVE  HandlerInv'
  <2>1. /\ \A r \in Recorded' : ~OlderEvent(h, r)
        /\ Timed(h) => Covers(delivery', h)
    BY <1>1, <1>3, <1>6 DEF NewestOf
  <2>2. NewestOf(handling.delivery)'
    BY <1>5, <1>7, <2>1 DEF NewestOf
  <2> HIDE DEF h
  <2> QED
    BY <1>1, <1>3, <1>5, <1>7, <2>2 DEF HandlerInv
<1>8. CASE o \in SameKey(h) /\ op' = op
  <2>1. Base'
    BY <1>0, <1>1, <1>8, SameBase DEF TypesInv
  <2>2. AheadInv' /\ DeployedIsServed'
    BY <1>0, <1>1, <1>6, <1>8, SameAhead
  <2>3. op[o].status # "none" /\ ~op[o].retry
    BY <1>0, <1>8 DEF SameKey, TurnInv, RowTurn
  <2>4. HandlerInv'
    BY <1>3, <1>7, <1>8, <2>3 DEF NewestOf
  <2>5. RecordInv'
    BY <1>0, <1>1, <1>8 DEF RecordInv
  <2>6. RetryInv'
    BY <1>0, <1>1, <1>8 DEF RetryInv, Owns
  <2>7. LastInv'
    BY <1>0, <1>1, <1>8 DEF LastInv, Calm, Coming, Spent
  <2> QED
    BY <2>1, <2>2, <2>4, <2>5, <2>6, <2>7 DEF PushInv
<1>9. CASE Takes(o, h, FALSE)
  <2>0. /\ op'[o].delivery = h /\ ~op'[o].retry /\ op'[o].status = "pending"
        /\ \A p \in Op \ {o} : op'[p] = op[p]
        /\ op[o].status = "none"
        /\ \A p \in Op : p < o => op[p].status # "none"
        /\ \A p \in Op : o < p => op[p].status = "none"
    BY <1>0, <1>3, <1>9, TakenRow
  <2>1. Base'
    BY <1>0, <1>1, <1>3, <1>9, TakenBase
  <2>2. AheadInv' /\ DeployedIsServed'
    BY <1>0, <1>1, <1>3, <1>6, <1>9, TakenAhead
  <2>3. \A p \in Op : op'[p].status # "none" => ~OlderEvent(h, op'[p].delivery)
    <3>1. ~OlderEvent(h, op'[o].delivery)
      BY <1>3, <2>0, NotOlderThanItself
    <3>2. \A p \in Op \ {o} : op'[p].status # "none" => ~OlderEvent(h, op'[p].delivery)
      BY <1>3, <2>0 DEF NewestOf
    <3> QED
      BY <3>1, <3>2
  <2>4. HandlerInv'
    BY <1>7, <2>0, <2>3
  <2>5. RecordInv'
    <3>1. \A p \in Op : op'[p].status # "none" /\ Timed(op'[p].delivery) => Covers(delivery, op'[p].delivery)
      BY <1>0, <1>3, <2>0 DEF RecordInv, NewestOf
    <3> QED
      BY <1>1, <3>1 DEF RecordInv
  <2>6. RetryInv'
    <3>1. ASSUME NEW p \in Op, op'[p].retry
          PROVE  \E q \in Op : ~op'[q].retry /\ op'[q].delivery = op'[p].delivery /\ op'[q].status \in OpOver
      <4>1. op'[p] = op[p]
        BY <2>0, <3>1
      <4>2. PICK q \in Op : ~op[q].retry /\ op[q].delivery = op[p].delivery /\ op[q].status \in OpOver
        BY <1>0, <3>1, <4>1 DEF RetryInv
      <4>3. op'[q] = op[q]
        BY <2>0, <4>2 DEF OpOver
      <4> QED
        BY <4>1, <4>2, <4>3
    <3>2. ASSUME source'.last = None, NEW p \in Op, op'[p].retry, Unfinished(op'[p]) PROVE Owns(p)'
      <4>1. op'[p] = op[p]
        BY <2>0, <3>2
      <4>2. Owns(p)
        BY <1>0, <1>1, <3>2, <4>1 DEF RetryInv
      <4> QED
        BY <1>1, <4>1, <4>2 DEF Owns
    <3>3. ASSUME NEW p \in Op, NEW q \in Op, op'[p].status # "none", ~op'[p].retry, q < p
          PROVE  ~OlderEvent(op'[p].delivery, op'[q].delivery)
      <4>1. CASE p = o
        <5>1. op'[q].status # "none"
          <6>1. q # o => op'[q].status # "none"
            BY <2>0, <3>3, <4>1
          <6> QED
            BY <2>0, <6>1
        <5> QED
          BY <2>0, <2>3, <4>1, <5>1
      <4>2. CASE p # o
        <5>1. q # o /\ op'[p] = op[p]
          BY <2>0, <3>3, <4>2
        <5> QED
          BY <1>0, <2>0, <3>3, <5>1 DEF RetryInv
      <4> QED
        BY <4>1, <4>2
    <3> QED
      BY <3>1, <3>2, <3>3 DEF RetryInv
  <2>7. LastInv'
    <3>1. ~Spent(h)
      BY <1>3 DEF Spent, NewestOf
    <3> QED
      BY <1>0, <1>1, <1>3, <1>9, <3>1, TakenLast
  <2> QED
    BY <2>1, <2>2, <2>4, <2>5, <2>6, <2>7 DEF PushInv
<1> QED
  BY <1>4, <1>8, <1>9

LEMMA RetryKeeps ==
  ASSUME PushInv, DeliveryInv', NEW o \in Op, RetryAsNew(o)
  PROVE  PushInv'
<1> DEFINE d == op[o].delivery
<1>0. /\ Base /\ AheadInv /\ DeployedIsServed
      /\ HandlerInv /\ RecordInv /\ RetryInv /\ LastInv /\ Table(delivery) /\ TypesInv
      /\ DeliveryInv /\ TurnInv
  BY DEF PushInv, Base, TypesInv
<1>1. /\ child' = child /\ app' = app /\ source' = source /\ handling' = None
      /\ op[o].status \in {"cancelled", "compensated"}
      /\ delivery[d] # None /\ delivery[d].op = o /\ delivery[d].status = "failed"
  BY DEF RetryAsNew
<1>2. PICK p \in Op :
        /\ Takes(p, d, TRUE)
        /\ delivery' = [delivery EXCEPT ![d].op = p, ![d].status = "queued"]
  BY DEF RetryAsNew, Takes
<1>3. d \in Delivery /\ d \in There(delivery) /\ delivery[d] \in DeliveryRow /\ op[o].status \in OpOver
      /\ op[o].status # "none" /\ o # 0 /\ p # 0
  <2>1. d \in Delivery /\ op[o].status \in OpOver /\ o # 0 /\ p # 0
    BY <1>0, <1>1 DEF DeliveryInv, RowsInv, RowOk, OpOver, Op
  <2>2. d \in There(delivery)
    BY <1>1, <2>1 DEF There
  <2> QED
    BY <1>0, <1>1, <2>1, <2>2, RowThere
<1> DEFINE row == [delivery[d] EXCEPT !.op = p, !.status = "queued"]
<1>4. delivery' = [delivery EXCEPT ![d] = row]
  BY <1>2
<1>5. row \in DeliveryRow /\ row.op = p /\ row.status = "queued" /\ row.seq = delivery[d].seq
  BY <1>3 DEF DeliveryRow, Active
<1> HIDE DEF row
<1>6. delivery'[d] = row /\ \A e \in Delivery \ {d} : delivery'[e] = delivery[e]
  BY <1>0, <1>3, <1>4 DEF Table
<1>7. Table(delivery') /\ There(delivery') = There(delivery)
  <2>1. delivery' \in [Delivery -> DeliveryRow \cup {None}]
    BY <1>0, <1>4, <1>5 DEF Table
  <2>2. There(delivery') = There(delivery)
    BY <1>3, <1>5, <1>6, RowsAssumption DEF There
  <2>3. \A e \in There(delivery) : delivery'[e].seq = delivery[e].seq
    BY <1>5, <1>6 DEF There
  <2> QED
    BY <1>0, <2>1, <2>2, <2>3, SameIds
<1>8. Deployed' = Deployed
  <2>1. Recorded' = Recorded
    BY <1>7 DEF Recorded, There
  <2> QED
    BY <1>1, <1>5, <1>6, <2>1 DEF Deployed, Recorded
<1>9. /\ op'[p].delivery = d /\ op'[p].retry /\ op'[p].status = "pending"
      /\ op'[p].pc = "idle" /\ op'[p].done = 0
      /\ \A q \in Op \ {p} : op'[q] = op[q]
      /\ op[p].status = "none"
      /\ \A q \in Op : p < q => op[q].status = "none"
  BY <1>0, <1>2, <1>3, TakenRow
<1>10. Base'
  BY <1>0, <1>1, <1>2, <1>3, <1>7, TakenBase
<1>11. AheadInv' /\ DeployedIsServed'
  BY <1>0, <1>1, <1>2, <1>3, <1>8, TakenAhead
<1>12. HandlerInv'
  BY <1>1 DEF HandlerInv
<1>13. RecordInv'
  <2>1. \A e : Covers(delivery', e) = Covers(delivery, e)
    BY <1>7 DEF Covers
  <2>2. \A q \in Op : op'[q].status # "none" /\ Timed(op'[q].delivery) => Covers(delivery, op'[q].delivery)
    BY <1>0, <1>3, <1>9 DEF RecordInv
  <2> QED
    BY <2>1, <2>2 DEF RecordInv
<1>14. RetryInv'
  <2>1. ASSUME NEW a \in Op, op'[a].retry
        PROVE  \E q \in Op : ~op'[q].retry /\ op'[q].delivery = op'[a].delivery /\ op'[q].status \in OpOver
    <3>1. PICK q \in Op : ~op[q].retry /\ op[q].delivery = op'[a].delivery /\ op[q].status \in OpOver
      <4>1. CASE a = p /\ ~op[o].retry
        BY <1>3, <1>9, <4>1
      <4>2. CASE a = p /\ op[o].retry
        BY <1>0, <1>9, <4>2 DEF RetryInv
      <4>3. CASE a # p
        BY <1>0, <1>9, <2>1, <4>3 DEF RetryInv
      <4> QED
        BY <4>1, <4>2, <4>3
    <3>2. op'[q] = op[q]
      BY <1>9, <3>1 DEF OpOver
    <3> QED
      BY <3>1, <3>2
  <2>2. ASSUME source'.last = None, NEW a \in Op, op'[a].retry, Unfinished(op'[a]) PROVE Owns(a)'
    <3>1. CASE a = p
      <4>1. delivery'[d] # None
        BY <1>5, <1>6, RowsAssumption
      <4> QED
        BY <1>5, <1>6, <1>9, <3>1, <4>1 DEF Owns
    <3>2. CASE a # p
      <4>1. op'[a] = op[a]
        BY <1>9, <3>2
      <4>2. Owns(a)
        BY <1>0, <1>1, <2>2, <4>1 DEF RetryInv
      <4>3. op[a].delivery \in Delivery /\ op[a].delivery # d
        BY <1>0, <1>1, <2>2, <4>1, <4>2 DEF DeliveryInv, RowsInv, RowOk, Unfinished, Owns
      <4>4. delivery'[op[a].delivery] = delivery[op[a].delivery]
        BY <1>6, <4>3
      <4> QED
        BY <4>1, <4>2, <4>4 DEF Owns
    <3> QED
      BY <3>1, <3>2
  <2>3. ASSUME NEW a \in Op, NEW b \in Op, op'[a].status # "none", ~op'[a].retry, b < a
        PROVE  ~OlderEvent(op'[a].delivery, op'[b].delivery)
    <3>1. a # p /\ op'[a] = op[a]
      BY <1>9, <2>3
    <3>2. b # p /\ op'[b] = op[b]
      BY <1>9, <2>3, <3>1
    <3> QED
      BY <1>0, <2>3, <3>1, <3>2 DEF RetryInv
  <2> QED
    BY <2>1, <2>2, <2>3 DEF RetryInv
<1>15. LastInv'
  <2>1. ~Spent(d)
    BY <1>1, <1>3 DEF Spent
  <2> QED
    BY <1>0, <1>1, <1>2, <1>3, <1>6, <2>1, TakenLast
<1> QED
  BY <1>10, <1>11, <1>12, <1>13, <1>14, <1>15 DEF PushInv

LEMMA PushInvStays ==
  ASSUME UntimedBelow, PushInv, [Next]_vars, DeliveryInv'
  PROVE  PushInv'
<1>0. Base /\ HandlerInv /\ DeliveryInv /\ TurnInv /\ ChildrenOk /\ TypesInv
  BY DEF PushInv, Base
<1>1. CASE HandlerStep
  <2>1. ASSUME NEW d \in Delivery, Receive(d) PROVE PushInv'
    BY <2>1, ReceiveKeeps
  <2>2. CASE Enqueue \/ Attach \/ Accept
    BY <2>2, EnqueueKeeps, AttachKeeps, AcceptKeeps
  <2>3. CASE \/ MarkStale \/ AttachThrows \/ MarkDuplicate \/ AnswerAccepted \/ ServerCrash
             \/ \E e \in Delivery : Supersede(e)
    BY <1>0, <2>3, HandlerIsOrdinary, OrdinaryKeepsAll
  <2> QED
    BY <1>1, <2>1, <2>2, <2>3 DEF HandlerStep
<1>2. CASE EngineStep
  BY <1>0, <1>2, EngineIsOrdinary, OrdinaryKeepsAll
<1>3. ASSUME NEW o \in Op, CancelOperation(o) \/ RetryAsNew(o) PROVE PushInv'
  BY <1>0, <1>3, OperatorIsOrdinary, OrdinaryKeepsAll, RetryKeeps
<1>4. CASE EngineCrash
  BY <1>0, <1>4, OperatorIsOrdinary, OrdinaryKeepsAll
<1>5. CASE UNCHANGED vars
  <2>1. /\ op' = op /\ child' = child /\ app' = app /\ source' = source
        /\ delivery' = delivery /\ handling' = handling
    BY <1>5 DEF vars
  <2>2. Ordinary
    BY <1>0, <2>1, AllTurn, SameKids, SameSource, SameRows, SameHandling DEF Ordinary
  <2> QED
    BY <2>2, OrdinaryKeepsAll
<1> QED
  BY <1>1, <1>2, <1>3, <1>4, <1>5 DEF Next

LEMMA PushInvInit == Init => PushInv
<1> SUFFICES ASSUME Init PROVE PushInv
  OBVIOUS
<1>1. DeliveryInv /\ ChildrenOk
  BY DeliveryInvInit
<1>2. /\ \A d \in Delivery : delivery[d] = None
      /\ \A o \in Op : op[o] = NoRow
      /\ \A o \in Op, t \in Target : child[o][t] = "none"
      /\ \A t \in Target : app[t] = None
      /\ source.last = None /\ handling = None
  BY DEF Init
<1>3. /\ NoRow.status = "none" /\ NoRow.pc = "idle" /\ NoRow.delivery = None /\ NoRow.done = 0
      /\ ~NoRow.retry
  BY DEF NoRow
<1>4. There(delivery) = {} /\ Recorded = {} /\ Deployed = {}
  BY <1>2 DEF There, Recorded, Deployed
<1>5. TypesInv
  <2>1. Table(delivery)
    <3>1. IsFiniteSet({})
      BY FS_EmptySet
    <3>2. delivery \in [Delivery -> DeliveryRow \cup {None}]
      BY DEF Init
    <3> QED
      BY <1>4, <3>1, <3>2 DEF Table
  <2>2. source \in [last: Delivery \cup {None},
                    status: {"", "queued", "building", "deployed", "failed"}]
    BY DEF Init
  <2>3. app \in [Target -> Delivery \cup {None}]
    BY DEF Init
  <2> QED
    BY <2>1, <2>2, <2>3 DEF TypesInv
<1>6. TurnInv
  <2>1. RowTurn(NoRow)
    BY <1>3 DEF RowTurn
  <2>2. \A o \in Op : Waiting(op[o]) /\ ~Going(op[o])
    BY <1>2, <1>3 DEF Waiting, Going
  <2> QED
    BY <1>2, <1>3, <2>1, <2>2 DEF TurnInv
<1>7. ChildInv
  BY <1>2, <1>3 DEF ChildInv, Served, Queued, Going
<1>8. AheadInv /\ DeployedIsServed
  BY <1>2, <1>4 DEF AheadInv, DeployedIsServed, Queued
<1>9. HandlerInv /\ RecordInv /\ RetryInv /\ LastInv
  BY <1>2, <1>3 DEF HandlerInv, RecordInv, RetryInv, LastInv
<1> QED
  BY <1>1, <1>5, <1>6, <1>7, <1>8, <1>9 DEF PushInv, Base

LEMMA PushInvHolds == ASSUME UntimedBelow PROVE Spec => []PushInv
<1>1. Init => PushInv
  BY PushInvInit
<1>2. PushInv /\ [Next]_vars /\ DeliveryInv' => PushInv'
  BY PushInvStays
<1> QED
  BY <1>1, <1>2, DeliveryInvHolds, PTL DEF Spec

(* Where no push without a timestamp was received after the time of one    *)
(* that has it: a delivery is only recorded as deployed when each app runs *)
(* its commit or a later one, or had its rollout cancelled by hand, and    *)
(* stays so (finish_delivery of webhook-build-source.ts, and the order of  *)
(* the children of src/engine/scheduler.ts).                               *)
THEOREM DeployedStaysServed == ASSUME UntimedBelow PROVE Spec => []DeployedIsServed
<1>1. PushInv => DeployedIsServed
  BY DEF PushInv
<1> QED
  BY <1>1, PushInvHolds, PTL

(* A child that is enqueued is that of the push the source last accepted   *)
(* (assertFreshDelivery), which is as new as all that runs or is on its    *)
(* way: handleGitHubBuildWebhook accepts no push that is late, and what an *)
(* operation finishes before the first one is accepted was not overtaken.  *)
LEMMA EnqueuedIsNewest ==
  ASSUME PushInv, [Next]_vars, NEW o \in Op, NEW t \in Target,
         child[o][t] = "none", child'[o][t] # "none", source.last # None, NEW d \in Coming(t)
  PROVE  ~OlderEvent(op[o].delivery, d)
<1>0. Base /\ LastInv /\ DeliveryInv /\ TurnInv /\ ChildrenOk
  BY DEF PushInv, Base
<1>1. Fresh(o)
  BY <1>0, ChildrenAreKept
<1>2. op[o].delivery = source.last
  BY <1>1 DEF Fresh
<1>3. CASE Calm(source.last)
  BY <1>2, <1>3 DEF Calm
<1>4. CASE Spent(source.last)
  <2>1. op[o].pc = "reconcile"
    BY <1>0, ChildrenAreKept
  <2>2. op[o].done = 2 /\ op[o].status = "running"
    BY <1>0, <2>1 DEF DeliveryInv, RowsInv, RowOk, InStep, TurnInv, RowTurn
  <2> QED
    BY <1>2, <1>4, <2>2 DEF Spent, Going
<1> QED
  BY <1>0, <1>3, <1>4 DEF LastInv

(* No push takes an app back: neither one that comes late or again, nor an *)
(* operation that is retried as new.                                       *)
THEOREM NothingGoesBack == ASSUME UntimedBelow PROVE Spec => NeverBackwards
<1>1. PushInv /\ [Next]_vars =>
        [\A o \in Op, t \in Target :
           child[o][t] = "none" /\ child'[o][t] # "none" /\ source.last # None
             => \A d \in Coming(t) : ~OlderEvent(op[o].delivery, d)]_vars
  BY EnqueuedIsNewest
<1> QED
  BY <1>1, PushInvHolds, PTL DEF NeverBackwards, Spec
=============================================================================
