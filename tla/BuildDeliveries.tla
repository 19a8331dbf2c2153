--------------------------- MODULE BuildDeliveries ---------------------------
(***************************************************************************)
(* Push webhooks: the handler of src/server/routes/build-webhooks.ts, the  *)
(* `build_source_deliveries` table, and the webhook_build_source operation *)
(* of src/engine/ops/webhook-build-source.ts, for one build source.        *)
(*                                                                         *)
(* The handler has no await after its payload is read, but its statements  *)
(* are transactions of their own.  The engine may be a process of its own  *)
(* (OCD_ENGINE=0, src/server/index.ts), so its steps interleave with them, *)
(* and either process may die between two of them.  A panel that runs its  *)
(* engine in process has a subset of these behaviours.                     *)
(***************************************************************************)
EXTENDS Integers, FiniteSets

CONSTANTS
  Delivery,    \* X-GitHub-Delivery identities
  Commit,      \* commits that are pushed
  Event,       \* Event[d]: the commit and time of the push, see EventType
  Target,      \* the attached apps and stacks, one child operation for each
  KeepNewest,  \* rows that compaction always keeps (100)
  MaxOps,      \* bound: webhook_build_source operations
  MaxActs,     \* bound: cancels and retries by operators
  MaxCrashes,  \* bound: deaths of either process
  None

Op == 1 .. MaxOps
NoTime == -1

(***************************************************************************)
(*   commit    payload.after                                               *)
(*   at        event_at, or NoTime when the payload has no timestamp       *)
(*   received  where received_at falls among the event times: the two are  *)
(*             compared as strings of different formats, by day first      *)
(***************************************************************************)
EventType == [commit: Commit, at: Nat \cup {NoTime}, received: Nat]

ASSUME DeliveriesAssumption ==
  /\ Event \in [Delivery -> EventType]
  /\ None \notin Delivery
  /\ KeepNewest \in Nat \ {0} /\ MaxOps \in Nat /\ MaxActs \in Nat /\ MaxCrashes \in Nat

Active == {"received", "queued", "building"}
Settled == {"deployed", "failed", "duplicate", "stale", "superseded"}

(* A row of build_source_deliveries; `seq` is its id.                      *)
DeliveryRow == [seq: Nat \ {0}, status: Active \cup Settled, op: Op \cup {0}]

ASSUME RowsAssumption == None \notin DeliveryRow

(* ALLOWED_TRANSITIONS. *)
Allowed(from, to) ==
  \/ from = to
  \/ from = "received" /\ to \in {"queued", "building", "failed", "duplicate", "stale", "superseded"}
  \/ from = "queued" /\ to \in {"building", "failed", "duplicate", "stale", "superseded"}
  \/ from = "building" /\ to \in {"deployed", "failed", "superseded"}

OpOver == {"cancelled", "done", "compensated", "compensation_failed"}
OpStatus == {"none", "pending", "running", "compensating"} \cup OpOver

(* `done` counts the recorded steps prepare, build, reconcile and finish;  *)
(* `pc` is where the live runner is: `prepared` and `finished` are between *)
(* the writes of a step and its row.  `retry` tells an operation enqueued  *)
(* without an idempotency key, `stuck` one whose compensation has thrown.   *)
OpPc == {"idle", "prepare", "prepared", "build", "building", "reconcile",
         "await", "finish", "finished", "undo"}
OpRow == [delivery: Delivery \cup {None}, retry: BOOLEAN, status: OpStatus,
          cancel: BOOLEAN, done: 0 .. 4, pc: OpPc, cancelled: BOOLEAN, stuck: BOOLEAN]
NoRow == [delivery |-> None, retry |-> FALSE, status |-> "none",
          cancel |-> FALSE, done |-> 0, pc |-> "idle", cancelled |-> FALSE,
          stuck |-> FALSE]

ChildStatus == {"none", "pending", "running", "done", "failed", "cancelled"}

(* The handler that is past its checks of the request, if there is one.    *)
HandlerPc == {"recorded", "enqueued", "attached", "accepted"}
Handler == [delivery: Delivery, pc: HandlerPc, late: BOOLEAN,
            op: Op \cup {0}, older: SUBSET Delivery]

VARIABLES
  delivery,  \* delivery[d]: the row of d, or None
  source,    \* last_delivery_id and last_status of the build source
  op,        \* op[o]: a webhook_build_source operation and its runner
  child,     \* child[o][t]: the child operation that applies the manifest of t
  app,       \* app[t]: the delivery whose commit t runs, None at first
  handling,  \* the handler in progress, or None
  acts, crashes

vars == <<delivery, source, op, child, app, handling, acts, crashes>>

Init ==
  /\ delivery = [d \in Delivery |-> None]
  /\ source = [last |-> None, status |-> ""]
  /\ op = [o \in Op |-> NoRow]
  /\ child = [o \in Op |-> [t \in Target |-> "none"]]
  /\ app = [t \in Target |-> None]
  /\ handling = None
  /\ acts = 0
  /\ crashes = 0

TypeOK ==
  /\ delivery \in [Delivery -> DeliveryRow \cup {None}]
  /\ source \in [last: Delivery \cup {None},
                 status: {"", "queued", "building", "deployed", "failed"}]
  /\ op \in [Op -> OpRow]
  /\ child \in [Op -> [Target -> ChildStatus]]
  /\ app \in [Target -> Delivery \cup {None}]
  /\ handling \in Handler \cup {None}
  /\ acts \in 0 .. MaxActs
  /\ crashes \in 0 .. MaxCrashes

-----------------------------------------------------------------------------
(* The deliveries table. *)

Recorded == {d \in Delivery : delivery[d] # None}
Timed(d) == Event[d].at # NoTime
SortKey(d) == IF Timed(d) THEN Event[d].at ELSE Event[d].received

(* ORDER BY COALESCE(event_at, received_at), id *)
Precedes(rows, d, e) ==
  \/ SortKey(d) < SortKey(e)
  \/ SortKey(d) = SortKey(e) /\ rows[d].seq < rows[e].seq

(* getLatestBuildSourceDelivery: the last row in that order, if any.       *)
Latest == {d \in Recorded : \A e \in Recorded \ {d} : Precedes(delivery, e, d)}

(* compactBuildSourceDeliveries.  Ids only matter by their order, so the   *)
(* rows that are left are numbered anew.                                   *)
Compacted(rows) ==
  LET there == {d \in Delivery : rows[d] # None}
      newer(d) == {e \in there : Precedes(rows, d, e)}
      kept == {d \in there : \/ rows[d].status \in Active
                             \/ Cardinality(newer(d)) < KeepNewest}
      seq(d) == Cardinality({e \in kept : rows[e].seq <= rows[d].seq})
  IN  [d \in Delivery |-> IF d \in kept THEN [rows[d] EXCEPT !.seq = seq(d)] ELSE None]

(* updateBuildSourceDeliveryStatus, where it does not throw.               *)
CanBecome(d, s) == delivery[d] # None /\ Allowed(delivery[d].status, s)
Marked(d, s) == [delivery EXCEPT ![d].status = s]

ActiveDeliveries == {d \in Recorded : delivery[d].status \in Active}

-----------------------------------------------------------------------------
(* handleGitHubBuildWebhook, for a push that passes its checks. *)

Answered == handling' = None

(* requestCancel. *)
CancelAsked(r) ==
  CASE r.status = "pending" -> [r EXCEPT !.status = "cancelled"]
    [] r.status \in {"running", "compensating"} -> [r EXCEPT !.cancel = TRUE]
    [] OTHER -> r

(* An event that is not newer than the newest one on record is late. *)
(* Mutant: no event is late. *)
NeverLate(d) == FALSE
Late(d) == \E e \in Latest \ {d} : Timed(d) /\ Timed(e) /\ Event[d].at <= Event[e].at

(* getLatestBuildSourceDelivery, then recordBuildSourceDelivery.  A row    *)
(* that has its operation is only answered with it.                        *)
Receive(d) ==
  /\ handling = None
  /\ delivery[d] # None => delivery[d].op = 0
  /\ IF delivery[d] = None
     THEN delivery' = [delivery EXCEPT ![d] =
            [seq |-> Cardinality(Recorded) + 1, status |-> "received", op |-> 0]]
     ELSE UNCHANGED delivery
  /\ handling' = [delivery |-> d, pc |-> "recorded", late |-> Late(d), op |-> 0, older |-> {}]
  /\ UNCHANGED <<source, op, child, app, acts, crashes>>

At(pc) == handling # None /\ handling.pc = pc

MarkStale ==
  /\ At("recorded")
  /\ handling.late
  /\ LET d == handling.delivery
     IN  delivery' = IF CanBecome(d, "stale") THEN Compacted(Marked(d, "stale")) ELSE delivery
  /\ Answered
  /\ UNCHANGED <<source, op, child, app, acts, crashes>>

(* enqueue: the idempotency key names the source and the commit. *)
(* Mutant: the key finds live operations only. *)
LiveWithKey(d) ==
  {o \in Op : op[o].delivery # None /\ ~op[o].retry /\ op[o].status \notin OpOver
              /\ Event[op[o].delivery].commit = Event[d].commit}
SameKey(d) ==
  {o \in Op : op[o].delivery # None /\ ~op[o].retry
              /\ Event[op[o].delivery].commit = Event[d].commit}
FreshOp(d, retried) == [NoRow EXCEPT !.delivery = d, !.retry = retried, !.status = "pending"]

Enqueue ==
  /\ At("recorded")
  /\ ~handling.late
  /\ LET d == handling.delivery
         same == SameKey(d)
         free == {o \in Op : op[o].delivery = None}
     IN  \/ \E o \in same : /\ handling' = [handling EXCEPT !.pc = "enqueued", !.op = o]
                            /\ UNCHANGED op
         \/ \E o \in free :
              /\ same = {}
              /\ \A p \in free : o <= p
              /\ op' = [op EXCEPT ![o] = FreshOp(d, FALSE)]
              /\ handling' = [handling EXCEPT !.pc = "enqueued", !.op = o]
  /\ UNCHANGED <<delivery, source, child, app, acts, crashes>>

(* attachBuildSourceDeliveryOperation.  The row may be gone already, when   *)
(* the operation has run before it is attached.                            *)
Attachable ==
  /\ delivery[handling.delivery] # None
  /\ delivery[handling.delivery].op \in {0, handling.op}

AttachThrows ==
  /\ At("enqueued")
  /\ ~Attachable
  /\ Answered
  /\ UNCHANGED <<delivery, source, op, child, app, acts, crashes>>

Attach ==
  /\ At("enqueued")
  /\ Attachable
  /\ delivery' = [delivery EXCEPT
       ![handling.delivery].op = handling.op,
       ![handling.delivery].status = IF @ = "received" THEN "queued" ELSE @]
  /\ handling' = [handling EXCEPT !.pc = "attached"]
  /\ UNCHANGED <<source, op, child, app, acts, crashes>>

(* The operation is another delivery's, or over already. *)
IsDuplicate ==
  LET o == handling.op
  IN  op[o].delivery # handling.delivery \/ op[o].status \in OpOver

MarkDuplicate ==
  /\ At("attached")
  /\ IsDuplicate
  /\ LET d == handling.delivery
     IN  delivery' = IF CanBecome(d, "duplicate")
                     THEN Compacted(Marked(d, "duplicate")) ELSE delivery
  /\ Answered
  /\ UNCHANGED <<source, op, child, app, acts, crashes>>

(* The active deliveries an accepted one supersedes. *)
Older(d) ==
  {e \in ActiveDeliveries \ {d} :
     /\ Timed(d) /\ Timed(e)
     /\ delivery[e].op # handling.op
     /\ \/ Event[e].at < Event[d].at
        \/ Event[e].at = Event[d].at /\ delivery[e].seq < delivery[d].seq}

Accept ==
  /\ At("attached")
  /\ ~IsDuplicate
  /\ source' = [last |-> handling.delivery, status |-> "queued"]
  /\ handling' = [handling EXCEPT !.pc = "accepted", !.older = Older(handling.delivery)]
  /\ UNCHANGED <<delivery, op, child, app, acts, crashes>>

(* One turn of the loop: the delivery is superseded and its operation      *)
(* asked to cancel.  A row that has moved on meanwhile makes it throw.     *)
Supersede(e) ==
  /\ At("accepted")
  /\ e \in handling.older
  /\ IF CanBecome(e, "superseded")
     THEN /\ delivery' = Marked(e, "superseded")
          /\ op' = IF delivery[e].op = 0 THEN op
                   ELSE [op EXCEPT ![delivery[e].op] = CancelAsked(@)]
          /\ handling' = [handling EXCEPT !.older = @ \ {e}]
     ELSE /\ Answered
          /\ UNCHANGED <<delivery, op>>
  /\ UNCHANGED <<source, child, app, acts, crashes>>

AnswerAccepted ==
  /\ At("accepted")
  /\ handling.older = {}
  /\ delivery' = Compacted(delivery)
  /\ Answered
  /\ UNCHANGED <<source, op, child, app, acts, crashes>>

(* The server dies, at worst between superseding a row and its cancel.     *)
ServerCrash ==
  /\ handling # None
  /\ crashes < MaxCrashes
  /\ crashes' = crashes + 1
  /\ \/ UNCHANGED delivery
     \/ \E e \in handling.older :
          /\ CanBecome(e, "superseded")
          /\ delivery' = Marked(e, "superseded")
  /\ Answered
  /\ UNCHANGED <<source, op, child, app, acts>>

HandlerStep ==
  \/ \E d \in Delivery : Receive(d)
  \/ MarkStale \/ Enqueue \/ Attach \/ AttachThrows \/ MarkDuplicate \/ Accept
  \/ \E e \in Delivery : Supersede(e)
  \/ AnswerAccepted
  \/ ServerCrash

-----------------------------------------------------------------------------
(* The operation.  The saga runner is src/engine/step-runner.ts; only the  *)
(* first step has a compensation.                                          *)

Running(o, pc) == op[o].pc = pc

(* findSupersedingOperation: every operation of the source has its key.    *)
HasSuccessor(o) == \E p \in Op : p > o /\ op[p].status # "none"

Finished(r, s) == [r EXCEPT !.status = s, !.cancel = FALSE, !.pc = "idle"]

(* runCompensation up to prepare_source's compensate, if it is owed.       *)
Compensation(o, r) ==
  LET outcome == IF r.cancelled THEN "cancelled" ELSE "compensated"
  IN  IF r.done = 0 \/ HasSuccessor(o) THEN Finished(r, outcome)
      ELSE [r EXCEPT !.pc = "undo"]

Failed(o, r) ==
  Compensation(o, [r EXCEPT !.status = "compensating", !.cancelled = r.cancel, !.cancel = FALSE])

(* The forward loop after `n` recorded steps. *)
Forward(o, r, n) ==
  IF n = 4 THEN Finished([r EXCEPT !.done = 4], "done")
  ELSE IF r.cancel THEN Failed(o, [r EXCEPT !.done = n])
  ELSE [r EXCEPT !.done = n, !.pc = <<"prepare", "build", "reconcile", "finish">>[n + 1]]

(* assertFreshDelivery. *)
(* Mutant: the delivery is taken for fresh. *)
AlwaysFresh(o) == TRUE
Fresh(o) ==
  LET d == op[o].delivery
  IN  /\ ~op[o].cancel
      /\ delivery[d] # None => delivery[d].status \notin {"stale", "superseded"}
      /\ source.last \in {None, d}

(* The key build-source:<id> is free. *)
KeyFree == \A o \in Op : op[o].pc = "idle"

Start(o) ==
  /\ KeyFree
  /\ \/ /\ op[o].status = "pending"
        /\ \A p \in Op : p < o => op[p].status # "pending"
        /\ op' = [op EXCEPT ![o] = Forward(o, [@ EXCEPT !.status = "running"], @.done)]
     \/ /\ op[o].status = "compensating"
        /\ op' = [op EXCEPT ![o] = Compensation(o, [@ EXCEPT !.cancelled = FALSE])]
  /\ UNCHANGED <<delivery, source, child, app, handling, acts, crashes>>

(* A step throws: it was not fresh, or what it needs is missing or fails.  *)
StepThrows(o) ==
  /\ op[o].pc \in {"prepare", "build", "building", "reconcile"}
  /\ op' = [op EXCEPT ![o] = Failed(o, @)]
  /\ UNCHANGED <<delivery, source, child, app, handling, acts, crashes>>

(* finishStep writes the row of a step whose own writes are done. *)
StepReturns(o) ==
  /\ op[o].pc \in {"prepared", "building", "finished"}
  /\ op' = [op EXCEPT ![o] = Forward(o, @, @.done + 1)]
  /\ UNCHANGED <<delivery, source, child, app, handling, acts, crashes>>

PrepareSource(o) ==
  LET d == op[o].delivery
  IN  /\ Running(o, "prepare")
      /\ Fresh(o)
      /\ delivery[d] # None => delivery[d].op \in {0, o} /\ CanBecome(d, "building")
      /\ delivery' = IF delivery[d] = None THEN delivery ELSE Marked(d, "building")
      /\ source' = [source EXCEPT !.status = "building"]
      /\ op' = [op EXCEPT ![o].pc = "prepared"]
      /\ UNCHANGED <<child, app, handling, acts, crashes>>

(* The probe of build_images and its run both begin with the assertion.    *)
BuildImages(o) ==
  /\ Running(o, "build")
  /\ Fresh(o)
  /\ op' = [op EXCEPT ![o].pc = "building"]
  /\ UNCHANGED <<delivery, source, child, app, handling, acts, crashes>>

(* child(): the next target's operation, found again by its key.           *)
Enqueued(o) == {t \in Target : child[o][t] # "none"}

ReconcileManifest(o) ==
  /\ Running(o, "reconcile")
  /\ Fresh(o)
  /\ \E t \in Target :
       /\ child[o][t] = "none" \/ Enqueued(o) = Target
       /\ child' = [child EXCEPT ![o][t] = IF @ = "none" THEN "pending" ELSE @]
  /\ op' = [op EXCEPT ![o].pc = "await"]
  /\ UNCHANGED <<delivery, source, app, handling, acts, crashes>>

(* Mutant: a child that has started is not waited for. *)
OutstandingInQueue(o) == {t \in Target : child[o][t] = "pending"}
Outstanding(o) == {t \in Target : child[o][t] \in {"pending", "running"}}

PassCancelOn(o) ==
  /\ Running(o, "await")
  /\ op[o].cancel
  /\ \E t \in Outstanding(o) : child[o][t] = "pending"
  /\ child' = [child EXCEPT ![o] = [t \in Target |->
                  IF @[t] = "pending" THEN "cancelled" ELSE @[t]]]
  /\ UNCHANGED <<delivery, source, op, app, handling, acts, crashes>>

(* A cancelled child does not count as failed. *)
AwaitThrows(o) ==
  /\ Running(o, "await")
  /\ Outstanding(o) = {}
  /\ op[o].cancel \/ \E t \in Target : child[o][t] = "failed"
  /\ op' = [op EXCEPT ![o] = Failed(o, @)]
  /\ UNCHANGED <<delivery, source, child, app, handling, acts, crashes>>

ChildrenSettled(o) ==
  /\ Running(o, "await")
  /\ Outstanding(o) = {}
  /\ ~op[o].cancel
  /\ \A t \in Target : child[o][t] # "failed"
  /\ op' = [op EXCEPT ![o] = IF Enqueued(o) = Target THEN Forward(o, @, 3)
                             ELSE [@ EXCEPT !.pc = "reconcile"]]
  /\ UNCHANGED <<delivery, source, child, app, handling, acts, crashes>>

(* The build source is written first, and stays written when the row's     *)
(* transition throws.                                                      *)
FinishDelivery(o) ==
  LET d == op[o].delivery
  IN  /\ Running(o, "finish")
      /\ Fresh(o)
      /\ source' = [last |-> d, status |-> "deployed"]
      /\ IF delivery[d] = None \/ CanBecome(d, "deployed")
         THEN /\ delivery' = Compacted(IF delivery[d] = None THEN delivery
                                       ELSE Marked(d, "deployed"))
              /\ op' = [op EXCEPT ![o].pc = "finished"]
         ELSE /\ op' = [op EXCEPT ![o] = Failed(o, @)]
              /\ UNCHANGED delivery
      /\ UNCHANGED <<child, app, handling, acts, crashes>>

FinishRejected(o) ==
  /\ Running(o, "finish")
  /\ ~Fresh(o)
  /\ op' = [op EXCEPT ![o] = Failed(o, @)]
  /\ UNCHANGED <<delivery, source, child, app, handling, acts, crashes>>

(* compensate of prepare_source, and the end of the reverse walk. *)
UndoPrepare(o) ==
  LET d == op[o].delivery
      open == delivery[d] # None /\ delivery[d].status \notin {"stale", "superseded"}
  IN  /\ Running(o, "undo")
      /\ open => CanBecome(d, "failed")
      /\ delivery' = Compacted(IF open THEN Marked(d, "failed") ELSE delivery)
      /\ source' = IF source.last \in {None, d} THEN [source EXCEPT !.status = "failed"]
                   ELSE source
      /\ op' = [op EXCEPT ![o] = Finished(@, IF @.cancelled THEN "cancelled" ELSE "compensated")]
      /\ UNCHANGED <<child, app, handling, acts, crashes>>

(* The transition throws: the row stays in compensating for another pass,  *)
(* until the stuck-state sweep gives up.                                   *)
UndoThrows(o) ==
  LET d == op[o].delivery
  IN  /\ Running(o, "undo")
      /\ delivery[d] # None
      /\ delivery[d].status \notin {"stale", "superseded"}
      /\ ~CanBecome(d, "failed")
      /\ op' = [op EXCEPT ![o].pc = "idle", ![o].stuck = TRUE]
      /\ UNCHANGED <<delivery, source, child, app, handling, acts, crashes>>

SweepExhausted(o) ==
  /\ op[o].status = "compensating"
  /\ op[o].stuck
  /\ Running(o, "idle")
  /\ op' = [op EXCEPT ![o] = Finished(@, "compensation_failed")]
  /\ UNCHANGED <<delivery, source, child, app, handling, acts, crashes>>

-----------------------------------------------------------------------------
(* The children, in the order of their queue, one per target at a time.    *)
(* What they do is modelled elsewhere; here they roll a commit out, fail   *)
(* before or after they did, or are cancelled.                             *)

ChildStarts(o, t) ==
  /\ child[o][t] = "pending"
  /\ \A p \in Op : child[p][t] # "running" /\ (p < o => child[p][t] # "pending")
  /\ child' = [child EXCEPT ![o][t] = "running"]
  /\ UNCHANGED <<delivery, source, op, app, handling, acts, crashes>>

ChildEnds(o, t) ==
  /\ child[o][t] = "running"
  /\ \E s \in {"done", "failed", "cancelled"} : child' = [child EXCEPT ![o][t] = s]
  /\ \/ app' = [app EXCEPT ![t] = op[o].delivery]
     \/ child'[o][t] # "done" /\ UNCHANGED app
  /\ UNCHANGED <<delivery, source, op, handling, acts, crashes>>

-----------------------------------------------------------------------------
(* The operator's routes, which the server does not run amid the webhook   *)
(* handler, and the end of the engine process.                             *)

CancelOperation(o) ==
  /\ handling = None
  /\ op[o].status \in {"pending", "running", "compensating"}
  /\ acts < MaxActs
  /\ acts' = acts + 1
  /\ op' = [op EXCEPT ![o] = CancelAsked(@)]
  /\ UNCHANGED <<delivery, source, child, app, handling, crashes>>

(* retryWebhookOperationAsNew: a new operation takes the delivery over. *)
RetryAsNew(o) ==
  LET d == op[o].delivery
      free == {p \in Op : op[p].delivery = None}
  IN  /\ handling = None
      /\ op[o].status \in {"cancelled", "compensated"}
      /\ acts < MaxActs
      /\ delivery[d] # None
      /\ delivery[d].op = o
      /\ delivery[d].status = "failed"
      /\ \E p \in free :
           /\ \A q \in free : p <= q
           /\ op' = [op EXCEPT ![p] = FreshOp(d, TRUE)]
           /\ delivery' = [delivery EXCEPT ![d].op = p, ![d].status = "queued"]
      /\ acts' = acts + 1
      /\ UNCHANGED <<source, child, app, handling, crashes>>

EngineCrash ==
  /\ crashes < MaxCrashes
  /\ crashes' = crashes + 1
  /\ op' = [o \in Op |->
       [op[o] EXCEPT !.pc = "idle", !.cancelled = FALSE,
                     !.status = IF @ = "running" THEN "pending" ELSE @]]
  /\ UNCHANGED <<delivery, source, child, app, handling, acts>>

-----------------------------------------------------------------------------
RunnerStep(o) ==
  \/ StepThrows(o) \/ StepReturns(o)
  \/ PrepareSource(o) \/ BuildImages(o) \/ ReconcileManifest(o)
  \/ PassCancelOn(o) \/ AwaitThrows(o) \/ ChildrenSettled(o)
  \/ FinishDelivery(o) \/ FinishRejected(o)
  \/ UndoPrepare(o) \/ UndoThrows(o)

EngineStep ==
  \E o \in Op :
    \/ Start(o) \/ RunnerStep(o) \/ SweepExhausted(o)
    \/ \E t \in Target : ChildStarts(o, t) \/ ChildEnds(o, t)

Next ==
  \/ HandlerStep
  \/ EngineStep
  \/ \E o \in Op : CancelOperation(o) \/ RetryAsNew(o)
  \/ EngineCrash

Spec == Init /\ [][Next]_vars
=============================================================================
