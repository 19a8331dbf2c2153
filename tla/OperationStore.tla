--------------------------- MODULE OperationStore ---------------------------
(***************************************************************************)
(* The durable half of the operation engine: the `operations` and          *)
(* `operation_steps` tables as src/shared/db/operations.ts reads and       *)
(* writes them.  An operation row is split into its immutable request      *)
(* envelope (`req`, `parent`) and the mutable record `row`.                *)
(*                                                                         *)
(* The step log is kept as the two sets the code derives from it: the      *)
(* forward steps with a row that is ok or skipped, and the compensations   *)
(* with such a row.  Rows in any other status (started, executing, failed) *)
(* are read by nothing that decides what runs next, so they are dropped;   *)
(* with them abandonInFlightSteps becomes the identity.                    *)
(***************************************************************************)
EXTENDS Integers, FiniteSets

CONSTANTS
  MaxOps,       \* bound: rows the operations table may hold
  MaxAttempts,  \* MAX_COMPENSATION_ATTEMPTS of the stuck-state sweep
  Request,      \* request envelopes: an op kind together with its input
  NoRequest,    \* the envelope of a row that does not exist yet
  Key,          \* resource keys
  MemberKey,    \* the resource keys that start with "app:"
  Resource,     \* the side effects steps leave in the world
  Shape         \* what each request envelope stands for, see ShapeType

Op == 1 .. MaxOps
NoOp == 0

(***************************************************************************)
(* What the registry and the envelope say of a request.  Steps are         *)
(* numbered in the order of def.steps.                                     *)
(*   keys      resource_keys, the keys the scheduler locks                 *)
(*   identity  expandedResourceKeys, the identities the op may own         *)
(*   known     getOp(kind) finds a definition                              *)
(*   destroys  the kind starts with "destroy_"                             *)
(*   steps     def.steps.length                                            *)
(*   undo      the steps with a compensate function                        *)
(*   probed    the steps with a probe                                      *)
(*   goneCheck the steps with a probeCompensated                           *)
(*   effect    <<step, resource>>: the side effect of the step's run       *)
(*   spawns    <<step, request>>: the children its run enqueues            *)
(***************************************************************************)
ShapeType ==
  [keys: SUBSET Key, identity: SUBSET Key, known: BOOLEAN, destroys: BOOLEAN,
   steps: Nat, undo: SUBSET Nat, probed: SUBSET Nat, goneCheck: SUBSET Nat,
   effect: SUBSET (Nat \X Resource), spawns: SUBSET (Nat \X Request)]

ASSUME StoreAssumption ==
  /\ MaxOps \in Nat
  /\ MaxAttempts \in Nat \ {0}
  /\ MemberKey \subseteq Key
  /\ NoRequest \notin Request
  /\ Shape \in [Request -> ShapeType]
  /\ \A r \in Request : Shape[r].keys \subseteq Shape[r].identity

Terminal == {"done", "failed", "cancelled", "compensated", "compensation_failed"}
Status == {"none", "pending", "running", "compensating"} \cup Terminal

Row == [status: Status, attempt: 0 .. MaxAttempts, cancelReq: BOOLEAN,
        fwd: SUBSET Nat, undone: SUBSET Nat]

NoRow == [status |-> "none", attempt |-> 0, cancelReq |-> FALSE,
          fwd |-> {}, undone |-> {}]
FreshRow == [NoRow EXCEPT !.status = "pending"]

VARIABLES
  req,     \* req[o]: the envelope (kind, resource_keys, input_json)
  parent,  \* parent[o]: parent_id, or NoOp
  row      \* row[o]: status, attempt, the cancel flag in error_json, step log

storeVars == <<req, parent, row>>

StoreInit ==
  /\ req = [o \in Op |-> NoRequest]
  /\ parent = [o \in Op |-> NoOp]
  /\ row = [o \in Op |-> NoRow]

StoreTypeOK ==
  /\ req \in [Op -> Request \cup {NoRequest}]
  /\ parent \in [Op -> Op \cup {NoOp}]
  /\ row \in [Op -> Row]
  /\ \A o \in Op : row[o].status # "none" <=> req[o] \in Request

-----------------------------------------------------------------------------
(* Queries. *)

Exists(o) == row[o].status # "none"
KeysOf(o) == IF req[o] \in Request THEN Shape[req[o]].keys ELSE {}
IdentityOf(o) == IF req[o] \in Request THEN Shape[req[o]].identity ELSE {}
StepsOf(o) == 1 .. Shape[req[o]].steps
UndoOf(o) == Shape[req[o]].undo
EffectOf(o, i) == {e[2] : e \in {x \in Shape[req[o]].effect : x[1] = i}}
SpawnsOf(o, i) == {e[2] : e \in {x \in Shape[req[o]].spawns : x[1] = i}}

(* The children a step waits for: awaitChildren with the step's childIds.  *)
(* The idempotency key makes a child unique per parent, step and request.  *)
Children(o, i) == {c \in Op : Exists(c) /\ parent[c] = o /\ req[c] \in SpawnsOf(o, i)}

Pending == {o \in Op : row[o].status = "pending"}

(* ORDER BY enqueued_at ASC; ids are given out in the same order. *)
(* Mutant: the queue is read newest first. *)
NewestFirst(p, o) == p > o
ListedBefore(p, o) == p < o

(* listPendingOperations(limit): the `limit` oldest pending rows. *)
OldestPending(limit) ==
  {o \in Pending : Cardinality({p \in Pending : ListedBefore(p, o)}) < limit}

(* The steps of o without a completed forward row in r. *)
(* Mutant: completed forward rows are not read back. *)
AllSteps(o, r) == StepsOf(o)
Unrecorded(o, r) == StepsOf(o) \ r.fwd

(* isCancelRequested: the row was cancelled outright, or carries the flag. *)
(* Mutant: the flag in error_json is not looked at. *)
CancelledOutright(r) == r.status = "cancelled"
CancelRequested(r) == r.status = "cancelled" \/ r.cancelReq

(* One later row claims an identity of o.  Two member operations are       *)
(* compared on their app identities alone.                                 *)
Supersedes(p, o) ==
  LET mine   == IdentityOf(o)
      theirs == IdentityOf(p)
      bothMembers == mine \cap MemberKey # {} /\ theirs \cap MemberKey # {}
  IN  /\ p > o
      /\ Exists(p)
      /\ mine \cap theirs # {}
      /\ bothMembers => mine \cap theirs \cap MemberKey # {}

(* Mutant: the ownership fence is dropped. *)
NeverSuperseded(o) == FALSE
Superseded(o) == \E p \in Op : Supersedes(p, o)

(* The parent chain: whatever every set that is closed under parent_id and *)
(* holds o's parent has in it.                                             *)
Ancestors(o) ==
  {a \in Op : \A S \in SUBSET Op :
     (\A n \in S \cup {o} : parent[n] \in S \cup {NoOp}) => a \in S}

(* Mutant: the child asks for its own newer owner, not its parents'. *)
OnlySelfSuperseded(o) == Superseded(o)
AncestorSuperseded(o) == \E a \in Ancestors(o) : Superseded(a)

-----------------------------------------------------------------------------
(* Updates.  Each takes the row before and gives the row after. *)

(* attempt is only ever compared with MaxAttempts, so it saturates there. *)
(* Mutant: attempt grows without the saturation. *)
BumpedForever(r) == [r EXCEPT !.attempt = r.attempt + 1]
Bumped(r) ==
  [r EXCEPT !.attempt = IF r.attempt < MaxAttempts THEN r.attempt + 1 ELSE r.attempt]

MarkRunning(r) == [Bumped(r) EXCEPT !.status = "running"]

(* error_json is overwritten, and with it the cancel_requested flag. *)
MarkFinished(r, s) == [r EXCEPT !.status = s, !.cancelReq = FALSE]
MarkCompensating(r) == [r EXCEPT !.status = "compensating", !.cancelReq = FALSE]

(* requestCancel leaves a terminal row alone. *)
Cancelled(r) ==
  CASE r.status = "pending" -> [r EXCEPT !.status = "cancelled"]
    [] r.status \in {"running", "compensating"} -> [r EXCEPT !.cancelReq = TRUE]
    [] OTHER -> r

(* Mutant: every retried operation goes back to pending. *)
RequeuedForward(r) == [r EXCEPT !.status = "pending", !.cancelReq = FALSE]
Requeued(r) ==
  [r EXCEPT !.status = IF r.status \in {"compensation_failed", "compensating"}
                       THEN "compensating" ELSE "pending",
            !.cancelReq = FALSE]

(* INSERT INTO operations: the next id, an envelope and an optional parent. *)
Insert(r, p) ==
  \E o \in Op :
    /\ ~Exists(o)
    /\ \A q \in Op : q < o => Exists(q)
    /\ req' = [req EXCEPT ![o] = r]
    /\ parent' = [parent EXCEPT ![o] = p]
    /\ row' = [row EXCEPT ![o] = FreshRow]
=============================================================================
