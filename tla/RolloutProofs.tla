---------------------------- MODULE RolloutProofs ----------------------------
(***************************************************************************)
(* Theorems about rollouts, for every number of replicas and every set of  *)
(* images, operations, faults and edits.                                   *)
(***************************************************************************)
EXTENDS RolloutProperties, FiniteSetTheorems, TLAPS

(* The steps that are over when the health check of an operation is.       *)
HealthPc(k) ==
  CASE k = "redeploy" -> 5 [] k = "release" -> 7 [] k = "rollback" -> 4
    [] k = "promote" -> 5 [] k = "reload_app" -> 9

ForwardPh == {"go", "start", "probe", "attest", "post", "wrote"}
BackPh == {"undo", "restore", "reprobe", "restored"}

Picture == Image \cup {None}
Lab == [image: Picture, rev: Nat]
AppRec == [st: AppStatus, image: Picture, rev: Nat, wanted: Nat, after: Nat]
OpRec == [kind: Kind, image: Picture, st: OpStatus, pc: Nat,
          undo: SUBSET Undoable, built: Picture, snap: Lab,
          prev: AppStatus, dir: Picture, cancel: BOOLEAN, tried: BOOLEAN]
RunRec == [op: Nat, r: Replica, goal: Lab, prev: AppStatus, bad: BOOLEAN,
           ph: {"idle"} \cup ForwardPh \cup BackPh]

(* What is deployed became ready once.                                     *)
DepRec == [op: Nat, image: Picture \ Broken, rev: Nat]

(* What an operation that is past its health check built is sound; one that*)
(* undoes itself has not forgotten its snapshot.                           *)
Row == {x \in OpRec :
  /\ x.pc <= Len(Steps(x.kind))
  /\ x.pc >= HealthPc(x.kind) => x.built \notin Broken
  /\ x.st = "compensating" /\ Has(x, "snapshot") => "snapshot" \in x.undo}

(* How the runner rn is placed on the row x of its operation.              *)
Fits(x, rn) ==
  /\ rn.ph \in ForwardPh =>
       /\ x.st = "running" /\ x.pc < Len(Steps(x.kind))
       /\ LET s == Steps(x.kind)[x.pc + 1] IN
          /\ s = "reload" => rn.goal.image \notin Broken
          /\ s \in {"roll", "health"} => rn.goal.image = x.built
          /\ s = "health" /\ rn.ph \in {"post", "wrote"} => x.built \notin Broken
          /\ rn.ph \in {"start", "probe", "post"} \/ rn.r # 1 => s \in {"roll", "reload", "health"}
          /\ s = "health" /\ x.kind \in {"rollback", "promote"} => rn.r = 1
  /\ rn.ph \in BackPh => x.st = "compensating" /\ rn.r = 1
  /\ rn.ph \in {"restore", "reprobe", "restored"} => x.undo = {"snapshot"}

TypeInv ==
  /\ app \in AppRec
  /\ replica \in [Replica -> [st: ReplicaStatus, bad: BOOLEAN, att: Lab]]
  /\ box \in [Replica -> [label: Lab, up: BOOLEAN]]
  /\ history \in Seq(DepRec) /\ history # <<>>
  /\ ops \in Seq(Row)
  /\ run \in RunRec
  /\ budget \in [faults: 0 .. MaxFaults, edits: Nat]

RunnerInv ==
  /\ run.op = 0 => run = Idle
  /\ run.op # 0 => run.op \in DOMAIN ops /\ run.ph # "idle" /\ Fits(row, run)

-----------------------------------------------------------------------------
(* The steps of the kinds of operations. *)

LEMMA RedeploySteps ==
  /\ Len(Steps("redeploy")) = 7
  /\ \A i \in 1 .. 7 :
       /\ Steps("redeploy")[i] = "health" <=> i = 5
       /\ Steps("redeploy")[i] = "record" => i = 6
       /\ Steps("redeploy")[i] \in {"pull", "swap"} => i < 5
       /\ Steps("redeploy")[i] # "reload"
  BY DEF Steps
LEMMA ReleaseSteps ==
  /\ Len(Steps("release")) = 9
  /\ \A i \in 1 .. 9 :
       /\ Steps("release")[i] = "health" <=> i = 7
       /\ Steps("release")[i] = "record" => i = 8
       /\ Steps("release")[i] \in {"pull", "swap"} => i < 7
       /\ Steps("release")[i] # "reload"
  BY DEF Steps
LEMMA RollbackSteps ==
  /\ Len(Steps("rollback")) = 6
  /\ \A i \in 1 .. 6 :
       /\ Steps("rollback")[i] = "health" <=> i = 4
       /\ Steps("rollback")[i] = "record" => i = 5
       /\ Steps("rollback")[i] \in {"pull", "swap"} => i < 4
       /\ Steps("rollback")[i] # "reload" /\ Steps("rollback")[i] # "roll"
  BY DEF Steps
LEMMA PromoteSteps ==
  /\ Len(Steps("promote")) = 7
  /\ \A i \in 1 .. 7 :
       /\ Steps("promote")[i] = "health" <=> i = 5
       /\ Steps("promote")[i] = "record" => i = 6
       /\ Steps("promote")[i] \in {"pull", "swap"} => i < 5
       /\ Steps("promote")[i] # "reload"
  BY DEF Steps
LEMMA ReloadSteps ==
  Len(Steps("reload_app")) = 1 /\ Steps("reload_app")[1] = "reload"
  BY DEF Steps

LEMMA StepsTable ==
  ASSUME NEW k \in Kind
  PROVE  /\ Len(Steps(k)) \in 1 .. 9 /\ HealthPc(k) \in 4 .. 9
         /\ \A i \in 1 .. Len(Steps(k)) :
              /\ Steps(k)[i] = "health" <=> i = HealthPc(k)
              /\ Steps(k)[i] = "record" => i = HealthPc(k) + 1
              /\ Steps(k)[i] \in {"pull", "swap"} => i < HealthPc(k)
<1>1. CASE k = "redeploy"
  BY <1>1, RedeploySteps DEF HealthPc
<1>2. CASE k = "release"
  BY <1>2, ReleaseSteps DEF HealthPc
<1>3. CASE k = "rollback"
  BY <1>3, RollbackSteps DEF HealthPc
<1>4. CASE k = "promote"
  BY <1>4, PromoteSteps DEF HealthPc
<1>5. CASE k = "reload_app"
  <2>1. HealthPc(k) = 9
    BY <1>5 DEF HealthPc
  <2>2. Len(Steps(k)) = 1 /\ \A i \in 1 .. 1 : Steps(k)[i] = "reload"
    BY <1>5, ReloadSteps
  <2> QED
    BY <2>1, <2>2
<1> QED
  BY <1>1, <1>2, <1>3, <1>4, <1>5 DEF Kind

-----------------------------------------------------------------------------
(* What becomes of the row and the runner. *)

UndoRun(o) == [Idle EXCEPT !.op = o, !.ph = "undo"]
GoRun(o, g) == [Idle EXCEPT !.op = o, !.ph = "go", !.goal = g]

LEMMA Idles ==
  /\ Idle \in RunRec /\ Idle.op = 0 /\ Idle.r = 1 /\ Idle.ph = "idle" /\ NoLabel \in Lab
<1>1. NoLabel \in Lab
  BY DEF NoLabel, Lab, Picture
<1>2. 1 \in Replica /\ "running" \in AppStatus
  BY RolloutAssumption DEF Replica, RolloutAssumption, AppStatus
<1> QED
  BY <1>1, <1>2 DEF Idle, RunRec, ForwardPh, BackPh

LEMMA UndoRuns ==
  ASSUME NEW o \in Nat
  PROVE  UndoRun(o) \in RunRec /\ UndoRun(o).r = 1 /\ UndoRun(o).op = o /\ UndoRun(o).ph = "undo"
<1>1. UndoRun(o) = [Idle EXCEPT !.op = o, !.ph = "undo"]
  BY DEF UndoRun
<1> QED
  BY <1>1, Idles DEF RunRec, BackPh

LEMMA GoRuns ==
  ASSUME NEW o \in Nat, NEW g \in Lab
  PROVE  GoRun(o, g) \in RunRec /\ GoRun(o, g).r = 1 /\ GoRun(o, g).op = o
         /\ GoRun(o, g).ph = "go" /\ GoRun(o, g).goal = g
<1>1. GoRun(o, g) = [Idle EXCEPT !.op = o, !.ph = "go", !.goal = g]
  BY DEF GoRun
<1> QED
  BY <1>1, Idles DEF RunRec, ForwardPh

LEMMA NewFields ==
  ASSUME NEW k \in Kind, NEW i \in Picture
  PROVE  /\ NewOp(k, i) \in OpRec /\ NewOp(k, i).kind = k /\ NewOp(k, i).pc = 0
         /\ NewOp(k, i).st = "pending"
<1>1. NoLabel \in Lab
  BY Idles
<1> QED
  BY <1>1 DEF NewOp, OpRec, Picture, AppStatus, OpStatus

LEMMA OverRow ==
  ASSUME NEW x \in OpRec, NEW st \in OpStatus \ {"compensating"}
  PROVE  Over(x, st) \in Row /\ Over(x, st).st = st
<1> DEFINE y == NewOp(x.kind, None)
<1>1. y \in OpRec /\ y.kind = x.kind /\ y.pc = 0 /\ x.kind \in Kind
  BY NewFields DEF OpRec, Picture
<1>2. Over(x, st) = [y EXCEPT !.st = st]
  BY DEF Over
<1> HIDE DEF y
<1>3. Over(x, st) \in OpRec /\ Over(x, st).kind = x.kind /\ Over(x, st).pc = 0 /\ Over(x, st).st = st
  BY <1>1, <1>2 DEF OpRec
<1> QED
  BY <1>1, <1>3, StepsTable DEF Row

LEMMA NewRow ==
  ASSUME NEW k \in Kind, NEW i \in Picture
  PROVE  NewOp(k, i) \in Row
  BY NewFields, StepsTable DEF Row

(* A settled row is sound, and the runner is idle, at the beginning of a   *)
(* step or at a compensation.                                              *)
Settles(o, to) ==
  /\ to.row \in Row /\ to.run \in RunRec /\ to.run.r = 1
  /\ \/ to.run = Idle
     \/ to.run.op = o /\ to.run.ph \in {"go", "undo"} /\ Fits(to.row, to.run)

LEMMA UnwoundSettles ==
  ASSUME NEW o \in Nat, NEW x \in Row, x.st = "compensating"
  PROVE  Settles(o, Unwound(o, x))
<1> DEFINE to == Unwound(o, x)
<1>1. CASE x.undo = {} \/ Superseded(o)
  <2> DEFINE st == IF x.cancel THEN "cancelled" ELSE "compensated"
  <2>1. st \in OpStatus \ {"compensating"}
    BY DEF OpStatus
  <2>2. to.row = Over(x, st) /\ to.run = Idle
    BY <1>1 DEF Unwound
  <2>3. x \in OpRec
    BY DEF Row
  <2> HIDE DEF st, to
  <2>4. to.row \in Row
    BY <2>1, <2>2, <2>3, OverRow
  <2>5. Settles(o, to)
    BY <2>2, <2>4, Idles DEF Settles
  <2> QED
    BY <2>5 DEF to
<1>2. CASE ~(x.undo = {} \/ Superseded(o))
  <2>1. to.row = x /\ to.run = UndoRun(o)
    BY <1>2 DEF Unwound, UndoRun
  <2>2. to.run \in RunRec /\ to.run.r = 1 /\ to.run.op = o /\ to.run.ph = "undo"
    BY <2>1, UndoRuns
  <2> HIDE DEF to
  <2>3. Fits(to.row, to.run)
    BY <2>1, <2>2 DEF Fits, ForwardPh, BackPh
  <2>4. Settles(o, to)
    BY <2>1, <2>2, <2>3 DEF Settles
  <2> QED
    BY <2>4 DEF to
<1> QED
  BY <1>1, <1>2

LEMMA FailedSettles ==
  ASSUME NEW o \in Nat, NEW x \in Row
  PROVE  Settles(o, Failed(o, x))
<1> DEFINE u == {s \in Undoable : Has(x, s)}
           y == [x EXCEPT !.st = "compensating", !.undo = u]
<1>1. u \in SUBSET Undoable
  OBVIOUS
<1>2. "snapshot" \in Undoable
  BY DEF Undoable
<1>3. Has(x, "snapshot") => "snapshot" \in u
  BY <1>2
<1>4. Failed(o, x) = Unwound(o, y)
  BY DEF Failed
<1> HIDE DEF u
<1>5. y \in OpRec /\ y.kind = x.kind /\ y.pc = x.pc /\ y.built = x.built /\ y.undo = u
      /\ y.st = "compensating"
  BY <1>1 DEF Row, OpRec, OpStatus
<1> HIDE DEF y
<1>6. y \in Row
  BY <1>3, <1>5 DEF Row, Has
<1> QED
  BY <1>4, <1>5, <1>6, UnwoundSettles

LEMMA GoalIsLabel ==
  ASSUME TypeInv, NEW o, NEW x \in Row, NEW s
  PROVE  Goal(o, x, s) \in Lab
<1>1. Deployed \in DepRec
  BY DEF TypeInv, Deployed
<1>2. Deployed.image \in Picture /\ app.image \in Picture /\ app.rev \in Nat /\ app.rev + 1 \in Nat
      /\ x.image \in Picture /\ x.built \in Picture
  BY <1>1 DEF TypeInv, AppRec, DepRec, Row, OpRec
<1> QED
  BY <1>2, Idles DEF Goal, Lab

LEMMA ForwardSettles ==
  ASSUME TypeInv, NEW o \in Nat, NEW x \in Row
  PROVE  Settles(o, Forward(o, x))
<1>0. x \in OpRec /\ x.kind \in Kind /\ x.pc \in Nat /\ x.pc <= Len(Steps(x.kind))
  BY DEF Row, OpRec
<1>1. CASE x.pc = Len(Steps(x.kind))
  <2>1. "done" \in OpStatus \ {"compensating"}
    BY DEF OpStatus
  <2>2. Forward(o, x) = [row |-> Over(x, "done"), run |-> Idle]
    BY <1>1 DEF Forward
  <2>3. Forward(o, x).row = Over(x, "done") /\ Forward(o, x).run = Idle
    BY <2>2
  <2> DEFINE to == Forward(o, x)
  <2>4. to.row = Over(x, "done") /\ to.run = Idle
    BY <2>3
  <2> HIDE DEF to
  <2>5. to.row \in Row
    BY <1>0, <2>1, <2>4, OverRow
  <2>6. Settles(o, to)
    BY <2>4, <2>5, Idles DEF Settles
  <2> QED
    BY <2>6 DEF to
<1>2. CASE x.pc # Len(Steps(x.kind)) /\ x.cancel
  BY <1>2, FailedSettles DEF Forward
<1>3. CASE x.pc # Len(Steps(x.kind)) /\ ~x.cancel
  <2> DEFINE s == Steps(x.kind)[x.pc + 1]
             g == Goal(o, x, s)
             y == [x EXCEPT !.st = "running"]
             rn == GoRun(o, g)
  <2>1. Forward(o, x) = [row |-> y, run |-> rn]
    BY <1>3 DEF Forward, GoRun
  <2>2. g \in Lab
    BY GoalIsLabel
  <2>3. (s = "reload" => g.image \notin Broken) /\ (s \in {"roll", "health"} => g.image = x.built)
    <3>1. Deployed \in DepRec
      BY DEF TypeInv, Deployed
    <3>2. Deployed.image \notin Broken
      BY <3>1 DEF DepRec
    <3> QED
      BY <3>2 DEF Goal
  <2> HIDE DEF g
  <2>4. rn \in RunRec /\ rn.r = 1 /\ rn.op = o /\ rn.ph = "go" /\ rn.goal = g
    BY <2>2, GoRuns
  <2>5. y \in OpRec /\ y.kind = x.kind /\ y.pc = x.pc /\ y.built = x.built /\ y.st = "running"
    BY <1>0 DEF OpRec, OpStatus
  <2>6. Len(Steps(x.kind)) \in Nat
    BY <1>0, StepsTable
  <2>7. x.pc < Len(Steps(x.kind))
    BY <1>0, <1>3, <2>6
  <2>8. Forward(o, x).row = y /\ Forward(o, x).run = rn
    BY <2>1
  <2> HIDE DEF y, rn
  <2>9. y \in Row
    BY <2>5 DEF Row
  <2>10. Fits(y, rn)
    BY <2>3, <2>4, <2>5, <2>7 DEF Fits, ForwardPh, BackPh
  <2> QED
    BY <2>4, <2>8, <2>9, <2>10 DEF Settles
<1> QED
  BY <1>1, <1>2, <1>3

-----------------------------------------------------------------------------
(* What holds of the containers while the runner works on them.            *)

(* Beyond the first replica no image is broken: an operation goes past the *)
(* first replica with an image that became ready there.                    *)
BoxInv ==
  /\ \A r \in Replica \ {1} : box[r].label.image \notin Broken
  /\ run.ph = "probe" => box[run.r].label = run.goal
  /\ run.ph = "attest" => box[run.r].label.image \notin Broken
  /\ run.r > 1 => run.goal.image \notin Broken /\ box[1].label.image \notin Broken

RollInv == TypeInv /\ RunnerInv /\ BoxInv

BoxType == [Replica -> [label: Lab, up: BOOLEAN]]
ReplicaType == [Replica -> [st: ReplicaStatus, bad: BOOLEAN, att: Lab]]
BudgetType == [faults: 0 .. MaxFaults, edits: Nat]

LEMMA RowsReplaced ==
  ASSUME TypeInv, NEW o \in DOMAIN ops, NEW y \in Row
  PROVE  LET p == [ops EXCEPT ![o] = y]
         IN  p \in Seq(Row) /\ DOMAIN p = DOMAIN ops /\ p[o] = y
             /\ \A q \in DOMAIN ops \ {o} : p[q] = ops[q]
<1> DEFINE p == [ops EXCEPT ![o] = y]
<1>1. Len(ops) \in Nat /\ DOMAIN ops = 1 .. Len(ops) /\ \A q \in DOMAIN ops : ops[q] \in Row
  BY DEF TypeInv
<1>2. p \in [1 .. Len(ops) -> Row]
  BY <1>1
<1>3. p \in Seq(Row)
  BY <1>1, <1>2
<1> QED
  BY <1>1, <1>3

LEMMA RowsTyped ==
  ASSUME TypeInv
  PROVE  /\ Len(ops) \in Nat /\ DOMAIN ops = 1 .. Len(ops)
         /\ \A o \in DOMAIN ops : o \in Nat \ {0} /\ ops[o] \in Row /\ ops[o] \in OpRec
  BY DEF TypeInv, Row

LEMMA AtStep ==
  ASSUME TypeInv, RunnerInv, run.op # 0
  PROVE  /\ run.op \in DOMAIN ops /\ run.op \in Nat \ {0} /\ row \in Row /\ row \in OpRec
         /\ run \in RunRec /\ run.r \in Replica /\ run.goal \in Lab
         /\ run.ph \in ForwardPh \cup BackPh
         /\ run.ph \in BackPh => row.st = "compensating" /\ run.r = 1
         /\ run.ph \in {"restore", "reprobe", "restored"} => row.undo = {"snapshot"}
         /\ run.ph \in ForwardPh =>
              /\ row.st = "running" /\ row.pc < Len(Steps(row.kind))
              /\ Step(run.op) = "reload" => run.goal.image \notin Broken
              /\ Step(run.op) \in {"roll", "health"} => run.goal.image = row.built
              /\ Step(run.op) = "health" /\ run.ph \in {"post", "wrote"} => row.built \notin Broken
              /\ run.ph \in {"start", "probe", "post"} \/ run.r # 1
                   => Step(run.op) \in {"roll", "reload", "health"}
              /\ Step(run.op) = "health" /\ row.kind \in {"rollback", "promote"} => run.r = 1
              /\ row.kind = "rollback" => Step(run.op) # "roll"
<1>1. run.op \in DOMAIN ops /\ run.ph # "idle" /\ Fits(row, run) /\ run \in RunRec
  BY DEF RunnerInv, TypeInv
<1>2. row \in Row /\ row \in OpRec /\ run.op \in Nat \ {0}
  BY <1>1, RowsTyped DEF row
<1>3. run.r \in Replica /\ run.goal \in Lab /\ run.ph \in {"idle"} \cup ForwardPh \cup BackPh
  BY <1>1 DEF RunRec
<1>4. Step(run.op) = Steps(row.kind)[row.pc + 1]
  BY DEF Step, row
<1>5. run.ph \in ForwardPh /\ row.kind = "rollback" => Step(run.op) # "roll"
  <2>1. row.pc \in Nat /\ (run.ph \in ForwardPh => row.pc < Len(Steps(row.kind)))
    BY <1>1, <1>2 DEF Fits, OpRec
  <2> QED
    BY <1>4, <2>1, RollbackSteps
<1> QED
  BY <1>1, <1>2, <1>3, <1>4, <1>5 DEF Fits

LEMMA Settled ==
  ASSUME TypeInv, NEW o \in DOMAIN ops, NEW to, Settles(o, to), Settle(o, to)
  PROVE  /\ ops' \in Seq(Row) /\ DOMAIN ops' = DOMAIN ops
         /\ \A q \in DOMAIN ops \ {o} : ops'[q] = ops[q]
         /\ ops'[o] = to.row
         /\ run' = to.run /\ run' \in RunRec /\ RunnerInv'
         /\ run'.r = 1 /\ run'.ph \in {"idle", "go", "undo"}
<1>1. ops' = [ops EXCEPT ![o] = to.row] /\ run' = to.run /\ to.row \in Row
  BY DEF Settle, Settles
<1>2. /\ ops' \in Seq(Row) /\ DOMAIN ops' = DOMAIN ops /\ ops'[o] = to.row
      /\ \A q \in DOMAIN ops \ {o} : ops'[q] = ops[q]
  BY <1>1, RowsReplaced
<1>3. o \in Nat \ {0}
  BY RowsTyped
<1>4. CASE to.run = Idle
  BY <1>1, <1>2, <1>4, Idles DEF Settles, RunnerInv
<1>5. CASE to.run.op = o /\ to.run.ph \in {"go", "undo"} /\ Fits(to.row, to.run)
  <2>1. row' = to.row
    BY <1>1, <1>2, <1>5 DEF row
  <2>2. run'.op = o /\ run'.ph \in {"go", "undo"} /\ Fits(row', run')
    BY <1>1, <1>5, <2>1
  <2>3. RunnerInv'
    BY <1>2, <1>3, <2>2 DEF RunnerInv
  <2> QED
    BY <1>1, <1>2, <1>5, <2>3 DEF Settles
<1> QED
  BY <1>4, <1>5 DEF Settles

(* After a settled row the runner is at the first replica, and what it does*)
(* next it has to find out.                                                *)
LEMMA FreshBox ==
  ASSUME run'.r = 1, run'.ph \in {"idle", "go", "undo"},
         \A r \in Replica \ {1} : box'[r].label.image \notin Broken
  PROVE  BoxInv'
  BY DEF BoxInv

LEMMA SettledKeeps ==
  ASSUME RollInv, NEW o \in DOMAIN ops, NEW to, Settles(o, to), Settle(o, to),
         app' \in AppRec, replica' \in ReplicaType, box' \in BoxType, budget' \in BudgetType,
         UNCHANGED history, \A r \in Replica \ {1} : box'[r].label.image \notin Broken
  PROVE  RollInv'
<1>1. TypeInv
  BY DEF RollInv
<1>2. /\ ops' \in Seq(Row) /\ run' \in RunRec /\ RunnerInv'
      /\ run'.r = 1 /\ run'.ph \in {"idle", "go", "undo"}
  BY <1>1, Settled
<1>3. BoxInv'
  BY <1>2, FreshBox
<1>4. TypeInv'
  BY <1>1, <1>2 DEF TypeInv, BoxType, ReplicaType, BudgetType
<1> QED
  BY <1>2, <1>3, <1>4 DEF RollInv

LEMMA ThrownKeeps ==
  ASSUME RollInv, run.op # 0, Throw,
         app' \in AppRec, replica' \in ReplicaType, box' \in BoxType, budget' \in BudgetType,
         UNCHANGED history, \A r \in Replica \ {1} : box'[r].label.image \notin Broken
  PROVE  RollInv'
<1>1. run.op \in DOMAIN ops /\ run.op \in Nat \ {0} /\ row \in Row
  BY AtStep DEF RollInv
<1> DEFINE to == Failed(run.op, row)
<1>2. Settles(run.op, to) /\ Settle(run.op, to)
  BY <1>1, FailedSettles DEF Throw
<1> HIDE DEF to
<1> QED
  BY <1>1, <1>2, SettledKeeps

(* The runner goes on with its step. *)
Alike(x, y) == /\ y.kind = x.kind /\ y.st = x.st /\ y.pc = x.pc
               /\ y.built = x.built /\ y.undo = x.undo /\ y.snap = x.snap

LEMMA GoesOnKeeps ==
  ASSUME RollInv, run.op # 0, run.ph \in ForwardPh,
         run' \in RunRec, run'.op = run.op, run'.ph \in ForwardPh,
         run'.goal = run.goal \/ Step(run.op) \notin {"roll", "health", "reload"},
         Step(run.op) = "health" /\ run'.ph \in {"post", "wrote"} => row.built \notin Broken,
         run'.ph \in {"start", "probe", "post"} \/ run'.r # 1
           => Step(run.op) \in {"roll", "reload", "health"},
         Step(run.op) = "health" /\ row.kind \in {"rollback", "promote"} => run'.r = 1,
         ops' \in Seq(Row), DOMAIN ops' = DOMAIN ops, Alike(row, ops'[run.op]),
         app' \in AppRec, replica' \in ReplicaType, box' \in BoxType, budget' \in BudgetType,
         history' \in Seq(DepRec), history' # <<>>,
         BoxInv'
  PROVE  RollInv'
<1>1. TypeInv'
  BY DEF TypeInv, BoxType, ReplicaType, BudgetType
<1>2. /\ run.op \in DOMAIN ops /\ row.st = "running" /\ row.pc < Len(Steps(row.kind))
      /\ Step(run.op) = "reload" => run.goal.image \notin Broken
      /\ Step(run.op) \in {"roll", "health"} => run.goal.image = row.built
  BY AtStep DEF RollInv
<1>3. Step(run.op) = Steps(row.kind)[row.pc + 1]
  BY DEF Step, row
<1>4. row' = ops'[run.op]
  BY DEF row
<1>5. /\ row'.st = "running" /\ row'.pc < Len(Steps(row'.kind))
      /\ Steps(row'.kind)[row'.pc + 1] = Step(run.op) /\ row'.built = row.built /\ row'.kind = row.kind
  BY <1>2, <1>3, <1>4 DEF Alike
<1>6. run'.ph \notin BackPh /\ run'.ph # "idle"
  BY DEF ForwardPh, BackPh
<1>7. Fits(row', run')
  BY <1>2, <1>5, <1>6 DEF Fits, BackPh
<1>8. RunnerInv'
  BY <1>2, <1>6, <1>7 DEF RunnerInv
<1> QED
  BY <1>1, <1>8 DEF RollInv

-----------------------------------------------------------------------------
(* The parts of the state that an action changes keep their types. *)

LEMMA Budgets ==
  ASSUME TypeInv, UNCHANGED budget \/ Fault
  PROVE  budget' \in BudgetType
<1>1. budget \in BudgetType
  BY DEF TypeInv, BudgetType
<1>2. CASE Fault
  <2>1. budget' = [budget EXCEPT !.faults = budget.faults - 1] /\ budget.faults > 0
    BY <1>1, <1>2 DEF Fault, BudgetType
  <2> QED
    BY <1>1, <2>1, RolloutAssumption DEF BudgetType, RolloutAssumption
<1> QED
  BY <1>1, <1>2

LEMMA Statuses ==
  ASSUME TypeInv, NEW r, NEW st \in ReplicaStatus
  PROVE  WithReplica(r, st) \in ReplicaType
  BY DEF TypeInv, ReplicaType, WithReplica

LEMMA Attestations ==
  ASSUME TypeInv, NEW r, NEW l \in Lab, NEW ok
  PROVE  /\ Attestation(l, ok) \in [st: ReplicaStatus, bad: BOOLEAN, att: Lab]
         /\ Attestation(l, ok).st # "draining"
         /\ [replica EXCEPT ![r] = Attestation(l, ok)] \in ReplicaType
<1>1. Attestation(l, ok) \in [st: ReplicaStatus, bad: BOOLEAN, att: Lab]
      /\ Attestation(l, ok).st # "draining"
  BY Idles DEF Attestation, ReplicaStatus
<1> QED
  BY <1>1 DEF TypeInv, ReplicaType

LEMMA Apps ==
  ASSUME TypeInv, NEW st \in AppStatus, NEW i \in Picture, NEW v \in Nat
  PROVE  /\ [app EXCEPT !.st = st] \in AppRec /\ [app EXCEPT !.st = st].st = st
         /\ StoredAt(app, i, v) \in AppRec /\ StoredAt(app, i, v).st = app.st
         /\ Cleared(app, v) \in AppRec /\ Cleared(app, v).st = app.st
         /\ app \in AppRec
<1>1. app \in AppRec
  BY DEF TypeInv
<1>2. StoredAt(app, i, v) = [app EXCEPT !.image = i, !.rev = v, !.wanted = IF app.wanted > 0 THEN v ELSE 0]
  BY <1>1 DEF StoredAt, AppRec
<1> DEFINE w == IF app.wanted > 0 THEN v ELSE 0
<1>3. w \in Nat /\ StoredAt(app, i, v) = [app EXCEPT !.image = i, !.rev = v, !.wanted = w]
  BY <1>2
<1> HIDE DEF w
<1> QED
  BY <1>1, <1>3 DEF AppRec, Cleared

LEMMA Boxes ==
  ASSUME TypeInv, NEW r \in Replica, NEW l \in Lab
  PROVE  /\ [box EXCEPT ![r] = Up(l)] \in BoxType
         /\ [box EXCEPT ![r] = NoBox] \in BoxType
         /\ Up(l).label = l /\ Up(l).up = TRUE
         /\ NoBox.label.image \notin Broken /\ NoBox.up = FALSE
  BY Idles, RolloutAssumption DEF TypeInv, BoxType, Up, NoBox, NoLabel, RolloutAssumption

(* startAppReplica has started the container, or failed on the way.        *)
Started(r, l) ==
  /\ box' \in BoxType /\ box'[r].label = l /\ box'[r].up = TRUE
  /\ \A q \in Replica \ {r} : box'[q] = box[q]
  /\ UNCHANGED budget
StartFailed(r) ==
  /\ box' \in BoxType /\ box'[r] = NoBox
  /\ \A q \in Replica \ {r} : box'[q] = box[q]
  /\ Fault

LEMMA StartsOrNot ==
  ASSUME TypeInv, NEW r \in Replica, NEW l \in Lab,
         \/ Matches(r, l) /\ UNCHANGED <<box, budget>>
         \/ ~Matches(r, l) /\ box' = [box EXCEPT ![r] = Up(l)] /\ UNCHANGED budget
  PROVE  Started(r, l)
<1>1. CASE Matches(r, l) /\ UNCHANGED <<box, budget>>
  BY <1>1 DEF Matches, Started, TypeInv, BoxType
<1>2. CASE box' = [box EXCEPT ![r] = Up(l)] /\ UNCHANGED budget
  <2>1. box \in BoxType
    BY DEF TypeInv, BoxType
  <2> QED
    BY <1>2, <2>1, Boxes DEF Started, BoxType
<1> QED
  BY <1>1, <1>2

LEMMA StartsNot ==
  ASSUME TypeInv, NEW r \in Replica, box' = [box EXCEPT ![r] = NoBox], Fault
  PROVE  StartFailed(r)
<1>1. box \in BoxType /\ NoLabel \in Lab
  BY Idles DEF TypeInv, BoxType
<1> QED
  BY <1>1, Boxes DEF StartFailed, BoxType

(* A column of the runner's row that no later step reads.                  *)
LEMMA DirKept ==
  ASSUME TypeInv, NEW o \in DOMAIN ops, NEW d \in Picture,
         ops' = ops \/ ops' = [ops EXCEPT ![o].dir = d]
  PROVE  /\ ops' \in Seq(Row) /\ DOMAIN ops' = DOMAIN ops
         /\ \A q \in DOMAIN ops : Alike(ops[q], ops'[q])
<1>1. CASE ops' = ops
  BY <1>1 DEF TypeInv, Alike
<1>2. CASE ops' = [ops EXCEPT ![o].dir = d]
  <2> DEFINE y == [ops[o] EXCEPT !.dir = d]
  <2>1. ops[o] \in Row
    BY RowsTyped
  <2>2. y \in Row /\ Alike(ops[o], y)
    BY <2>1 DEF Row, OpRec, Alike, Has
  <2>3. ops' = [ops EXCEPT ![o] = y]
    BY <1>2
  <2> HIDE DEF y
  <2> QED
    BY <2>2, <2>3, RowsReplaced DEF Alike
<1> QED
  BY <1>1, <1>2

LEMMA OpsKept ==
  ASSUME TypeInv, RunnerInv, run.op # 0, UNCHANGED ops
  PROVE  ops' \in Seq(Row) /\ DOMAIN ops' = DOMAIN ops /\ Alike(row, ops'[run.op])
  BY AtStep DEF TypeInv, Alike, row

LEMMA Going ==
  ASSUME TypeInv, NEW ph \in ForwardPh \cup BackPh, Goes(ph)
  PROVE  /\ run' \in RunRec /\ run'.op = run.op /\ run'.ph = ph /\ run'.r = run.r
         /\ run'.goal = run.goal /\ run'.bad = run.bad
  BY DEF TypeInv, RunRec, Goes

LEMMA Types ==
  ASSUME TypeInv
  PROVE  /\ app \in AppRec /\ replica \in ReplicaType /\ box \in BoxType /\ budget \in BudgetType
         /\ history \in Seq(DepRec) /\ history # <<>> /\ run \in RunRec
  BY DEF TypeInv, ReplicaType, BoxType, BudgetType

-----------------------------------------------------------------------------
(* The forward steps that do not go from replica to replica. *)

(* What is common to the forward steps: the runner has a row, and where it *)
(* works on the first replica only, the others stay sound.                 *)
LEMMA FirstBox ==
  ASSUME BoxInv, run'.r = 1, run'.ph \in {"wrote", "go", "start", "post"},
         box' \in BoxType, \A q \in Replica \ {1} : box'[q] = box[q]
  PROVE  BoxInv'
  BY DEF BoxInv

LEMMA TargetKeeps == ASSUME RollInv, Target \/ SetDeploying PROVE RollInv'
<1>0. TypeInv /\ RunnerInv /\ BoxInv
  BY DEF RollInv
<1>1. /\ run.op # 0 /\ run.ph = "go" /\ Step(run.op) \in {"target", "deploying"}
      /\ run' = [run EXCEPT !.prev = app.st, !.ph = "wrote"]
      /\ UNCHANGED <<replica, box, history, ops, budget>>
      /\ app' = app \/ app' = [app EXCEPT !.st = "deploying"]
  BY DEF Target, SetDeploying, Doing
<1>2. app \in AppRec /\ "deploying" \in AppStatus
  BY <1>0, Types DEF AppStatus
<1>3. run' \in RunRec /\ run'.op = run.op /\ run'.ph = "wrote" /\ run'.goal = run.goal /\ run'.r = run.r
  BY <1>0, <1>1, <1>2 DEF TypeInv, RunRec, ForwardPh, AppRec
<1>4. run.r = 1 /\ run.ph \in ForwardPh /\ run'.ph \in ForwardPh
  BY <1>0, <1>1, <1>3, AtStep DEF ForwardPh
<1>5. app' \in AppRec
  BY <1>0, <1>1, <1>2 DEF AppRec
<1>6. replica' \in ReplicaType /\ box' \in BoxType /\ budget' \in BudgetType
      /\ history' \in Seq(DepRec) /\ history' # <<>>
  BY <1>0, <1>1, Types
<1>7. BoxInv'
  BY <1>0, <1>1, <1>3, <1>4, <1>6, FirstBox
<1>8. ops' \in Seq(Row) /\ DOMAIN ops' = DOMAIN ops /\ Alike(row, ops'[run.op])
  BY <1>0, <1>1, OpsKept
<1> QED
  BY <1>1, <1>3, <1>4, <1>5, <1>6, <1>7, <1>8, GoesOnKeeps

LEMMA SnapshotKeeps == ASSUME RollInv, Snapshot PROVE RollInv'
<1>0. TypeInv /\ RunnerInv /\ BoxInv
  BY DEF RollInv
<1>1. /\ run.op # 0 /\ run.ph = "go" /\ Step(run.op) = "snapshot"
      /\ UNCHANGED <<app, replica, box, history, budget>>
      /\ ops' = ops \/ ops' = [ops EXCEPT ![run.op].dir = app.image]
  BY DEF Snapshot, Doing
<1>2. app \in AppRec /\ app.image \in Picture /\ [image |-> app.image, rev |-> app.rev] \in Lab
  BY <1>0, Types DEF AppRec, Lab
<1>3. PICK g \in Lab : run' = [run EXCEPT !.ph = "wrote", !.goal = g]
  BY <1>2, Idles DEF Snapshot
<1>4. run' \in RunRec /\ run'.op = run.op /\ run'.ph = "wrote" /\ run'.r = run.r
  BY <1>0, <1>3 DEF TypeInv, RunRec, ForwardPh
<1>5. run.r = 1 /\ run.ph \in ForwardPh /\ run'.ph \in ForwardPh /\ run.op \in DOMAIN ops
  BY <1>0, <1>1, <1>4, AtStep DEF ForwardPh
<1>6. app' \in AppRec /\ replica' \in ReplicaType /\ box' \in BoxType /\ budget' \in BudgetType
      /\ history' \in Seq(DepRec) /\ history' # <<>>
  BY <1>0, <1>1, Types
<1>7. BoxInv'
  BY <1>0, <1>1, <1>4, <1>5, <1>6, FirstBox
<1>8. ops' \in Seq(Row) /\ DOMAIN ops' = DOMAIN ops /\ Alike(row, ops'[run.op])
  BY <1>0, <1>1, <1>2, <1>5, DirKept DEF row
<1> QED
  BY <1>1, <1>4, <1>5, <1>6, <1>7, <1>8, GoesOnKeeps

LEMMA DiscardKeeps == ASSUME RollInv, Discard PROVE RollInv'
<1>0. TypeInv /\ RunnerInv /\ BoxInv
  BY DEF RollInv
<1>1. /\ run.op # 0 /\ run.ph = "go" /\ Step(run.op) = "discard" /\ Goes("wrote")
      /\ UNCHANGED <<app, replica, box, history, budget>>
      /\ ops' = [ops EXCEPT ![run.op].dir = None]
  BY DEF Discard, Doing
<1>2. run' \in RunRec /\ run'.op = run.op /\ run'.ph = "wrote" /\ run'.r = run.r
  BY <1>0, <1>1, Going DEF ForwardPh
<1>3. run.r = 1 /\ run.ph \in ForwardPh /\ run'.ph \in ForwardPh /\ run.op \in DOMAIN ops
  BY <1>0, <1>1, <1>2, AtStep DEF ForwardPh
<1>4. app' \in AppRec /\ replica' \in ReplicaType /\ box' \in BoxType /\ budget' \in BudgetType
      /\ history' \in Seq(DepRec) /\ history' # <<>>
  BY <1>0, <1>1, Types
<1>5. BoxInv'
  BY <1>0, <1>1, <1>2, <1>3, <1>4, FirstBox
<1>6. ops' \in Seq(Row) /\ DOMAIN ops' = DOMAIN ops /\ Alike(row, ops'[run.op])
  BY <1>0, <1>1, <1>3, DirKept DEF row, Picture
<1> QED
  BY <1>1, <1>2, <1>3, <1>4, <1>5, <1>6, GoesOnKeeps

LEMMA SwapKeeps == ASSUME RollInv, Swap PROVE RollInv'
<1>0. TypeInv /\ RunnerInv /\ BoxInv
  BY DEF RollInv
<1>1. /\ run.op # 0 /\ run.ph = "go" /\ Step(run.op) \in {"pull", "swap"}
      /\ UNCHANGED <<app, replica, history>>
  BY DEF Swap, Doing
<1>2. 1 \in Replica /\ run.goal \in Lab /\ run.ph \in ForwardPh /\ run.r = 1
  BY <1>0, <1>1, AtStep, RolloutAssumption DEF Replica, RolloutAssumption, ForwardPh
<1>3. \/ Started(1, run.goal) /\ Goes("wrote") /\ UNCHANGED ops
      \/ StartFailed(1) /\ Throw
  <2>1. \/ /\ \/ Matches(1, run.goal) /\ UNCHANGED <<box, budget>>
              \/ ~Matches(1, run.goal) /\ box' = [box EXCEPT ![1] = Up(run.goal)] /\ UNCHANGED budget
           /\ Goes("wrote") /\ UNCHANGED ops
        \/ box' = [box EXCEPT ![1] = NoBox] /\ Fault /\ Throw
    BY DEF Swap, Starts
  <2> QED
    BY <1>0, <1>2, <2>1, StartsOrNot, StartsNot
<1>4. app' \in AppRec /\ replica' \in ReplicaType /\ box' \in BoxType /\ budget' \in BudgetType
      /\ history' \in Seq(DepRec) /\ history' # <<>> /\ \A q \in Replica \ {1} : box'[q] = box[q]
  BY <1>0, <1>1, <1>3, Types, Budgets DEF Started, StartFailed
<1>5. CASE StartFailed(1) /\ Throw
  BY <1>0, <1>1, <1>4, <1>5, ThrownKeeps DEF BoxInv
<1>6. CASE Started(1, run.goal) /\ Goes("wrote") /\ UNCHANGED ops
  <2>1. run' \in RunRec /\ run'.op = run.op /\ run'.ph = "wrote" /\ run'.r = run.r
    BY <1>0, <1>6, Going DEF ForwardPh
  <2>2. BoxInv'
    BY <1>0, <1>2, <1>4, <2>1, FirstBox
  <2>3. ops' \in Seq(Row) /\ DOMAIN ops' = DOMAIN ops /\ Alike(row, ops'[run.op])
    BY <1>0, <1>1, <1>6, OpsKept
  <2>4. run'.ph \in ForwardPh /\ Step(run.op) \notin {"roll", "health", "reload"} /\ run'.r = 1
    BY <1>1, <1>2, <2>1 DEF ForwardPh
  <2> QED
    BY <1>1, <1>2, <1>4, <2>1, <2>2, <2>3, <2>4, GoesOnKeeps
<1> QED
  BY <1>3, <1>5, <1>6

LEMMA ValidateKeeps == ASSUME RollInv, Validate PROVE RollInv'
<1>0. TypeInv /\ RunnerInv /\ BoxInv
  BY DEF RollInv
<1>1. /\ run.op # 0 /\ run.ph = "go" /\ Step(run.op) = "validate"
      /\ UNCHANGED <<app, replica, box, history>>
      /\ UNCHANGED budget \/ Fault
      /\ (Goes("wrote") /\ UNCHANGED ops) \/ Throw
  BY DEF Validate, Doing, Calls
<1>2. run.r = 1 /\ run.ph \in ForwardPh
  BY <1>0, <1>1, AtStep DEF ForwardPh
<1>4. app' \in AppRec /\ replica' \in ReplicaType /\ box' \in BoxType /\ budget' \in BudgetType
      /\ history' \in Seq(DepRec) /\ history' # <<>>
  BY <1>0, <1>1, Types, Budgets
<1>5. CASE Throw
  BY <1>0, <1>1, <1>4, <1>5, ThrownKeeps DEF BoxInv
<1>6. CASE Goes("wrote") /\ UNCHANGED ops
  <2>1. run' \in RunRec /\ run'.op = run.op /\ run'.ph = "wrote" /\ run'.r = run.r
    BY <1>0, <1>6, Going DEF ForwardPh
  <2>2. BoxInv'
    BY <1>0, <1>1, <1>2, <1>4, <2>1, FirstBox
  <2>3. ops' \in Seq(Row) /\ DOMAIN ops' = DOMAIN ops /\ Alike(row, ops'[run.op])
    BY <1>0, <1>1, <1>6, OpsKept
  <2>4. run'.ph \in ForwardPh /\ Step(run.op) \notin {"roll", "health", "reload"} /\ run'.r = 1
    BY <1>1, <1>2, <2>1 DEF ForwardPh
  <2> QED
    BY <1>1, <1>2, <1>4, <2>1, <2>2, <2>3, <2>4, GoesOnKeeps
<1> QED
  BY <1>1, <1>5, <1>6

LEMMA CommitKeeps == ASSUME RollInv, Commit PROVE RollInv'
<1>0. TypeInv /\ RunnerInv /\ BoxInv
  BY DEF RollInv
<1>1. /\ run.op # 0 /\ run.ph = "go" /\ Step(run.op) = "commit"
      /\ UNCHANGED <<replica, box, history, budget>>
      /\ \/ Throw /\ UNCHANGED app
         \/ /\ \E i \in {app.image, row.image} : app' = StoredAt(app, i, run.goal.rev + 1)
            /\ Goes("wrote") /\ UNCHANGED ops
  BY DEF Commit, Doing
<1>2. run.r = 1 /\ run.ph \in ForwardPh /\ run.goal.rev + 1 \in Nat /\ row.image \in Picture
  BY <1>0, <1>1, AtStep DEF ForwardPh, Lab, OpRec
<1>3. app \in AppRec /\ app.image \in Picture /\ "running" \in AppStatus
  BY <1>0, Types DEF AppRec, AppStatus
<1>4. app' \in AppRec /\ replica' \in ReplicaType /\ box' \in BoxType /\ budget' \in BudgetType
      /\ history' \in Seq(DepRec) /\ history' # <<>>
  <2>1. app' \in AppRec
    <3>1. CASE UNCHANGED app
      BY <1>3, <3>1
    <3>2. CASE \E i \in {app.image, row.image} : app' = StoredAt(app, i, run.goal.rev + 1)
      <4>1. PICK i \in Picture : app' = StoredAt(app, i, run.goal.rev + 1)
        BY <1>2, <1>3, <3>2
      <4>2. StoredAt(app, i, run.goal.rev + 1) \in AppRec
        BY <1>0, <1>2, <1>3, Apps
      <4> QED
        BY <4>1, <4>2
    <3> QED
      BY <1>1, <3>1, <3>2
  <2>2. replica \in ReplicaType /\ box \in BoxType /\ budget \in BudgetType
        /\ history \in Seq(DepRec) /\ history # <<>>
    BY <1>0, Types
  <2> QED
    BY <1>1, <2>1, <2>2
<1>5. CASE Throw
  BY <1>0, <1>1, <1>4, <1>5, ThrownKeeps DEF BoxInv
<1>6. CASE Goes("wrote") /\ UNCHANGED ops
  <2>1. run' \in RunRec /\ run'.op = run.op /\ run'.ph = "wrote" /\ run'.r = run.r
    BY <1>0, <1>6, Going DEF ForwardPh
  <2>2. BoxInv'
    BY <1>0, <1>1, <1>2, <1>4, <2>1, FirstBox
  <2>3. ops' \in Seq(Row) /\ DOMAIN ops' = DOMAIN ops /\ Alike(row, ops'[run.op])
    BY <1>0, <1>1, <1>6, OpsKept
  <2>4. run'.ph \in ForwardPh /\ Step(run.op) \notin {"roll", "health", "reload"} /\ run'.r = 1
    BY <1>1, <1>2, <2>1 DEF ForwardPh
  <2> QED
    BY <1>1, <1>2, <1>4, <2>1, <2>2, <2>3, <2>4, GoesOnKeeps
<1> QED
  BY <1>1, <1>5, <1>6

(* What is recorded as deployed is past its health check.                  *)
LEMMA RecordKeeps == ASSUME RollInv, Record PROVE RollInv'
<1>0. TypeInv /\ RunnerInv /\ BoxInv
  BY DEF RollInv
<1>1. /\ run.op # 0 /\ run.ph = "go" /\ Step(run.op) = "record"
      /\ UNCHANGED <<replica, box, ops, budget>>
      /\ Goes("wrote")
      /\ \E v \in {run.goal.rev, app.rev} : history' = Deployment(run.op, v)
      /\ app' = Cleared(app, run.goal.rev) \/ app' = StoredAt(app, row.built, app.rev + 1)
  BY DEF Record, Doing
<1>2. run.r = 1 /\ run.ph \in ForwardPh /\ run.goal.rev \in Nat /\ row \in Row /\ row.built \in Picture
      /\ row.kind \in Kind /\ row.pc \in Nat /\ row.pc < Len(Steps(row.kind)) /\ run.op \in Nat
  BY <1>0, <1>1, AtStep DEF ForwardPh, Lab, OpRec
<1>3. app \in AppRec /\ app.image \in Picture /\ app.rev \in Nat /\ app.rev + 1 \in Nat
      /\ "running" \in AppStatus
  BY <1>0, Types DEF AppRec, AppStatus
<1>4. row.built \notin Broken
  <2>1. row.pc + 1 \in 1 .. Len(Steps(row.kind)) /\ Steps(row.kind)[row.pc + 1] = "record"
    BY <1>1, <1>2, StepsTable DEF Step, row
  <2>2. row.pc + 1 = HealthPc(row.kind) + 1 /\ HealthPc(row.kind) \in Nat
    BY <1>2, <2>1, StepsTable
  <2> QED
    BY <1>2, <2>2 DEF Row
<1>5. history' \in Seq(DepRec) /\ history' # <<>>
  <2>1. PICK v \in Nat : history' = Deployment(run.op, v)
    BY <1>1, <1>2, <1>3
  <2> DEFINE d == [op |-> run.op, image |-> row.built, rev |-> v]
  <2>2. d \in DepRec
    BY <1>2, <1>4 DEF DepRec
  <2>3. history' = history \/ history' = Append(history, d)
    BY <2>1 DEF Deployment, row
  <2>4. history \in Seq(DepRec) /\ history # <<>>
    BY <1>0, Types
  <2> HIDE DEF d
  <2>5. Append(history, d) \in Seq(DepRec) /\ Append(history, d) # <<>>
    BY <2>2, <2>4
  <2> QED
    BY <2>3, <2>4, <2>5
<1>6. app' \in AppRec /\ replica' \in ReplicaType /\ box' \in BoxType /\ budget' \in BudgetType
  <2>1. Cleared(app, run.goal.rev) \in AppRec /\ StoredAt(app, row.built, app.rev + 1) \in AppRec
    BY <1>0, <1>2, <1>3, Apps
  <2>2. app' \in AppRec
    BY <1>1, <2>1
  <2>3. replica' \in ReplicaType /\ box' \in BoxType /\ budget' \in BudgetType
    BY <1>0, <1>1, Types
  <2> QED
    BY <2>2, <2>3
<1>7. run' \in RunRec /\ run'.op = run.op /\ run'.ph = "wrote" /\ run'.r = run.r
  BY <1>0, <1>1, Going DEF ForwardPh
<1>8. BoxInv'
  BY <1>0, <1>1, <1>2, <1>6, <1>7, FirstBox
<1>9. ops' \in Seq(Row) /\ DOMAIN ops' = DOMAIN ops /\ Alike(row, ops'[run.op])
  BY <1>0, <1>1, OpsKept
<1>10. run'.ph \in ForwardPh /\ Step(run.op) \notin {"roll", "health", "reload"} /\ run'.r = 1
  BY <1>1, <1>2, <1>7 DEF ForwardPh
<1> QED
  BY <1>1, <1>2, <1>5, <1>6, <1>7, <1>8, <1>9, <1>10, GoesOnKeeps

-----------------------------------------------------------------------------
(* The steps that go from replica to replica. *)

LEMMA RollKeeps ==
  ASSUME RollInv, run.op # 0, run.ph \in ForwardPh, Step(run.op) \in {"roll", "reload", "health"},
         run' \in RunRec, run'.op = run.op, run'.ph \in ForwardPh, run'.goal = run.goal,
         Step(run.op) = "health" /\ run'.ph \in {"post", "wrote"} => run.goal.image \notin Broken,
         Step(run.op) = "health" /\ row.kind \in {"rollback", "promote"} => run'.r = 1,
         UNCHANGED <<ops, history>>,
         app' \in AppRec, replica' \in ReplicaType, box' \in BoxType, budget' \in BudgetType,
         BoxInv'
  PROVE  RollInv'
<1>1. TypeInv /\ RunnerInv
  BY DEF RollInv
<1>2. ops' \in Seq(Row) /\ DOMAIN ops' = DOMAIN ops /\ Alike(row, ops'[run.op])
  BY <1>1, OpsKept
<1>3. history' \in Seq(DepRec) /\ history' # <<>>
  BY <1>1, Types
<1>4. Step(run.op) = "health" /\ run'.ph \in {"post", "wrote"} => row.built \notin Broken
  BY <1>1, AtStep
<1> QED
  BY <1>2, <1>3, <1>4, GoesOnKeeps

(* The runner stays at its replica, or goes to the next one with an image  *)
(* that is sound.                                                          *)
LEMMA SameBox ==
  ASSUME BoxInv, box' \in BoxType, \A q \in Replica : box'[q].label = box[q].label,
         run'.r = run.r, run'.goal = run.goal,
         run'.ph \notin {"probe", "attest"}
  PROVE  BoxInv'
<1>1. 1 \in Replica
  BY RolloutAssumption DEF RolloutAssumption, Replica
<1> QED
  BY <1>1 DEF BoxInv

LEMMA DrainKeeps == ASSUME RollInv, RollDrain \/ ReloadDrain PROVE RollInv'
<1>0. TypeInv /\ RunnerInv /\ BoxInv
  BY DEF RollInv
<1>1. /\ run.op # 0 /\ run.ph = "go" /\ Step(run.op) \in {"roll", "reload"}
      /\ UNCHANGED <<app, box, history, ops, budget>>
      /\ Goes("wrote") \/ Goes("start")
      /\ replica' = replica \/ replica' = WithReplica(run.r, "draining")
  BY DEF RollDrain, ReloadDrain, Doing
<1>2. run' \in RunRec /\ run'.op = run.op /\ run'.ph \in {"wrote", "start"} /\ run'.r = run.r
      /\ run'.goal = run.goal
  BY <1>0, <1>1, Going DEF ForwardPh
<1>3. app' \in AppRec /\ box' \in BoxType /\ budget' \in BudgetType /\ box \in BoxType
  BY <1>0, <1>1, Types
<1>4. "draining" \in ReplicaStatus /\ replica \in ReplicaType
  BY <1>0, Types DEF ReplicaStatus
<1>5. replica' \in ReplicaType
  BY <1>0, <1>1, <1>4, Statuses
<1>6. BoxInv'
  BY <1>0, <1>1, <1>2, <1>3, SameBox
<1>7. run.ph \in ForwardPh /\ run'.ph \in ForwardPh /\ Step(run.op) # "health"
  BY <1>1, <1>2 DEF ForwardPh
<1> QED
  BY <1>1, <1>2, <1>3, <1>5, <1>6, <1>7, RollKeeps

(* A failed start of a later replica removes its container; a started one  *)
(* past the first runs an image that was ready on the first.               *)
LEMMA RollStartKeeps == ASSUME RollInv, RollStart PROVE RollInv'
<1>0. TypeInv /\ RunnerInv /\ BoxInv
  BY DEF RollInv
<1>1. /\ run.op # 0 /\ run.ph = "start" /\ Step(run.op) \in {"roll", "reload"}
      /\ UNCHANGED <<app, replica, history>>
  BY DEF RollStart, Doing
<1>2. run.r \in Replica /\ run.goal \in Lab /\ run.ph \in ForwardPh
  BY <1>0, <1>1, AtStep DEF ForwardPh
<1>3. \/ Started(run.r, run.goal) /\ Goes("probe") /\ UNCHANGED ops
      \/ StartFailed(run.r) /\ Throw
  <2>1. \/ /\ \/ Matches(run.r, run.goal) /\ UNCHANGED <<box, budget>>
              \/ ~Matches(run.r, run.goal) /\ box' = [box EXCEPT ![run.r] = Up(run.goal)] /\ UNCHANGED budget
           /\ Goes("probe") /\ UNCHANGED ops
        \/ box' = [box EXCEPT ![run.r] = NoBox] /\ Fault /\ Throw
    BY DEF RollStart, Starts
  <2> QED
    BY <1>0, <1>2, <2>1, StartsOrNot, StartsNot
<1>4. app' \in AppRec /\ replica' \in ReplicaType /\ box' \in BoxType /\ budget' \in BudgetType
      /\ \A q \in Replica \ {run.r} : box'[q] = box[q]
  BY <1>0, <1>1, <1>3, Types, Budgets DEF Started, StartFailed
<1>5. CASE StartFailed(run.r) /\ Throw
  <2>1. box'[run.r].label.image \notin Broken
    BY <1>0, <1>2, <1>5, Boxes DEF StartFailed
  <2>2. \A q \in Replica \ {1} : box'[q].label.image \notin Broken
    BY <1>0, <1>4, <2>1 DEF BoxInv
  <2> QED
    BY <1>0, <1>1, <1>4, <1>5, <2>2, ThrownKeeps
<1>6. CASE Started(run.r, run.goal) /\ Goes("probe") /\ UNCHANGED ops
  <2>1. run' \in RunRec /\ run'.op = run.op /\ run'.ph = "probe" /\ run'.r = run.r /\ run'.goal = run.goal
    BY <1>0, <1>6, Going DEF ForwardPh
  <2>2. box'[run.r].label = run.goal
    BY <1>6 DEF Started
  <2>3. BoxInv'
    <3>1. \A q \in Replica \ {1} : box'[q].label.image \notin Broken
      <4>1. CASE run.r = 1
        BY <1>0, <1>4, <4>1 DEF BoxInv
      <4>2. CASE run.r # 1
        <5>1. run.r > 1
          BY <1>2, <4>2 DEF Replica
        <5> QED
          BY <1>0, <1>4, <2>2, <5>1 DEF BoxInv
      <4> QED
        BY <4>1, <4>2
    <3>2. run.r > 1 => run.goal.image \notin Broken /\ box'[1].label.image \notin Broken
      <4>1. 1 \in Replica
        BY RolloutAssumption DEF RolloutAssumption, Replica
      <4> QED
        BY <1>0, <1>4, <4>1 DEF BoxInv
    <3> QED
      BY <2>1, <2>2, <3>1, <3>2 DEF BoxInv
  <2>4. run'.ph \in ForwardPh /\ Step(run.op) # "health"
    BY <1>1, <2>1 DEF ForwardPh
  <2> QED
    BY <1>1, <1>2, <1>4, <1>6, <2>1, <2>3, <2>4, RollKeeps
<1> QED
  BY <1>3, <1>5, <1>6

(* A replica that is attested next runs a sound image. *)
LEMMA AttestNext ==
  ASSUME RollInv, run.op # 0, run.ph \in ForwardPh, Step(run.op) \in {"roll", "reload", "health"},
         Goes("attest"), Healthy(run.r), UNCHANGED <<ops, history, box>>,
         app' \in AppRec, replica' \in ReplicaType, budget' \in BudgetType
  PROVE  RollInv'
<1>0. TypeInv /\ RunnerInv /\ BoxInv
  BY DEF RollInv
<1>1. run' \in RunRec /\ run'.op = run.op /\ run'.ph = "attest" /\ run'.r = run.r /\ run'.goal = run.goal
  BY <1>0, Going DEF ForwardPh
<1>2. BoxInv'
  BY <1>0, <1>1 DEF BoxInv, Healthy
<1>3. box' \in BoxType /\ run'.ph \in ForwardPh
  BY <1>0, <1>1, Types DEF ForwardPh
<1>4. Step(run.op) = "health" /\ row.kind \in {"rollback", "promote"} => run'.r = 1
  BY <1>0, <1>1, AtStep
<1> QED
  BY <1>1, <1>2, <1>3, <1>4, RollKeeps

LEMMA ProbeKeeps == ASSUME RollInv, Probe PROVE RollInv'
<1>0. TypeInv /\ RunnerInv /\ BoxInv
  BY DEF RollInv
<1>1. /\ run.op # 0 /\ run.ph \in {"probe", "go"} /\ Step(run.op) \in {"roll", "health"}
      /\ UNCHANGED <<app, box, history>>
      /\ UNCHANGED budget \/ Fault
      /\ \/ Healthy(run.r) /\ Goes("attest") /\ replica' = WithReplica(run.r, "attesting") /\ UNCHANGED ops
         \/ Throw /\ replica' = WithReplica(run.r, "unhealthy")
  BY DEF Probe, Doing, Calls
<1>2. "attesting" \in ReplicaStatus /\ "unhealthy" \in ReplicaStatus /\ run.ph \in ForwardPh
  BY <1>1 DEF ReplicaStatus, ForwardPh
<1>3. app' \in AppRec /\ replica' \in ReplicaType /\ box' \in BoxType /\ budget' \in BudgetType
  BY <1>0, <1>1, <1>2, Types, Statuses, Budgets
<1>4. CASE Throw
  BY <1>0, <1>1, <1>3, <1>4, ThrownKeeps DEF BoxInv
<1>5. CASE Healthy(run.r) /\ Goes("attest") /\ UNCHANGED ops
  BY <1>1, <1>2, <1>3, <1>5, AttestNext
<1> QED
  BY <1>1, <1>4, <1>5

LEMMA SwapProbeKeeps == ASSUME RollInv, SwapProbe PROVE RollInv'
<1>0. TypeInv /\ RunnerInv /\ BoxInv
  BY DEF RollInv
<1>1. /\ run.op # 0 /\ run.ph = "go" /\ Step(run.op) = "health"
      /\ UNCHANGED <<box, history>>
      /\ UNCHANGED budget \/ Fault
      /\ \/ /\ Healthy(1) /\ Goes("attest") /\ UNCHANGED ops
            /\ replica' = WithReplica(1, "attesting") /\ app' = [app EXCEPT !.st = "running"]
         \/ Throw /\ app' = [app EXCEPT !.st = "unhealthy"] /\ UNCHANGED replica
  BY DEF SwapProbe, Doing, Calls
<1>2. /\ "attesting" \in ReplicaStatus /\ run.ph \in ForwardPh
      /\ "running" \in AppStatus /\ "unhealthy" \in AppStatus
  BY <1>1 DEF ReplicaStatus, ForwardPh, AppStatus
<1>3. replica' \in ReplicaType /\ box' \in BoxType /\ budget' \in BudgetType
  BY <1>0, <1>1, <1>2, Types, Statuses, Budgets
<1>4. app' \in AppRec
  BY <1>0, <1>1, <1>2, Types DEF AppRec
<1>5. CASE Throw
  BY <1>0, <1>1, <1>3, <1>4, <1>5, ThrownKeeps DEF BoxInv
<1>6. CASE Healthy(1) /\ Goes("attest") /\ UNCHANGED ops
  <2>1. run' \in RunRec /\ run'.op = run.op /\ run'.ph = "attest" /\ run'.r = run.r /\ run'.goal = run.goal
    BY <1>0, <1>6, Going DEF ForwardPh
  <2>2. box'[run.r].label.image \notin Broken
    <3>1. run.r \in Replica
      BY <1>0, <1>1, AtStep
    <3> QED
      BY <1>0, <1>1, <1>6, <3>1 DEF BoxInv, Healthy
  <2>3. BoxInv'
    BY <1>0, <1>1, <2>1, <2>2 DEF BoxInv
  <2>4. run'.ph \in ForwardPh
    BY <2>1 DEF ForwardPh
  <2>5. Step(run.op) = "health" /\ row.kind \in {"rollback", "promote"} => run'.r = 1
    BY <1>0, <1>1, <1>2, <2>1, AtStep
  <2> QED
    BY <1>1, <1>2, <1>3, <1>4, <1>6, <2>1, <2>3, <2>4, <2>5, RollKeeps
<1> QED
  BY <1>1, <1>5, <1>6

-----------------------------------------------------------------------------
(* The next replica. *)

(* The runner goes on to the next replica, or to the end of the step.      *)
GoesOn(n) ==
  /\ n \in RunRec /\ n.op = run.op /\ n.goal = run.goal
  /\ \/ n.ph = "post" /\ n.r = run.r
     \/ n.ph = "go" /\ n.r = run.r + 1

LEMMA Beyonds ==
  ASSUME TypeInv, NEW last \in {1, Replicas}, last = 1 => run.r = 1
  PROVE  /\ GoesOn(Beyond(last)) /\ Beyond(last).bad = run.bad
         /\ run.r = last => Beyond(last).r = run.r
<1>1. run \in RunRec /\ run.r \in Replica
  BY Types DEF RunRec
<1>2. CASE run.r = last
  BY <1>1, <1>2 DEF Beyond, RunRec, ForwardPh, GoesOn
<1>3. CASE run.r # last
  <2>1. run.r + 1 \in Replica
    BY <1>1, <1>3, RolloutAssumption DEF Replica, RolloutAssumption
  <2>2. Beyond(last) = [run EXCEPT !.r = run.r + 1, !.ph = "go"]
    BY <1>1, <1>3 DEF Beyond, RunRec
  <2> QED
    BY <1>1, <1>3, <2>1, <2>2 DEF RunRec, ForwardPh, GoesOn
<1> QED
  BY <1>2, <1>3

LEMMA BeyondsBad ==
  ASSUME TypeInv, NEW n \in RunRec, GoesOn(n), NEW b \in BOOLEAN
  PROVE  GoesOn([n EXCEPT !.bad = b]) /\ [n EXCEPT !.bad = b].bad = b
  BY DEF GoesOn, RunRec

LEMMA AttestKeeps == ASSUME RollInv, Attest PROVE RollInv'
<1>0. TypeInv /\ RunnerInv /\ BoxInv
  BY DEF RollInv
<1>1. PICK seen \in BOOLEAN :
        LET ok == seen /\ Matches(run.r, run.goal) IN
        /\ Calls(seen)
        /\ replica' = [replica EXCEPT ![run.r] = Attestation(run.goal, ok)]
        /\ IF ok
           THEN /\ run' = Beyond(IF row.kind = "rollback" \/ (row.kind = "promote" /\ Step(run.op) = "health")
                                 THEN 1 ELSE Replicas)
                /\ UNCHANGED ops
           ELSE Throw
  BY DEF Attest
<1>2. /\ run.op # 0 /\ run.ph = "attest" /\ Step(run.op) \in {"roll", "health"}
      /\ UNCHANGED <<app, box, history>>
      /\ UNCHANGED budget \/ Fault
  BY <1>1 DEF Attest, Doing, Calls
<1>3. run.r \in Replica /\ run.goal \in Lab /\ run.ph \in ForwardPh /\ run.bad \in BOOLEAN
  BY <1>0, <1>2, AtStep DEF ForwardPh, RunRec
<1> DEFINE ok == seen /\ Matches(run.r, run.goal)
           last == IF row.kind = "rollback" \/ (row.kind = "promote" /\ Step(run.op) = "health")
                   THEN 1 ELSE Replicas
<1>4. replica' = [replica EXCEPT ![run.r] = Attestation(run.goal, ok)]
      /\ (ok => Matches(run.r, run.goal) /\ run' = Beyond(last) /\ UNCHANGED ops)
      /\ (~ok => Throw)
  BY <1>1
<1>5. last \in {1, Replicas}
  OBVIOUS
<1>9. /\ last = 1 => run.r = 1
      /\ Step(run.op) = "health" /\ row.kind \in {"rollback", "promote"} => last = 1
  <2>1. Replicas = 1 => run.r = 1
    BY <1>3 DEF Replica
  <2>2. row.kind = "rollback" => Step(run.op) = "health"
    BY <1>0, <1>2, <1>3, AtStep
  <2>3. Step(run.op) = "health" /\ row.kind \in {"rollback", "promote"} => run.r = 1
    BY <1>0, <1>2, <1>3, AtStep
  <2> QED
    BY <2>1, <2>2, <2>3
<1> HIDE DEF ok, last
<1>6. app' \in AppRec /\ replica' \in ReplicaType /\ box' \in BoxType /\ budget' \in BudgetType
  BY <1>0, <1>2, <1>3, <1>4, Types, Attestations, Budgets
<1>7. CASE ~ok
  BY <1>0, <1>2, <1>4, <1>6, <1>7, ThrownKeeps DEF BoxInv
<1>8. CASE ok
  <2>1. run.goal.image \notin Broken /\ box[run.r].label.image \notin Broken
    BY <1>0, <1>2, <1>4, <1>8 DEF BoxInv, Matches
  <2>2. GoesOn(run')
    BY <1>0, <1>4, <1>5, <1>8, <1>9, Beyonds
  <2>3. BoxInv'
    <3>1. box[1].label.image \notin Broken
      BY <1>0, <1>3, <2>1 DEF BoxInv, Replica
    <3> QED
      BY <1>0, <1>2, <2>1, <2>2, <3>1 DEF BoxInv, GoesOn
  <2>4. run'.ph \in ForwardPh
    BY <2>2 DEF ForwardPh, GoesOn
  <2>5. Step(run.op) = "health" /\ row.kind \in {"rollback", "promote"} => run'.r = 1
    BY <1>0, <1>4, <1>5, <1>8, <1>9, Beyonds
  <2> QED
    BY <1>2, <1>3, <1>4, <1>6, <1>8, <2>1, <2>2, <2>3, <2>4, <2>5, RollKeeps DEF GoesOn
<1> QED
  BY <1>7, <1>8

LEMMA ReloadNext ==
  ASSUME RollInv, run.op # 0, run.ph \in ForwardPh, Step(run.op) = "reload",
         NEW b \in BOOLEAN, run' = [Beyond(Replicas) EXCEPT !.bad = b],
         UNCHANGED <<ops, history, box>>,
         app' \in AppRec, replica' \in ReplicaType, budget' \in BudgetType,
         box[run.r].label.image \notin Broken
  PROVE  RollInv'
<1>0. TypeInv /\ RunnerInv /\ BoxInv
  BY DEF RollInv
<1>1. run.goal.image \notin Broken /\ run.r \in Replica
  BY <1>0, AtStep
<1>2. GoesOn(run')
  <2>1. Replicas = 1 => run.r = 1
    BY <1>1 DEF Replica
  <2>2. GoesOn(Beyond(Replicas)) /\ Beyond(Replicas) \in RunRec
    BY <1>0, <2>1, Beyonds DEF GoesOn
  <2> QED
    BY <1>0, <2>2, BeyondsBad
<1>3. box[1].label.image \notin Broken
  BY <1>0, <1>1 DEF BoxInv, Replica
<1>4. BoxInv'
  BY <1>0, <1>1, <1>2, <1>3 DEF BoxInv, GoesOn
<1>5. run'.ph \in ForwardPh /\ box' \in BoxType
  BY <1>0, <1>2, Types DEF ForwardPh, GoesOn
<1> QED
  BY <1>2, <1>4, <1>5, RollKeeps DEF GoesOn

LEMMA ReloadProbeKeeps == ASSUME RollInv, ReloadProbe PROVE RollInv'
<1>0. TypeInv /\ RunnerInv /\ BoxInv
  BY DEF RollInv
<1>1. /\ run.op # 0 /\ run.ph = "probe" /\ Step(run.op) = "reload"
      /\ UNCHANGED <<app, box, history, ops>>
      /\ UNCHANGED budget \/ Fault
      /\ \/ Healthy(run.r) /\ Goes("attest") /\ replica' = WithReplica(run.r, "attesting")
         \/ /\ run' = [Beyond(Replicas) EXCEPT !.bad = TRUE]
            /\ replica' = WithReplica(run.r, "unhealthy")
  BY DEF ReloadProbe, Doing, Calls
<1>2. "attesting" \in ReplicaStatus /\ "unhealthy" \in ReplicaStatus /\ run.ph \in ForwardPh
  BY <1>1 DEF ReplicaStatus, ForwardPh
<1>3. app' \in AppRec /\ replica' \in ReplicaType /\ box' \in BoxType /\ budget' \in BudgetType
  BY <1>0, <1>1, <1>2, Types, Statuses, Budgets
<1>4. box[run.r].label.image \notin Broken
  BY <1>0, <1>1, <1>2, AtStep DEF BoxInv
<1>5. CASE run' = [Beyond(Replicas) EXCEPT !.bad = TRUE]
  BY <1>0, <1>1, <1>2, <1>3, <1>4, <1>5, ReloadNext
<1>6. CASE Healthy(run.r) /\ Goes("attest")
  BY <1>1, <1>2, <1>3, <1>6, AttestNext
<1> QED
  BY <1>1, <1>5, <1>6

LEMMA ReloadAttestKeeps == ASSUME RollInv, ReloadAttest PROVE RollInv'
<1>0. TypeInv /\ RunnerInv /\ BoxInv
  BY DEF RollInv
<1>1. PICK seen \in BOOLEAN :
        LET ok == seen /\ Matches(run.r, run.goal) IN
        /\ Calls(seen)
        /\ replica' = [replica EXCEPT ![run.r] = Attestation(run.goal, ok)]
        /\ run' = [Beyond(Replicas) EXCEPT !.bad = run.bad \/ ~ok]
  BY DEF ReloadAttest
<1>2. /\ run.op # 0 /\ run.ph = "attest" /\ Step(run.op) = "reload"
      /\ UNCHANGED <<app, box, history, ops>>
      /\ UNCHANGED budget \/ Fault
  BY <1>1 DEF ReloadAttest, Doing, Calls
<1> DEFINE ok == seen /\ Matches(run.r, run.goal)
           b == run.bad \/ ~ok
<1>3. run.r \in Replica /\ run.goal \in Lab /\ run.ph \in ForwardPh /\ b \in BOOLEAN
  BY <1>0, <1>2, AtStep DEF ForwardPh, RunRec
<1>4. replica' = [replica EXCEPT ![run.r] = Attestation(run.goal, ok)]
      /\ run' = [Beyond(Replicas) EXCEPT !.bad = b]
  BY <1>1
<1> HIDE DEF ok, b
<1>5. app' \in AppRec /\ replica' \in ReplicaType /\ box' \in BoxType /\ budget' \in BudgetType
  BY <1>0, <1>2, <1>3, <1>4, Types, Attestations, Budgets
<1>6. box[run.r].label.image \notin Broken
  BY <1>0, <1>2 DEF BoxInv
<1> QED
  BY <1>2, <1>3, <1>4, <1>5, <1>6, ReloadNext

(* The post phase of a health check comes after its attestations.          *)
LEMMA RolledKeeps == ASSUME RollInv, Rolled PROVE RollInv'
<1>0. TypeInv /\ RunnerInv /\ BoxInv
  BY DEF RollInv
<1>1. /\ run.ph = "post"
      /\ UNCHANGED <<replica, box, history, budget>>
      /\ Throw \/ (Goes("wrote") /\ UNCHANGED ops)
      /\ \E st \in {"unhealthy", "running", app.st} : app' = [app EXCEPT !.st = st]
  <2>1. app \in AppRec
    BY <1>0, Types
  <2>2. app = [app EXCEPT !.st = app.st]
    BY <2>1 DEF AppRec
  <2> QED
    BY <2>2 DEF Rolled
<1>2. run.op # 0 /\ run.ph \in ForwardPh /\ run.ph # "idle"
  BY <1>0, <1>1, Idles DEF RunnerInv, ForwardPh
<1>3. app \in AppRec /\ {"unhealthy", "running", app.st} \subseteq AppStatus
  BY <1>0, Types DEF AppRec, AppStatus
<1>4. app' \in AppRec /\ replica' \in ReplicaType /\ box' \in BoxType /\ budget' \in BudgetType
  BY <1>0, <1>1, <1>3, Types DEF AppRec
<1>5. CASE Throw
  BY <1>0, <1>1, <1>2, <1>4, <1>5, ThrownKeeps DEF BoxInv
<1>6. CASE Goes("wrote") /\ UNCHANGED ops
  <2>1. run' \in RunRec /\ run'.op = run.op /\ run'.ph = "wrote" /\ run'.r = run.r /\ run'.goal = run.goal
    BY <1>0, <1>6, Going DEF ForwardPh
  <2>2. BoxInv'
    BY <1>0, <1>1, <1>4, <2>1, SameBox
  <2>3. Step(run.op) \in {"roll", "reload", "health"}
        /\ (Step(run.op) = "health" => run.goal.image \notin Broken)
    BY <1>0, <1>1, <1>2, AtStep
  <2>4. run'.ph \in ForwardPh
    BY <2>1 DEF ForwardPh
  <2>5. Step(run.op) = "health" /\ row.kind \in {"rollback", "promote"} => run'.r = 1
    BY <1>0, <1>1, <1>2, <2>1, AtStep
  <2> QED
    BY <1>1, <1>2, <1>4, <1>6, <2>1, <2>2, <2>3, <2>4, <2>5, RollKeeps
<1> QED
  BY <1>1, <1>5, <1>6
-----------------------------------------------------------------------------
(* The runner between the steps. *)

LEMMA StepFailsKeeps == ASSUME RollInv, StepFails PROVE RollInv'
<1>0. TypeInv /\ RunnerInv /\ BoxInv
  BY DEF RollInv
<1>1. run.ph \in {"go", "start", "post"} /\ Fault /\ Throw
      /\ UNCHANGED <<app, replica, box, history>>
  BY DEF StepFails
<1>2. run.op # 0
  BY <1>0, <1>1, Idles DEF RunnerInv
<1>3. app' \in AppRec /\ replica' \in ReplicaType /\ box' \in BoxType /\ budget' \in BudgetType
  BY <1>0, <1>1, Types, Budgets
<1> QED
  BY <1>0, <1>1, <1>2, <1>3, ThrownKeeps DEF BoxInv

(* The row x after its step s, that worked towards g and saw status st.    *)
DoneRow(x, s, g, st) ==
  [x EXCEPT !.pc = x.pc + 1,
            !.snap = IF s = "snapshot" THEN g ELSE x.snap,
            !.built = IF s \in {"pull", "swap"} THEN g.image ELSE x.built,
            !.prev = IF s \in {"target", "deploying"} THEN st ELSE x.prev]

LEMMA DoneRows ==
  ASSUME NEW x \in Row, x.st = "running", x.pc < Len(Steps(x.kind)), NEW s,
         s = Steps(x.kind)[x.pc + 1], NEW g \in Lab, NEW st \in AppStatus,
         s = "health" => x.built \notin Broken
  PROVE  DoneRow(x, s, g, st) \in Row
<1> DEFINE snap == IF s = "snapshot" THEN g ELSE x.snap
           built == IF s \in {"pull", "swap"} THEN g.image ELSE x.built
           prev == IF s \in {"target", "deploying"} THEN st ELSE x.prev
           y == DoneRow(x, s, g, st)
<1>1. y = [x EXCEPT !.pc = x.pc + 1, !.snap = snap, !.built = built, !.prev = prev]
  BY DEF DoneRow
<1>2. x \in OpRec /\ x.kind \in Kind /\ x.pc \in Nat
  BY DEF Row, OpRec
<1>3. snap \in Lab /\ built \in Picture /\ prev \in AppStatus
  BY <1>2 DEF OpRec, Lab
<1>4. /\ Len(Steps(x.kind)) \in Nat /\ HealthPc(x.kind) \in Nat
      /\ x.pc + 1 \in 1 .. Len(Steps(x.kind))
      /\ s = "health" <=> x.pc + 1 = HealthPc(x.kind)
      /\ s \in {"pull", "swap"} => x.pc + 1 < HealthPc(x.kind)
  <2>1. Len(Steps(x.kind)) \in Nat /\ HealthPc(x.kind) \in Nat
    BY <1>2, StepsTable
  <2>2. x.pc + 1 \in 1 .. Len(Steps(x.kind))
    BY <1>2, <2>1
  <2> QED
    BY <1>2, <2>1, <2>2, StepsTable
<1>5. x.pc + 1 >= HealthPc(x.kind) => built \notin Broken
  <2>1. x.pc >= HealthPc(x.kind) => x.built \notin Broken
    BY DEF Row
  <2> QED
    BY <1>2, <1>4, <2>1
<1> DEFINE pc == x.pc + 1
<1>8. pc \in Nat /\ y = [x EXCEPT !.pc = pc, !.snap = snap, !.built = built, !.prev = prev]
  BY <1>1, <1>2
<1> HIDE DEF snap, built, prev, y, pc
<1>9. y \in OpRec
  BY <1>2, <1>3, <1>8 DEF OpRec
<1>10. y.pc = pc /\ y.kind = x.kind /\ y.built = built /\ y.st = x.st
  BY <1>2, <1>8 DEF OpRec
<1>6. y \in OpRec /\ y.pc = x.pc + 1 /\ y.kind = x.kind /\ y.built = built /\ y.st = "running"
  BY <1>9, <1>10 DEF pc
<1>7. y \in Row
  BY <1>4, <1>5, <1>6 DEF Row
<1> QED
  BY <1>7 DEF y

LEMMA StepDoneKeeps == ASSUME RollInv, StepDone PROVE RollInv'
<1>0. TypeInv /\ RunnerInv /\ BoxInv
  BY DEF RollInv
<1>1. run.ph = "wrote" /\ UNCHANGED <<app, manifest, replica, box, history, budget>>
  BY DEF StepDone
<1>2. run.op # 0 /\ run.ph \in ForwardPh
  BY <1>0, <1>1, Idles DEF RunnerInv, ForwardPh
<1>3. /\ row \in Row /\ row.st = "running" /\ row.pc < Len(Steps(row.kind))
      /\ run.goal \in Lab /\ run.prev \in AppStatus /\ run.op \in DOMAIN ops /\ run.op \in Nat
      /\ Step(run.op) = "health" => row.built \notin Broken
  BY <1>0, <1>1, <1>2, AtStep DEF RunRec
<1>4. Step(run.op) = Steps(row.kind)[row.pc + 1]
  BY DEF Step, row
<1> DEFINE y == DoneRow(row, Step(run.op), run.goal, run.prev)
           to == Forward(run.op, y)
<1>5. Settle(run.op, to)
  BY DEF StepDone, DoneRow
<1>6. y \in Row
  BY <1>3, <1>4, DoneRows
<1> HIDE DEF y
<1>7. Settles(run.op, to)
  BY <1>0, <1>3, <1>6, ForwardSettles
<1> HIDE DEF to
<1>8. app' \in AppRec /\ replica' \in ReplicaType /\ box' \in BoxType /\ budget' \in BudgetType
  BY <1>0, <1>1, Types
<1> QED
  BY <1>0, <1>1, <1>3, <1>5, <1>7, <1>8, SettledKeeps DEF BoxInv

LEMMA OpStartKeeps == ASSUME RollInv, OpStart PROVE RollInv'
<1>0. TypeInv /\ RunnerInv /\ BoxInv
  BY DEF RollInv
<1>1. UNCHANGED <<app, manifest, replica, box, history, budget>>
  BY DEF OpStart
<1>2. PICK o \in DOMAIN ops :
        \/ Settle(o, Forward(o, ops[o]))
        \/ ops[o].st = "compensating" /\ Settle(o, Unwound(o, ops[o]))
  BY DEF OpStart
<1>3. ops[o] \in Row /\ o \in Nat
  BY <1>0, RowsTyped
<1>4. app' \in AppRec /\ replica' \in ReplicaType /\ box' \in BoxType /\ budget' \in BudgetType
  BY <1>0, <1>1, Types
<1>5. \A r \in Replica \ {1} : box'[r].label.image \notin Broken
  BY <1>0, <1>1 DEF BoxInv
<1>6. CASE Settle(o, Forward(o, ops[o]))
  <2> DEFINE to == Forward(o, ops[o])
  <2>1. Settles(o, to)
    BY <1>0, <1>3, ForwardSettles
  <2>2. Settle(o, to)
    BY <1>6
  <2> HIDE DEF to
  <2> QED
    BY <1>1, <1>4, <1>5, <2>1, <2>2, SettledKeeps
<1>7. CASE ops[o].st = "compensating" /\ Settle(o, Unwound(o, ops[o]))
  <2> DEFINE to == Unwound(o, ops[o])
  <2>1. Settles(o, to)
    BY <1>3, <1>7, UnwoundSettles
  <2>2. Settle(o, to)
    BY <1>7
  <2> HIDE DEF to
  <2> QED
    BY <1>1, <1>4, <1>5, <2>1, <2>2, SettledKeeps
<1> QED
  BY <1>2, <1>6, <1>7

-----------------------------------------------------------------------------
(* The compensations. *)

LEMMA BackAt ==
  ASSUME RollInv, run.ph \in BackPh
  PROVE  /\ run.op # 0 /\ run.op \in DOMAIN ops /\ run.op \in Nat \ {0} /\ row \in Row /\ row \in OpRec
         /\ row.st = "compensating" /\ run.r = 1
         /\ run.ph # "undo" => row.undo = {"snapshot"}
<1>1. TypeInv /\ RunnerInv
  BY DEF RollInv
<1>2. run.op # 0
  BY <1>1, Idles DEF RunnerInv, BackPh
<1>3. run.ph # "undo" => run.ph \in {"restore", "reprobe", "restored"}
  BY DEF BackPh
<1> QED
  BY <1>1, <1>2, <1>3, AtStep

(* A step of the operation that is not compensated, the snapshot before    *)
(* all, stays owed.                                                        *)
UndoneRow(x, s) == [x EXCEPT !.undo = x.undo \ {s}]

LEMMA UndoneKeeps ==
  ASSUME RollInv, run.ph \in BackPh, NEW s, s = "snapshot" => row.undo = {"snapshot"}, Undone(s),
         app' \in AppRec, replica' \in ReplicaType, UNCHANGED <<box, history, budget>>
  PROVE  RollInv'
<1>0. TypeInv /\ RunnerInv /\ BoxInv
  BY DEF RollInv
<1>1. run.op \in DOMAIN ops /\ run.op \in Nat /\ row \in Row /\ row \in OpRec /\ row.st = "compensating"
  BY BackAt
<1> DEFINE y == UndoneRow(row, s)
           to == Unwound(run.op, y)
<1>2. Settle(run.op, to)
  BY DEF Undone, UndoneRow
<1>3. y \in OpRec /\ y.st = "compensating" /\ y.undo = row.undo \ {s} /\ y.kind = row.kind
      /\ y.pc = row.pc /\ y.built = row.built
  BY <1>1 DEF OpRec, UndoneRow
<1> HIDE DEF y
<1>4. Settles(run.op, to)
  <2>1. CASE s # "snapshot"
    <3>1. y \in Row
      BY <1>1, <1>3, <2>1 DEF Row, Has
    <3> QED
      BY <1>1, <1>3, <3>1, UnwoundSettles
  <2>2. CASE s = "snapshot"
    <3>1. y.undo = {}
      BY <1>3, <2>2
    <3> DEFINE st == IF y.cancel THEN "cancelled" ELSE "compensated"
    <3>2. st \in OpStatus \ {"compensating"}
      BY DEF OpStatus
    <3>3. to.row = Over(y, st) /\ to.run = Idle
      BY <3>1 DEF Unwound
    <3> HIDE DEF st, to
    <3>4. to.row \in Row
      BY <1>3, <3>2, <3>3, OverRow
    <3> QED
      BY <3>3, <3>4, Idles DEF Settles
  <2> QED
    BY <2>1, <2>2
<1> HIDE DEF to
<1>5. box' \in BoxType /\ budget' \in BudgetType
  BY <1>0, Types
<1> QED
  BY <1>0, <1>1, <1>2, <1>4, <1>5, SettledKeeps DEF BoxInv

LEMMA WalkFailsKeeps ==
  ASSUME RollInv, run.ph \in BackPh, WalkFails,
         app' \in AppRec, replica' \in ReplicaType, box' \in BoxType, budget' \in BudgetType,
         UNCHANGED history, \A q \in Replica \ {1} : box'[q] = box[q]
  PROVE  RollInv'
<1>0. TypeInv /\ RunnerInv /\ BoxInv
  BY DEF RollInv
<1>1. run.op \in DOMAIN ops /\ row \in Row /\ row \in OpRec
  BY BackAt
<1> DEFINE y == [row EXCEPT !.tried = TRUE]
           to == [row |-> y, run |-> Idle]
<1>2. Settle(run.op, to)
  BY DEF WalkFails
<1>3. y \in Row
  BY <1>1 DEF Row, OpRec, Has
<1> HIDE DEF y
<1>4. Settles(run.op, to)
  BY <1>3, Idles DEF Settles
<1> HIDE DEF to
<1> QED
  BY <1>0, <1>1, <1>2, <1>4, SettledKeeps DEF BoxInv

(* The restoration goes on. *)
LEMMA BackKeeps ==
  ASSUME RollInv, run.ph \in BackPh, NEW ph \in BackPh, Goes(ph), row.undo = {"snapshot"},
         NEW d \in Picture, ops' = ops \/ ops' = [ops EXCEPT ![run.op].dir = d],
         app' \in AppRec, replica' \in ReplicaType, box' \in BoxType, budget' \in BudgetType,
         UNCHANGED history, \A q \in Replica \ {1} : box'[q] = box[q]
  PROVE  RollInv'
<1>0. TypeInv /\ RunnerInv /\ BoxInv
  BY DEF RollInv
<1>1. run.op # 0 /\ run.op \in DOMAIN ops /\ run.r = 1 /\ row.st = "compensating"
  BY BackAt
<1>2. run' \in RunRec /\ run'.op = run.op /\ run'.ph = ph /\ run'.r = run.r
  BY <1>0, Going
<1>3. ops' \in Seq(Row) /\ DOMAIN ops' = DOMAIN ops /\ Alike(row, ops'[run.op])
  BY <1>0, <1>1, DirKept DEF row
<1>4. row' = ops'[run.op]
  BY <1>2 DEF row
<1>5. Fits(row', run') /\ run'.ph # "idle"
  BY <1>1, <1>2, <1>3, <1>4 DEF Fits, Alike, ForwardPh, BackPh
<1>6. RunnerInv'
  BY <1>1, <1>2, <1>3, <1>5 DEF RunnerInv
<1>7. BoxInv'
  BY <1>0, <1>1, <1>2 DEF BoxInv, BackPh
<1>8. TypeInv'
  BY <1>0, <1>2, <1>3 DEF TypeInv, BoxType, ReplicaType, BudgetType
<1> QED
  BY <1>6, <1>7, <1>8 DEF RollInv
LEMMA UndoRollKeeps == ASSUME RollInv, UndoRoll PROVE RollInv'
<1>0. TypeInv
  BY DEF RollInv
<1>1. run.ph \in BackPh /\ UNCHANGED <<app, box, history, budget>> /\ Undone("roll")
  BY DEF UndoRoll, Undoing, BackPh
<1>2. app' \in AppRec /\ replica \in ReplicaType /\ "running" \in ReplicaStatus
  BY <1>0, <1>1, Types DEF ReplicaStatus
<1>3. \A r \in Replica : [replica[r] EXCEPT !.st = "running"] \in [st: ReplicaStatus, bad: BOOLEAN, att: Lab]
  BY <1>2 DEF ReplicaType
<1>4. replica' \in ReplicaType
  BY <1>2, <1>3 DEF UndoRoll, ReplicaType
<1> QED
  BY <1>1, <1>2, <1>4, UndoneKeeps

LEMMA UndoDeployingKeeps == ASSUME RollInv, UndoDeploying PROVE RollInv'
<1>0. TypeInv
  BY DEF RollInv
<1>1. /\ run.ph \in BackPh /\ UNCHANGED <<replica, box, history, budget>> /\ Undone("deploying")
      /\ app' = [app EXCEPT !.st = row.prev] \/ app' = app
  BY DEF UndoDeploying, Undoing, BackPh
<1>2. row.prev \in AppStatus /\ app \in AppRec
  BY <1>0, <1>1, BackAt, Types DEF OpRec
<1>3. app' \in AppRec /\ replica' \in ReplicaType
  BY <1>0, <1>1, <1>2, Types DEF AppRec
<1> QED
  BY <1>1, <1>3, UndoneKeeps

LEMMA UndoSnapshotKeeps == ASSUME RollInv, UndoSnapshot PROVE RollInv'
<1>0. TypeInv
  BY DEF RollInv
<1>1. /\ run.ph \in BackPh /\ "restore" \in BackPh
      /\ UNCHANGED <<replica, box, history, budget>>
      /\ Undone("snapshot") \/ (Goes("restore") /\ UNCHANGED ops)
      /\ app' = [app EXCEPT !.st = row.prev] \/ app' = app
  BY DEF UndoSnapshot, Undoing, BackPh
<1>2. row.prev \in AppStatus /\ app \in AppRec /\ row.undo \in SUBSET Undoable
  BY <1>0, <1>1, BackAt, Types DEF OpRec
<1>3. row.undo = {"snapshot"}
  BY <1>2 DEF UndoSnapshot, Undoing, Undoable
<1>4. app' \in AppRec /\ replica' \in ReplicaType /\ box' \in BoxType /\ budget' \in BudgetType
  BY <1>0, <1>1, <1>2, Types DEF AppRec
<1>5. CASE Undone("snapshot")
  BY <1>1, <1>3, <1>4, <1>5, UndoneKeeps
<1>6. CASE Goes("restore") /\ UNCHANGED ops
  <2>1. None \in Picture /\ \A q \in Replica \ {1} : box'[q] = box[q]
    BY <1>1 DEF Picture
  <2> QED
    BY <1>1, <1>3, <1>4, <1>6, <2>1, BackKeeps
<1> QED
  BY <1>1, <1>5, <1>6

LEMMA RestoreKeeps == ASSUME RollInv, Restore \/ RestoreFails PROVE RollInv'
<1>0. TypeInv
  BY DEF RollInv
<1>1. run.ph = "restore" /\ run.ph \in BackPh /\ "reprobe" \in BackPh
      /\ UNCHANGED <<app, replica, history>>
  BY DEF Restore, RestoreFails, BackPh
<1>2. row.undo = {"snapshot"} /\ row.snap \in Lab /\ 1 \in Replica /\ None \in Picture
  BY <1>1, BackAt, RolloutAssumption DEF OpRec, RolloutAssumption, Replica, Picture
<1>3. \/ Started(1, row.snap) /\ Goes("reprobe") /\ UNCHANGED ops
      \/ StartFailed(1) /\ WalkFails
      \/ box' = [box EXCEPT ![1] = NoBox] /\ UNCHANGED budget /\ WalkFails
      \/ UNCHANGED box /\ Fault /\ WalkFails
  <2>1. CASE RestoreFails
    BY <2>1 DEF RestoreFails
  <2>2. CASE Restore
    <3>1. \/ /\ \/ Matches(1, row.snap) /\ UNCHANGED <<box, budget>>
                \/ ~Matches(1, row.snap) /\ box' = [box EXCEPT ![1] = Up(row.snap)] /\ UNCHANGED budget
             /\ Goes("reprobe") /\ UNCHANGED ops
          \/ box' = [box EXCEPT ![1] = NoBox] /\ Fault /\ WalkFails
          \/ box' = [box EXCEPT ![1] = NoBox] /\ UNCHANGED budget /\ WalkFails
      BY <2>2 DEF Restore, Starts
    <3> QED
      BY <1>0, <1>2, <3>1, StartsOrNot, StartsNot
  <2> QED
    BY <2>1, <2>2
<1>4. app' \in AppRec /\ replica' \in ReplicaType /\ budget' \in BudgetType /\ box \in BoxType
  BY <1>0, <1>1, <1>3, Types, Budgets DEF Started, StartFailed
<1>5. box' \in BoxType /\ \A q \in Replica \ {1} : box'[q] = box[q]
  <2>1. CASE Started(1, row.snap) \/ StartFailed(1)
    BY <2>1 DEF Started, StartFailed
  <2>2. CASE box' = [box EXCEPT ![1] = NoBox]
    <3>1. box' \in BoxType
      BY <1>0, <1>2, <2>2, Boxes
    <3>2. \A q \in Replica \ {1} : box'[q] = box[q]
      BY <1>4, <2>2 DEF BoxType
    <3> QED
      BY <3>1, <3>2
  <2>3. CASE UNCHANGED box
    BY <1>4, <2>3
  <2> QED
    BY <1>3, <2>1, <2>2, <2>3
<1>6. CASE WalkFails
  BY <1>1, <1>4, <1>5, <1>6, WalkFailsKeeps
<1>7. CASE Goes("reprobe") /\ UNCHANGED ops
  BY <1>1, <1>2, <1>4, <1>5, <1>7, BackKeeps
<1> QED
  BY <1>3, <1>6, <1>7

LEMMA ReprobeKeeps == ASSUME RollInv, Reprobe PROVE RollInv'
<1>0. TypeInv
  BY DEF RollInv
<1>1. /\ run.ph = "reprobe" /\ run.ph \in BackPh /\ "restored" \in BackPh /\ None \in Picture
      /\ UNCHANGED <<box, history>>
      /\ UNCHANGED budget \/ Fault
      /\ \E st \in {"running", "unhealthy"} :
           replica' = WithReplica(1, st) /\ app' = [app EXCEPT !.st = st]
      /\ WalkFails \/ (Goes("restored") /\ ops' = [ops EXCEPT ![run.op].dir = None])
  BY DEF Reprobe, BackPh, Calls, Picture
<1>2. row.undo = {"snapshot"} /\ app \in AppRec
  BY <1>0, <1>1, BackAt, Types
<1>3. PICK st \in {"running", "unhealthy"} :
        replica' = WithReplica(1, st) /\ app' = [app EXCEPT !.st = st]
  BY <1>1
<1>4. st \in ReplicaStatus /\ st \in AppStatus
  BY DEF ReplicaStatus, AppStatus
<1>5. app' \in AppRec /\ replica' \in ReplicaType /\ budget' \in BudgetType /\ box' \in BoxType
      /\ \A q \in Replica \ {1} : box'[q] = box[q]
  BY <1>0, <1>1, <1>2, <1>3, <1>4, Types, Budgets, Statuses DEF AppRec
<1>6. CASE WalkFails
  BY <1>1, <1>5, <1>6, WalkFailsKeeps
<1>7. CASE Goes("restored") /\ ops' = [ops EXCEPT ![run.op].dir = None]
  BY <1>1, <1>2, <1>5, <1>7, BackKeeps
<1> QED
  BY <1>1, <1>6, <1>7

LEMMA RestoredKeeps == ASSUME RollInv, Restored PROVE RollInv'
<1>1. run.ph = "restored" /\ run.ph \in BackPh
      /\ UNCHANGED <<app, replica, box, history, budget>> /\ Undone("snapshot")
  BY DEF Restored, BackPh
<1>2. row.undo = {"snapshot"}
  BY <1>1, BackAt
<1>3. app' \in AppRec /\ replica' \in ReplicaType
  BY <1>1, Types DEF RollInv
<1> QED
  BY <1>1, <1>2, <1>3, UndoneKeeps

-----------------------------------------------------------------------------
(* What happens beside the runner. *)

LEMMA BesideKeeps ==
  ASSUME RollInv, UNCHANGED <<run, history>>, ops' \in Seq(Row), DOMAIN ops \subseteq DOMAIN ops',
         run.op # 0 => Alike(row, ops'[run.op]),
         app' \in AppRec, replica' \in ReplicaType, box' \in BoxType, budget' \in BudgetType,
         BoxInv'
  PROVE  RollInv'
<1>0. TypeInv /\ RunnerInv
  BY DEF RollInv
<1>1. TypeInv'
  BY <1>0 DEF TypeInv, BoxType, ReplicaType, BudgetType
<1>2. RunnerInv'
  <2>1. CASE run.op = 0
    BY <1>0, <2>1, Idles DEF RunnerInv, Idle
  <2>2. CASE run.op # 0
    <3>1. run.op \in DOMAIN ops' /\ run.ph # "idle" /\ Fits(row, run) /\ row' = ops'[run.op]
      BY <1>0, <2>2 DEF RunnerInv, row
    <3>2. Fits(row', run)
      BY <2>2, <3>1 DEF Fits, Alike
    <3>3. Fits(row', run')
      BY <3>2
    <3> QED
      BY <2>2, <3>1, <3>3 DEF RunnerInv
  <2> QED
    BY <2>1, <2>2
<1> QED
  BY <1>1, <1>2 DEF RollInv

LEMMA LabelsKept ==
  ASSUME RollInv, UNCHANGED run, \A q \in Replica : box'[q].label = box[q].label
  PROVE  BoxInv'
<1>1. 1 \in Replica /\ run.r \in Replica
  BY RolloutAssumption DEF RollInv, TypeInv, RunRec, RolloutAssumption, Replica
<1> QED
  BY <1>1 DEF BoxInv, RollInv

LEMMA RowsKept ==
  ASSUME RollInv, UNCHANGED ops
  PROVE  ops' \in Seq(Row) /\ DOMAIN ops \subseteq DOMAIN ops' /\ (run.op # 0 => Alike(row, ops'[run.op]))
  BY DEF RollInv, TypeInv, Alike, row

LEMMA Enqueued ==
  ASSUME RollInv, NEW k \in Kind, NEW i \in Picture, Enqueue(k, i)
  PROVE  ops' \in Seq(Row) /\ DOMAIN ops \subseteq DOMAIN ops' /\ (run.op # 0 => Alike(row, ops'[run.op]))
<1> DEFINE n == NewOp(k, i)
<1>1. n \in Row /\ ops \in Seq(Row) /\ ops' = Append(ops, n)
  BY NewRow DEF Enqueue, RollInv, TypeInv
<1>2. run.op # 0 => run.op \in 1 .. Len(ops)
  BY <1>1 DEF RollInv, RunnerInv
<1> HIDE DEF n
<1>3. ops' \in Seq(Row) /\ Len(ops') = Len(ops) + 1 /\ \A q \in 1 .. Len(ops) : ops'[q] = ops[q]
  BY <1>1
<1>4. DOMAIN ops \subseteq DOMAIN ops'
  BY <1>1, <1>3
<1> QED
  BY <1>2, <1>3, <1>4 DEF Alike, row

(* A row changes at another place than the runner's, or where the runner   *)
(* does not look.                                                          *)
LEMMA RowChanges ==
  ASSUME RollInv, NEW o \in DOMAIN ops, NEW y \in Row, ops' = [ops EXCEPT ![o] = y],
         run.op = o => Alike(ops[o], y),
         app' \in AppRec, UNCHANGED <<run, history, replica, box>>, budget' \in BudgetType
  PROVE  RollInv'
<1>0. TypeInv /\ RunnerInv
  BY DEF RollInv
<1>1. ops' \in Seq(Row) /\ DOMAIN ops = DOMAIN ops' /\ ops'[o] = y
      /\ \A q \in DOMAIN ops \ {o} : ops'[q] = ops[q]
  BY <1>0, RowsReplaced
<1>2. run.op # 0 => Alike(row, ops'[run.op])
  BY <1>0, <1>1 DEF Alike, row, RunnerInv
<1>3. replica' \in ReplicaType /\ box' \in BoxType
  BY <1>0, Types
<1>4. BoxInv'
  BY LabelsKept
<1> QED
  BY <1>1, <1>2, <1>3, <1>4, BesideKeeps

LEMMA RunningRow ==
  ASSUME RollInv, run.op # 0
  PROVE  run.op \in DOMAIN ops /\ ops[run.op].st \in {"running", "compensating"}
  BY AtStep DEF RollInv, row

LEMMA GiveUpKeeps == ASSUME RollInv, GiveUp PROVE RollInv'
<1>0. TypeInv
  BY DEF RollInv
<1>1. PICK o \in DOMAIN ops : run.op # o /\ ops' = [ops EXCEPT ![o] = Over(ops[o], "compensation_failed")]
  BY DEF GiveUp
<1>2. "compensation_failed" \in OpStatus \ {"compensating"} /\ ops[o] \in OpRec
  BY <1>0, RowsTyped DEF OpStatus
<1>3. Over(ops[o], "compensation_failed") \in Row
  BY <1>2, OverRow
<1>4. app' \in AppRec /\ budget' \in BudgetType /\ UNCHANGED <<run, history, replica, box>>
  BY <1>0, Types DEF GiveUp
<1> QED
  BY <1>1, <1>3, <1>4, RowChanges

LEMMA CancelKeeps == ASSUME RollInv, Cancel PROVE RollInv'
<1>0. TypeInv
  BY DEF RollInv
<1>1. PICK o \in DOMAIN ops :
       \/ ops[o].st = "pending" /\ ops' = [ops EXCEPT ![o] = Over(ops[o], "cancelled")]
       \/ ops[o].st = "running" /\ ops' = [ops EXCEPT ![o] = [ops[o] EXCEPT !.cancel = TRUE]]
  BY DEF Cancel
<1>2. ops[o] \in Row /\ ops[o] \in OpRec
  BY <1>0, RowsTyped
<1>3. app' \in AppRec /\ UNCHANGED <<run, history, replica, box>>
  BY <1>0, Types DEF Cancel
<1>4. budget' \in BudgetType
  <2>1. budget \in BudgetType /\ budget.edits > 0
    BY <1>0, Types DEF Cancel
  <2>2. budget' = [budget EXCEPT !.edits = budget.edits - 1] /\ budget.edits - 1 \in Nat
    BY <2>1 DEF Cancel, BudgetType
  <2> QED
    BY <2>1, <2>2 DEF BudgetType
<1>5. CASE ops[o].st = "pending" /\ ops' = [ops EXCEPT ![o] = Over(ops[o], "cancelled")]
  <2>1. "cancelled" \in OpStatus \ {"compensating"}
    BY DEF OpStatus
  <2>2. Over(ops[o], "cancelled") \in Row
    BY <1>2, <2>1, OverRow
  <2>3. run.op # o
    <3>1. o \in Nat \ {0}
      BY <1>0, RowsTyped
    <3> QED
      BY <1>5, <3>1, RunningRow
  <2> QED
    BY <1>3, <1>4, <1>5, <2>2, <2>3, RowChanges
<1>6. CASE ops[o].st = "running" /\ ops' = [ops EXCEPT ![o] = [ops[o] EXCEPT !.cancel = TRUE]]
  <2> DEFINE y == [ops[o] EXCEPT !.cancel = TRUE]
  <2>1. y \in Row /\ Alike(ops[o], y)
    BY <1>2 DEF Row, OpRec, Alike, Has
  <2>2. ops' = [ops EXCEPT ![o] = y]
    BY <1>6
  <2> HIDE DEF y
  <2> QED
    BY <1>3, <1>4, <2>1, <2>2, RowChanges
<1> QED
  BY <1>1, <1>5, <1>6

LEMMA CrashKeeps == ASSUME RollInv, Crash PROVE RollInv'
<1>0. TypeInv /\ BoxInv
  BY DEF RollInv
<1>1. /\ UNCHANGED <<app, manifest, replica, box, history>> /\ Fault /\ run' = Idle
      /\ ops' = [o \in DOMAIN ops |->
           IF ops[o].st = "running" THEN [ops[o] EXCEPT !.st = "pending"] ELSE ops[o]]
  BY DEF Crash
<1>2. ops' \in Seq(Row)
  <2>1. \A o \in DOMAIN ops : ops[o] \in Row /\ ops[o] \in OpRec
    BY <1>0, RowsTyped
  <2>2. \A o \in DOMAIN ops : [ops[o] EXCEPT !.st = "pending"] \in Row
    BY <2>1 DEF Row, OpRec, OpStatus, Has
  <2>3. Len(ops) \in Nat /\ DOMAIN ops = 1 .. Len(ops)
    BY <1>0, RowsTyped
  <2>4. ops' \in [1 .. Len(ops) -> Row]
    BY <1>1, <2>1, <2>2, <2>3
  <2> QED
    BY <2>3, <2>4
<1>3. RunnerInv' /\ run' \in RunRec
  BY <1>1, Idles DEF RunnerInv
<1>4. BoxInv'
  BY <1>0, <1>1, Idles DEF BoxInv
<1>5. budget' \in BudgetType
  BY <1>0, <1>1, Budgets
<1>6. TypeInv'
  BY <1>0, <1>1, <1>2, <1>3, <1>5 DEF TypeInv, BudgetType
<1> QED
  BY <1>3, <1>4, <1>6 DEF RollInv
LEMMA DeployedIsSound ==
  ASSUME TypeInv
  PROVE  Deployed.image \in Picture /\ Deployed.image \notin Broken
         /\ [image |-> Deployed.image, rev |-> app.rev] \in Lab
<1>1. Deployed \in DepRec /\ app.rev \in Nat
  BY DEF TypeInv, Deployed, AppRec
<1> QED
  BY <1>1 DEF DepRec, Lab

LEMMA EnqueueKeeps ==
  ASSUME RollInv, NEW k \in Kind, NEW i \in Picture, Enqueue(k, i),
         UNCHANGED <<app, box, history, run>>,
         replica' \in ReplicaType, budget' \in BudgetType
  PROVE  RollInv'
<1>1. app' \in AppRec /\ box' \in BoxType
  BY Types DEF RollInv
<1> QED
  BY <1>1, Enqueued, LabelsKept, BesideKeeps

LEMMA RequestKeeps == ASSUME RollInv, Request PROVE RollInv'
<1>1. PICK q \in Asked : Enqueue(q[1], q[2])
  BY DEF Request
<1>2. q[1] \in Kind /\ q[2] \in Picture
  BY RolloutAssumption DEF RolloutAssumption, Kind, Picture
<1>3. UNCHANGED <<app, box, history, run>> /\ replica' \in ReplicaType /\ budget' \in BudgetType
  BY Types DEF Request, RollInv
<1> QED
  BY <1>1, <1>2, <1>3, EnqueueKeeps

LEMMA RollOutKeeps == ASSUME RollInv, RollOut PROVE RollInv'
<1>1. Enqueue("redeploy", None) /\ "redeploy" \in Kind /\ None \in Picture
  BY DEF RollOut, Kind, Picture
<1>2. UNCHANGED <<app, box, history, run>> /\ replica' \in ReplicaType /\ budget' \in BudgetType
  BY Types DEF RollOut, RollInv
<1> QED
  BY <1>1, <1>2, EnqueueKeeps

(* The actions that change the app, the replicas' records and the budget   *)
(* only.                                                                   *)
LEMMA StatusKeeps ==
  ASSUME RollInv, UNCHANGED <<box, history, ops, run>>,
         app' \in AppRec, replica' \in ReplicaType, budget' \in BudgetType
  PROVE  RollInv'
<1>1. box' \in BoxType
  BY Types DEF RollInv
<1> QED
  BY <1>1, RowsKept, LabelsKept, BesideKeeps

LEMMA AttestAllKeeps == ASSUME RollInv, AttestAll PROVE RollInv'
<1>0. TypeInv
  BY DEF RollInv
<1> DEFINE l == [image |-> Deployed.image, rev |-> app.rev]
<1>1. PICK missed \in Replica \cup {0} :
        LET ok(r) == r # missed /\ Matches(r, l) IN
        /\ Calls(missed = 0)
        /\ replica' = [r \in Replica |-> Attestation(l, ok(r))]
        /\ \/ Enqueue("reload_app", None)
           \/ UNCHANGED ops
  BY DEF AttestAll
<1>2. l \in Lab
  BY <1>0, DeployedIsSound
<1> HIDE DEF l
<1>3. replica' \in ReplicaType
  <2>1. replica' = [r \in Replica |-> Attestation(l, r # missed /\ Matches(r, l))]
    BY <1>1
  <2>2. \A r \in Replica : Attestation(l, r # missed /\ Matches(r, l)) \in [st: ReplicaStatus, bad: BOOLEAN, att: Lab]
    BY <1>0, <1>2, Attestations
  <2> QED
    BY <2>1, <2>2 DEF ReplicaType
<1>4. budget' \in BudgetType
  BY <1>0, <1>1, Budgets DEF Calls
<1>5. UNCHANGED <<app, box, history, run>> /\ app' \in AppRec
  BY <1>0, Types DEF AttestAll
<1>6. CASE Enqueue("reload_app", None)
  <2>1. "reload_app" \in Kind /\ None \in Picture
    BY DEF Kind, Picture
  <2> QED
    BY <1>3, <1>4, <1>5, <1>6, <2>1, EnqueueKeeps
<1>7. CASE UNCHANGED ops
  BY <1>3, <1>4, <1>5, <1>7, StatusKeeps
<1> QED
  BY <1>1, <1>6, <1>7

LEMMA EditKeeps == ASSUME RollInv, Edit \/ StoreImage \/ ApplyManifest PROVE RollInv'
<1>0. TypeInv
  BY DEF RollInv
<1>1. app \in AppRec /\ replica \in ReplicaType /\ budget \in BudgetType /\ history \in Seq(DepRec)
  BY <1>0, Types
<1>2. app.rev + 1 \in Nat /\ app.image \in Picture /\ Len(history) \in Nat /\ "running" \in AppStatus
  BY <1>1 DEF AppRec, AppStatus
<1>3. \A a \in AppRec : Requested(a) \in AppRec
  BY <1>2 DEF Requested, AppRec
<1>4. app' \in AppRec
  <2>1. CASE Edit
    BY <1>0, <1>2, <2>1, Apps DEF Edit
  <2>2. CASE StoreImage
    <3>1. PICK i \in Image : app' = Requested(StoredAt(app, i, app.rev + 1))
      BY <2>2 DEF StoreImage
    <3>2. StoredAt(app, i, app.rev + 1) \in AppRec
      BY <1>0, <1>2, Apps DEF Picture
    <3> QED
      BY <1>3, <3>1, <3>2
  <2>3. CASE ApplyManifest
    BY <1>1, <1>3, <2>3 DEF ApplyManifest
  <2> QED
    BY <2>1, <2>2, <2>3
<1>5. budget' \in BudgetType
  <2>1. CASE budget' = budget
    BY <1>1, <2>1
  <2>2. CASE EditsLeft
    <3>1. budget' = [budget EXCEPT !.edits = budget.edits - 1] /\ budget.edits - 1 \in Nat
      BY <1>1, <2>2 DEF EditsLeft, BudgetType
    <3> QED
      BY <1>1, <3>1 DEF BudgetType
  <2> QED
    BY <2>1, <2>2 DEF Edit, StoreImage, ApplyManifest
<1>6. UNCHANGED <<replica, box, history, ops, run>>
  BY DEF Edit, StoreImage, ApplyManifest
<1> QED
  BY <1>1, <1>4, <1>5, <1>6, StatusKeeps

LEMMA SeenKeeps == ASSUME RollInv, SeenHealthy \/ Propagate \/ Heal PROVE RollInv'
<1>0. TypeInv
  BY DEF RollInv
<1>1. app \in AppRec /\ replica \in ReplicaType /\ budget' \in BudgetType
      /\ "running" \in ReplicaStatus /\ {"running", "unhealthy"} \subseteq AppStatus
  BY <1>0, Types DEF SeenHealthy, Propagate, Heal, ReplicaStatus, AppStatus
<1>2. UNCHANGED <<box, history, ops, run>>
  BY DEF SeenHealthy, Propagate, Heal
<1>3. replica' \in ReplicaType
  BY <1>0, <1>1, Statuses DEF SeenHealthy, Propagate, Heal
<1>4. app' \in AppRec
  <2>1. app' = app \/ \E st \in {"running", "unhealthy"} : app' = [app EXCEPT !.st = st]
    BY DEF SeenHealthy, Propagate, Heal
  <2> QED
    BY <1>1, <2>1 DEF AppRec
<1> QED
  BY <1>1, <1>2, <1>3, <1>4, StatusKeeps

(* A replica that the health check makes anew runs what is deployed.       *)
LEMMA SeenUnhealthyKeeps == ASSUME RollInv, SeenUnhealthy PROVE RollInv'
<1>0. TypeInv /\ RunnerInv /\ BoxInv
  BY DEF RollInv
<1> DEFINE l == [image |-> Deployed.image, rev |-> app.rev]
<1>1. PICK r \in Replica :
       /\ replica' = WithReplica(r, "unhealthy")
       /\ \/ UNCHANGED <<box, budget>>
          \/ box' = [box EXCEPT ![r] = [box[r] EXCEPT !.up = TRUE]] /\ UNCHANGED budget
          \/ box' = [box EXCEPT ![r] = Up(l)] /\ (UNCHANGED budget \/ Fault)
  BY DEF SeenUnhealthy, Calls
<1>2. l \in Lab /\ l.image \notin Broken
  BY <1>0, DeployedIsSound
<1> HIDE DEF l
<1>3. run.op = 0 /\ run = Idle /\ UNCHANGED <<app, history, ops, run>>
  BY <1>0 DEF SeenUnhealthy, RunnerInv
<1>4. box \in BoxType /\ app' \in AppRec /\ "unhealthy" \in ReplicaStatus
  BY <1>0, <1>3, Types DEF ReplicaStatus
<1>5. replica' \in ReplicaType /\ budget' \in BudgetType
  BY <1>0, <1>1, <1>4, Statuses, Budgets
<1>6. [box[r] EXCEPT !.up = TRUE] \in [label: Lab, up: BOOLEAN]
      /\ [box[r] EXCEPT !.up = TRUE].label = box[r].label
  BY <1>4 DEF BoxType
<1>7. box' \in BoxType /\ \A q \in Replica : box'[q].label \in {box[q].label, l}
  <2>1. CASE UNCHANGED box
    BY <1>4, <2>1
  <2>2. CASE box' = [box EXCEPT ![r] = [box[r] EXCEPT !.up = TRUE]]
    <3> DEFINE b == [box[r] EXCEPT !.up = TRUE]
    <3>1. box' = [box EXCEPT ![r] = b] /\ b \in [label: Lab, up: BOOLEAN] /\ b.label = box[r].label
      BY <1>6, <2>2
    <3> HIDE DEF b
    <3> QED
      BY <1>4, <3>1 DEF BoxType
  <2>3. CASE box' = [box EXCEPT ![r] = Up(l)]
    BY <1>0, <1>2, <1>4, <2>3, Boxes DEF BoxType
  <2> QED
    BY <1>1, <2>1, <2>2, <2>3
<1>8. BoxInv'
  BY <1>0, <1>2, <1>3, <1>7, Idles DEF BoxInv
<1> QED
  BY <1>3, <1>4, <1>5, <1>7, <1>8, RowsKept, BesideKeeps

LEMMA ContainerDiesKeeps == ASSUME RollInv, ContainerDies PROVE RollInv'
<1>0. TypeInv
  BY DEF RollInv
<1>1. PICK r \in Replica : box' = [box EXCEPT ![r] = [box[r] EXCEPT !.up = FALSE]]
  BY DEF ContainerDies
<1>2. box \in BoxType /\ app' \in AppRec /\ replica' \in ReplicaType /\ budget' \in BudgetType
  BY <1>0, Types, Budgets DEF ContainerDies
<1> DEFINE b == [box[r] EXCEPT !.up = FALSE]
<1>3. box' = [box EXCEPT ![r] = b] /\ b \in [label: Lab, up: BOOLEAN] /\ b.label = box[r].label
  BY <1>1, <1>2 DEF BoxType
<1> HIDE DEF b
<1>4. box' \in BoxType /\ \A q \in Replica : box'[q].label = box[q].label
  BY <1>2, <1>3 DEF BoxType
<1>5. UNCHANGED <<app, history, ops, run>>
  BY DEF ContainerDies
<1> QED
  BY <1>2, <1>4, <1>5, RowsKept, LabelsKept, BesideKeeps

-----------------------------------------------------------------------------
(* The invariant. *)

LEMMA InitRoll == Init => RollInv
<1> SUFFICES ASSUME Init PROVE RollInv
  OBVIOUS
<1> DEFINE l == [image |-> Now, rev |-> 2]
<1>1. Now \in Picture \ Broken /\ Before \in Picture \ Broken
  BY RolloutAssumption DEF RolloutAssumption, Picture
<1>2. l \in Lab /\ l.image \notin Broken
  BY <1>1 DEF Lab
<1>3. app \in AppRec
  BY <1>1 DEF Init, AppRec, AppStatus
<1>4. replica \in ReplicaType /\ box \in BoxType
      /\ \A r \in Replica : box[r].label.image \notin Broken
  BY <1>2 DEF Init, ReplicaType, BoxType, Up, ReplicaStatus
<1>5. history \in Seq(DepRec) /\ history # <<>>
  BY <1>1 DEF Init, DepRec
<1>6. ops \in Seq(Row) /\ run = Idle
  BY DEF Init
<1>7. budget \in BudgetType
  BY RolloutAssumption DEF Init, BudgetType, RolloutAssumption
<1>8. TypeInv
  BY <1>3, <1>4, <1>5, <1>6, <1>7, Idles DEF TypeInv, ReplicaType, BoxType, BudgetType
<1>9. RunnerInv /\ BoxInv
  BY <1>4, <1>6, Idles DEF RunnerInv, BoxInv
<1> QED
  BY <1>8, <1>9 DEF RollInv

LEMMA StepRoll == RollInv /\ [Next]_vars => RollInv'
<1> SUFFICES ASSUME RollInv, [Next]_vars PROVE RollInv'
  OBVIOUS
<1>1. CASE UNCHANGED vars
  <2>1. app' \in AppRec /\ replica' \in ReplicaType /\ budget' \in BudgetType
    BY <1>1, Types DEF vars, RollInv
  <2> QED
    BY <1>1, <2>1, StatusKeeps DEF vars
<1>2. CASE OpStart \/ StepDone \/ StepFails
  BY <1>2, OpStartKeeps, StepDoneKeeps, StepFailsKeeps
<1>3. CASE ForwardStep
  BY <1>3, TargetKeeps, SnapshotKeeps, SwapKeeps, ValidateKeeps, DrainKeeps, RollStartKeeps,
     ProbeKeeps, ReloadProbeKeeps, SwapProbeKeeps, AttestKeeps, ReloadAttestKeeps, RolledKeeps,
     CommitKeeps, RecordKeeps, DiscardKeeps DEF ForwardStep
<1>4. CASE Undo
  BY <1>4, UndoRollKeeps, UndoDeployingKeeps, UndoSnapshotKeeps, RestoreKeeps, ReprobeKeeps,
     RestoredKeeps DEF Undo
<1>5. CASE Recovery
  BY <1>5, GiveUpKeeps, CancelKeeps, CrashKeeps DEF Recovery
<1>6. CASE Request \/ Edit \/ StoreImage \/ ApplyManifest \/ ContainerDies
  BY <1>6, RequestKeeps, EditKeeps, ContainerDiesKeeps
<1>7. CASE Controllers
  BY <1>7, RollOutKeeps, AttestAllKeeps, SeenKeeps, SeenUnhealthyKeeps DEF Controllers
<1> QED
  BY <1>1, <1>2, <1>3, <1>4, <1>5, <1>6, <1>7 DEF Next

(* An operation works on the row it holds, in the phases of that row's step*)
(* or of its compensation, and with an image that is sound wherever it goes*)
(* past the first replica.                                                 *)
THEOREM RolloutsAreOrdered == Spec => []RollInv
<1> QED
  BY InitRoll, StepRoll, PTL DEF Spec

(* The blast radius of an image that never becomes ready is one replica.   *)
THEOREM BrokenStaysAtTheFirst == Spec => []BlastRadius
<1>1. RollInv => BlastRadius
  <2> SUFFICES ASSUME RollInv PROVE BlastRadius
    OBVIOUS
  <2> DEFINE S == {r \in Replica : box[r].label.image \in Broken}
  <2>1. S \subseteq {1}
    BY DEF RollInv, BoxInv
  <2>2. IsFiniteSet({1}) /\ Cardinality({1}) = 1
    BY FS_Singleton
  <2>3. Cardinality(S) <= Cardinality({1})
    BY <2>1, <2>2, FS_Subset
  <2> QED
    BY <2>2, <2>3 DEF BlastRadius
<1> QED
  BY <1>1, RolloutsAreOrdered, PTL

-----------------------------------------------------------------------------
(* The history. *)

LEMMA HistoryKept ==
  ASSUME [Next]_vars, ~Record
  PROVE  UNCHANGED history
<1>1. CASE UNCHANGED vars
  BY <1>1 DEF vars
<1>2. CASE OpStart \/ StepDone \/ StepFails
  BY <1>2 DEF OpStart, StepDone, StepFails
<1>3. CASE ForwardStep
  BY <1>3 DEF ForwardStep, Target, Snapshot, SetDeploying, Swap, Validate, RollDrain, ReloadDrain,
     RollStart, Probe, ReloadProbe, SwapProbe, Attest, ReloadAttest, Rolled, Commit, Discard
<1>4. CASE Undo \/ Recovery
  BY <1>4 DEF Undo, UndoRoll, UndoDeploying, UndoSnapshot, Restore, RestoreFails, Reprobe, Restored,
     Recovery, GiveUp, Cancel, Crash
<1>5. CASE Request \/ Edit \/ StoreImage \/ ApplyManifest \/ ContainerDies
  BY <1>5 DEF Request, Edit, StoreImage, ApplyManifest, ContainerDies
<1>6. CASE Controllers
  BY <1>6 DEF Controllers, RollOut, AttestAll, SeenHealthy, SeenUnhealthy, Propagate, Heal
<1> QED
  BY <1>1, <1>2, <1>3, <1>4, <1>5, <1>6 DEF Next

LEMMA StepRecorded == RollInv /\ RecordedOnce /\ [Next]_vars => RecordedOnce'
<1> SUFFICES ASSUME RollInv, RecordedOnce, [Next]_vars PROVE RecordedOnce'
  OBVIOUS
<1>1. CASE ~Record
  BY <1>1, HistoryKept DEF RecordedOnce
<1>2. CASE Record
  <2>1. PICK v : history' = Deployment(run.op, v)
    BY <1>2 DEF Record
  <2>2. CASE \E i \in DOMAIN history : history[i].op = run.op
    <3>1. UNCHANGED history
      BY <2>1, <2>2 DEF Deployment
    <3> QED
      BY <3>1 DEF RecordedOnce
  <2>3. CASE \A i \in DOMAIN history : history[i].op # run.op
    <3> DEFINE d == [op |-> run.op, image |-> ops[run.op].built, rev |-> v]
    <3>1. history' = Append(history, d) /\ d.op = run.op
      BY <2>1, <2>3 DEF Deployment
    <3> HIDE DEF d
    <3>2. history \in Seq(DepRec) /\ Len(history) \in Nat /\ DOMAIN history = 1 .. Len(history)
      BY DEF RollInv, TypeInv
    <3>3. DOMAIN history' = 1 .. Len(history) + 1 /\ history'[Len(history) + 1] = d
          /\ \A i \in DOMAIN history : history'[i] = history[i]
      BY <3>1, <3>2
    <3> SUFFICES ASSUME NEW i \in DOMAIN history', history'[i].op # 0, NEW j \in 1 .. i - 1
                 PROVE  history'[j].op # history'[i].op
      BY DEF RecordedOnce
    <3>4. j \in DOMAIN history
      BY <3>2, <3>3
    <3>5. CASE i \in DOMAIN history
      BY <3>3, <3>4, <3>5 DEF RecordedOnce
    <3>6. CASE i = Len(history) + 1
      BY <2>3, <3>1, <3>3, <3>4, <3>6
    <3> QED
      BY <3>2, <3>3, <3>5, <3>6
  <2> QED
    BY <2>2, <2>3
<1> QED
  BY <1>1, <1>2

(* An operation enters one row in the history, also when its step is run   *)
(* again after a crash.                                                    *)
THEOREM OneRowPerOperation == Spec => []RecordedOnce
<1>1. Init => RecordedOnce
  <2> SUFFICES ASSUME Init PROVE RecordedOnce
    OBVIOUS
  <2>1. \A i \in DOMAIN history : history[i].op = 0
    BY DEF Init
  <2> QED
    BY <2>1 DEF RecordedOnce
<1> QED
  BY <1>1, StepRecorded, RolloutsAreOrdered, PTL DEF Spec

-----------------------------------------------------------------------------
(* What a compensation leaves. *)

(* While a restoration is checked, the first replica has what ran before.  *)
RestInv ==
  /\ run.ph \in {"reprobe", "restored"} => box[1].label = row.snap
  /\ run.ph = "restored" => app.st # "deploying"

LEMMA UnwoundPhase ==
  ASSUME NEW o, NEW x
  PROVE  Unwound(o, x).run.ph \in {"idle", "undo"} /\ Unwound(o, x).run.r = 1
<1>1. Idle.ph = "idle" /\ UndoRun(o).ph = "undo" /\ Idle.r = 1 /\ UndoRun(o).r = 1
  BY DEF Idle, UndoRun
<1>2. Unwound(o, x).run \in {Idle, UndoRun(o)}
  BY DEF Unwound, UndoRun
<1> QED
  BY <1>1, <1>2

LEMMA ForwardPhase ==
  ASSUME NEW o, NEW x
  PROVE  Forward(o, x).run.ph \in {"idle", "undo", "go"} /\ Forward(o, x).run.r = 1
<1> DEFINE g == Goal(o, x, Steps(x.kind)[x.pc + 1])
<1>1. Idle.ph = "idle" /\ GoRun(o, g).ph = "go" /\ Idle.r = 1 /\ GoRun(o, g).r = 1
  BY DEF Idle, GoRun
<1>2. Failed(o, x).run.ph \in {"idle", "undo"} /\ Failed(o, x).run.r = 1
  BY UnwoundPhase DEF Failed
<1>3. Forward(o, x).run = Idle \/ Forward(o, x) = Failed(o, x) \/ Forward(o, x).run = GoRun(o, g)
  BY DEF Forward, GoRun
<1> QED
  BY <1>1, <1>2, <1>3

LEMMA SettledPhase ==
  ASSUME \/ Throw
         \/ \E s : Undone(s)
         \/ \E o, x : Settle(o, Forward(o, x)) \/ Settle(o, Unwound(o, x))
         \/ WalkFails
  PROVE  run'.ph \in {"idle", "undo", "go"} /\ run'.r = 1
<1>1. CASE Throw
  BY <1>1, UnwoundPhase DEF Throw, Failed, Settle
<1>2. CASE \E s : Undone(s)
  BY <1>2, UnwoundPhase DEF Undone, Settle
<1>3. CASE \E o, x : Settle(o, Forward(o, x)) \/ Settle(o, Unwound(o, x))
  BY <1>3, UnwoundPhase, ForwardPhase DEF Settle
<1>4. CASE WalkFails
  BY <1>4, Idles DEF WalkFails, Settle
<1> QED
  BY <1>1, <1>2, <1>3, <1>4

(* A step of the runner does not begin a restoration.                      *)
LEMMA ForwardEnds ==
  ASSUME RollInv, OpStart \/ StepDone \/ StepFails \/ ForwardStep
  PROVE  run'.ph \notin {"reprobe", "restored"}
<1>0. run \in RunRec /\ run.op \in Nat
  BY DEF RollInv, TypeInv, RunRec
<1>1. CASE OpStart
  BY <1>1, SettledPhase DEF OpStart
<1>2. CASE StepDone
  BY <1>2, SettledPhase DEF StepDone
<1>3. CASE StepFails
  BY <1>3, SettledPhase DEF StepFails
<1>4. CASE Throw
  BY <1>4, SettledPhase
<1>5. CASE \E ph \in ForwardPh : Goes(ph)
  BY <1>0, <1>5 DEF Goes, RunRec, ForwardPh
<1>6. CASE Target \/ Snapshot \/ SetDeploying
  BY <1>0, <1>6 DEF Target, Snapshot, SetDeploying, RunRec
<1>7. CASE \E last, b : run' = Beyond(last) \/ run' = [Beyond(last) EXCEPT !.bad = b]
  <2>1. \A last : Beyond(last).ph \in {"post", "go"}
    BY <1>0 DEF Beyond, RunRec
  <2>2. \A last, b : [Beyond(last) EXCEPT !.bad = b].ph = Beyond(last).ph
    BY <1>0 DEF Beyond, RunRec
  <2> QED
    BY <1>7, <2>1, <2>2
<1>8. CASE Swap \/ Validate \/ RollStart
  BY <1>4, <1>5, <1>8 DEF Swap, Validate, RollStart, Starts, ForwardPh
<1>9. CASE RollDrain \/ ReloadDrain \/ Probe \/ SwapProbe \/ Rolled
  BY <1>4, <1>5, <1>9 DEF RollDrain, ReloadDrain, Probe, SwapProbe, Rolled, ForwardPh
<1>10. CASE ReloadProbe \/ Attest \/ ReloadAttest
  BY <1>4, <1>5, <1>7, <1>10 DEF ReloadProbe, Attest, ReloadAttest, ForwardPh
<1>11. CASE Commit \/ Record \/ Discard
  BY <1>4, <1>5, <1>11 DEF Commit, Record, Discard, ForwardPh
<1> QED
  BY <1>1, <1>2, <1>3, <1>6, <1>8, <1>9, <1>10, <1>11 DEF ForwardStep
(* What happens beside the runner leaves its row as it is, and while there *)
(* is a runner the labels of the containers.                               *)
Beside ==
  \/ GiveUp \/ Cancel \/ Request \/ Edit \/ StoreImage \/ ApplyManifest \/ ContainerDies
  \/ Controllers \/ UNCHANGED vars

LEMMA BesideRow ==
  ASSUME RollInv, Beside, run.op # 0
  PROVE  ops'[run.op].snap = row.snap
<1>0. TypeInv /\ run.op \in DOMAIN ops /\ ops[run.op].st \in {"running", "compensating"}
  BY RunningRow DEF RollInv
<1>1. CASE UNCHANGED ops
  BY <1>1 DEF row
<1>2. CASE \E k \in Kind, i \in Picture : Enqueue(k, i)
  BY <1>2, Enqueued DEF Alike
<1>3. CASE GiveUp
  BY <1>0, <1>3 DEF GiveUp, row
<1>4. CASE Cancel
  <2>1. PICK o \in DOMAIN ops :
       \/ ops[o].st = "pending" /\ ops' = [ops EXCEPT ![o] = Over(ops[o], "cancelled")]
       \/ ops[o].st = "running" /\ ops' = [ops EXCEPT ![o] = [ops[o] EXCEPT !.cancel = TRUE]]
    BY <1>4 DEF Cancel
  <2>2. ops[run.op] \in OpRec
    BY <1>0, RowsTyped
  <2> QED
    BY <1>0, <2>1, <2>2 DEF row, OpRec
<1>5. CASE Request
  <2>1. PICK q \in Asked : Enqueue(q[1], q[2])
    BY <1>5 DEF Request
  <2>2. q[1] \in Kind /\ q[2] \in Picture
    BY RolloutAssumption DEF RolloutAssumption, Kind, Picture
  <2> QED
    BY <1>2, <2>1, <2>2
<1>6. CASE RollOut \/ AttestAll
  <2>1. "redeploy" \in Kind /\ "reload_app" \in Kind /\ None \in Picture
    BY DEF Kind, Picture
  <2> QED
    BY <1>1, <1>2, <1>6, <2>1 DEF RollOut, AttestAll
<1>7. CASE Edit \/ StoreImage \/ ApplyManifest \/ ContainerDies \/ SeenHealthy \/ SeenUnhealthy
           \/ Propagate \/ Heal \/ UNCHANGED vars
  BY <1>1, <1>7 DEF Edit, StoreImage, ApplyManifest, ContainerDies, SeenHealthy, SeenUnhealthy,
     Propagate, Heal, vars
<1> QED
  BY <1>3, <1>4, <1>5, <1>6, <1>7 DEF Beside, Controllers

LEMMA BesideRunner ==
  ASSUME RollInv, Beside
  PROVE  /\ run' = run
         /\ run.op # 0 => \A q \in Replica : box'[q].label = box[q].label
         /\ app'.st \in {app.st, "running", "unhealthy"}
<1>0. app \in AppRec /\ box \in BoxType
  BY Types DEF RollInv
<1>1. run' = run
  BY DEF Beside, GiveUp, Cancel, Request, Edit, StoreImage, ApplyManifest, ContainerDies,
     Controllers, RollOut, AttestAll, SeenHealthy, SeenUnhealthy, Propagate, Heal, vars
<1>2. run.op # 0 => \A q \in Replica : box'[q].label = box[q].label
  <2>1. CASE UNCHANGED box
    BY <2>1
  <2>2. CASE ContainerDies
    <3>1. PICK r \in Replica : box' = [box EXCEPT ![r] = [box[r] EXCEPT !.up = FALSE]]
      BY <2>2 DEF ContainerDies
    <3> QED
      BY <1>0, <3>1 DEF BoxType
  <2>3. CASE SeenUnhealthy
    BY <2>3 DEF SeenUnhealthy
  <2>4. CASE GiveUp \/ Cancel \/ Request \/ Edit \/ StoreImage \/ ApplyManifest \/ UNCHANGED vars
             \/ RollOut \/ AttestAll \/ SeenHealthy \/ Propagate \/ Heal
    BY <2>1, <2>4 DEF GiveUp, Cancel, Request, Edit, StoreImage, ApplyManifest, RollOut, AttestAll,
       SeenHealthy, Propagate, Heal, vars
  <2> QED
    BY <2>2, <2>3, <2>4 DEF Beside, Controllers
<1>3. app'.st \in {app.st, "running", "unhealthy"}
  <2>1. CASE UNCHANGED app
    BY <2>1
  <2>2. CASE Propagate \/ Heal
    BY <1>0, <2>2 DEF Propagate, Heal, AppRec
  <2>3. \A i, v : StoredAt(app, i, v).st = app.st
    BY <1>0 DEF StoredAt, AppRec
  <2>4. \A i, v : Requested(StoredAt(app, i, v)).st = app.st
    BY <1>0 DEF Requested, StoredAt, AppRec
  <2>5. Requested(app).st = app.st
    BY <1>0 DEF Requested, AppRec
  <2>6. CASE Edit \/ StoreImage \/ ApplyManifest
    BY <2>3, <2>4, <2>5, <2>6 DEF Edit, StoreImage, ApplyManifest
  <2>7. CASE GiveUp \/ Cancel \/ Request \/ ContainerDies \/ UNCHANGED vars
             \/ RollOut \/ AttestAll \/ SeenHealthy \/ SeenUnhealthy
    BY <2>1, <2>7 DEF GiveUp, Cancel, Request, ContainerDies, RollOut, AttestAll,
       SeenHealthy, SeenUnhealthy, vars
  <2> QED
    BY <2>2, <2>6, <2>7 DEF Beside, Controllers
<1> QED
  BY <1>1, <1>2, <1>3

LEMMA StepRest == RollInv /\ RestInv /\ [Next]_vars => RestInv'
<1> SUFFICES ASSUME RollInv, RestInv, [Next]_vars PROVE RestInv'
  OBVIOUS
<1>0. TypeInv /\ 1 \in Replica
  BY RolloutAssumption DEF RollInv, RolloutAssumption, Replica
<1>1. CASE run'.ph \notin {"reprobe", "restored"}
  BY <1>1 DEF RestInv
<1>2. CASE OpStart \/ StepDone \/ StepFails \/ ForwardStep
  BY <1>1, <1>2, ForwardEnds
<1>3. CASE Crash
  BY <1>1, <1>3, Idles DEF Crash
<1>4. CASE Beside
  <2>1. run' = run /\ app'.st \in {app.st, "running", "unhealthy"}
    BY <1>4, BesideRunner
  <2>2. CASE run.op = 0
    BY <1>1, <2>1, <2>2, Idles DEF RollInv, RunnerInv
  <2>3. CASE run.op # 0
    <3>1. box'[1].label = box[1].label /\ ops'[run.op].snap = row.snap
      BY <1>0, <1>4, <2>3, BesideRunner, BesideRow
    <3>2. row'.snap = row.snap
      BY <2>1, <3>1 DEF row
    <3> QED
      BY <2>1, <3>1, <3>2 DEF RestInv
  <2> QED
    BY <2>2, <2>3
<1>5. CASE UndoRoll \/ UndoDeploying \/ UndoSnapshot \/ RestoreFails \/ Restored
  <2>1. CASE \E s : Undone(s)
    BY <1>1, <2>1, SettledPhase
  <2>2. CASE WalkFails
    BY <1>1, <2>2, SettledPhase
  <2>3. CASE Goes("restore")
    BY <1>0, <1>1, <2>3, Going DEF BackPh
  <2> QED
    BY <1>5, <2>1, <2>2, <2>3 DEF UndoRoll, UndoDeploying, UndoSnapshot, RestoreFails, Restored
<1>6. CASE Restore
  <2>1. CASE WalkFails
    BY <1>1, <2>1, SettledPhase
  <2>2. CASE Started(1, row.snap) /\ Goes("reprobe") /\ UNCHANGED ops
    <3>1. run'.ph = "reprobe" /\ run'.op = run.op
      BY <1>0, <2>2, Going DEF BackPh
    <3>2. row' = row
      BY <2>2, <3>1 DEF row
    <3> QED
      BY <2>2, <3>1, <3>2 DEF RestInv, Started
  <2>3. WalkFails \/ (Started(1, row.snap) /\ Goes("reprobe") /\ UNCHANGED ops)
    <3>1. \/ /\ \/ Matches(1, row.snap) /\ UNCHANGED <<box, budget>>
                \/ ~Matches(1, row.snap) /\ box' = [box EXCEPT ![1] = Up(row.snap)] /\ UNCHANGED budget
             /\ Goes("reprobe") /\ UNCHANGED ops
          \/ WalkFails
      BY <1>6 DEF Restore, Starts
    <3>2. row.snap \in Lab
      BY <1>6, BackAt DEF Restore, BackPh, OpRec
    <3> QED
      BY <1>0, <3>1, <3>2, StartsOrNot
  <2> QED
    BY <2>1, <2>2, <2>3
<1>7. CASE Reprobe
  <2>1. CASE WalkFails
    BY <1>1, <2>1, SettledPhase
  <2>2. CASE Goes("restored") /\ ops' = [ops EXCEPT ![run.op].dir = None]
    <3>1. run'.ph = "restored" /\ run'.op = run.op
      BY <1>0, <2>2, Going DEF BackPh
    <3>2. None \in Picture /\ run.op \in DOMAIN ops
      BY <1>7, BackAt DEF Picture, Reprobe, BackPh
    <3>3. ops'[run.op].snap = row.snap
      BY <1>0, <2>2, <3>2, DirKept DEF Alike, row
    <3>4. row'.snap = row.snap
      BY <3>1, <3>3 DEF row
    <3>5. app \in AppRec
      BY <1>0, Types
    <3>6. app'.st \in {"running", "unhealthy"}
      BY <1>7, <3>5 DEF Reprobe, AppRec
    <3>7. box'[1].label = box[1].label /\ run.ph = "reprobe"
      BY <1>7 DEF Reprobe
    <3> QED
      BY <3>1, <3>4, <3>6, <3>7 DEF RestInv
  <2> QED
    BY <1>7, <2>1, <2>2 DEF Reprobe
<1> QED
  BY <1>2, <1>3, <1>4, <1>5, <1>6, <1>7 DEF Next, Undo, Recovery, Beside
(* What CompensatedIsRestored says of one operation in a step.             *)
IsRestored(o) ==
  /\ ops[o].st = "compensating" /\ ops'[o].st \in {"compensated", "cancelled"}
  /\ ~Superseded(o) /\ Completed(o, "snapshot") /\ ops[o].snap # NoLabel
  => box'[1].label = ops[o].snap /\ app'.st # "deploying"

LEMMA SettleOne ==
  ASSUME TypeInv, NEW p \in DOMAIN ops, NEW to, Settle(p, to)
  PROVE  ops'[p] = to.row /\ \A o \in DOMAIN ops : o # p => ops'[o] = ops[o]
  BY DEF TypeInv, Settle

LEMMA RunnersOnly ==
  ASSUME RollInv, StepDone \/ StepFails \/ ForwardStep \/ Undo
  PROVE  /\ run.op \in DOMAIN ops
         /\ \A o \in DOMAIN ops : o # run.op => ops'[o] = ops[o]
<1>0. TypeInv /\ RunnerInv
  BY DEF RollInv
<1>1. run.op \in DOMAIN ops
  <2>1. CASE StepDone \/ StepFails \/ Undo
    BY <1>0, <2>1, Idles DEF RunnerInv, StepDone, StepFails, Undo, UndoRoll, UndoDeploying,
       UndoSnapshot, Undoing, Restore, RestoreFails, Reprobe, Restored
  <2>2. CASE ForwardStep
    BY <1>0, <2>2, Idles DEF RunnerInv, ForwardStep, Doing, Target, Snapshot, SetDeploying, Swap,
       Validate, RollDrain, ReloadDrain, RollStart, Probe, ReloadProbe, SwapProbe, Attest,
       ReloadAttest, Rolled, Commit, Record, Discard
  <2> QED
    BY <2>1, <2>2
<1>2. \/ UNCHANGED ops
      \/ \E y : ops' = [ops EXCEPT ![run.op] = y]
  <2>1. CASE \E to : Settle(run.op, to)
    BY <2>1 DEF Settle
  <2>2. CASE StepDone \/ StepFails
    BY <2>1, <2>2 DEF StepDone, StepFails, Throw
  <2>3. CASE Snapshot \/ Discard \/ Reprobe
    BY <2>1, <2>3 DEF Snapshot, Discard, Reprobe, WalkFails
  <2>4. CASE UndoRoll \/ UndoDeploying \/ UndoSnapshot \/ Restore \/ RestoreFails \/ Restored
    BY <2>1, <2>4 DEF UndoRoll, UndoDeploying, UndoSnapshot, Restore, RestoreFails, Restored, Undone,
       WalkFails, Starts
  <2>5. CASE Target \/ SetDeploying \/ Swap \/ Validate \/ RollDrain \/ ReloadDrain \/ RollStart
             \/ Probe \/ ReloadProbe \/ SwapProbe \/ Attest \/ ReloadAttest \/ Rolled \/ Commit \/ Record
    BY <2>1, <2>5 DEF Target, SetDeploying, Swap, Validate, RollDrain, ReloadDrain, RollStart, Probe,
       ReloadProbe, SwapProbe, Attest, ReloadAttest, Rolled, Commit, Record, Starts, Throw
  <2> QED
    BY <2>2, <2>3, <2>4, <2>5 DEF ForwardStep, Undo
<1> QED
  BY <1>0, <1>1, <1>2 DEF TypeInv

(* A row that still owes its snapshot is not over.                         *)
LEMMA StillOwed ==
  ASSUME RollInv, NEW o \in DOMAIN ops, NEW y, y.undo # {},
         y.st = "compensating", Settle(o, Unwound(o, y))
  PROVE  Superseded(o) \/ ops'[o].st = "compensating"
<1>1. ops'[o] = Unwound(o, y).row
  BY SettleOne DEF RollInv
<1> QED
  BY <1>1 DEF Unwound

LEMMA SnapshotOwed ==
  ASSUME RollInv, NEW o \in DOMAIN ops, ops[o].st = "compensating", Completed(o, "snapshot")
  PROVE  "snapshot" \in ops[o].undo
<1>1. ops[o] \in Row
  BY RowsTyped DEF RollInv
<1> QED
  BY <1>1 DEF Row, Completed

LEMMA UndoRestores ==
  ASSUME RollInv, RestInv, Undo
  PROVE  IsRestored(run.op)
<1>0. TypeInv
  BY DEF RollInv
<1>1. run.ph \in BackPh
  BY DEF Undo, UndoRoll, UndoDeploying, UndoSnapshot, Undoing, Restore, RestoreFails, Reprobe,
     Restored, BackPh
<1>2. run.op \in DOMAIN ops /\ row \in OpRec /\ row.st = "compensating"
      /\ (run.ph # "undo" => row.undo = {"snapshot"})
  BY <1>1, BackAt
<1> SUFFICES ASSUME ops'[run.op].st \in {"compensated", "cancelled"}, ~Superseded(run.op),
                    Completed(run.op, "snapshot"), row.snap # NoLabel
             PROVE  box'[1].label = row.snap /\ app'.st # "deploying"
  BY DEF IsRestored, row
<1>3. "snapshot" \in row.undo
  BY <1>2, SnapshotOwed DEF row
<1>4. CASE UndoRoll \/ UndoDeploying
  <2>1. PICK s : s # "snapshot" /\ Undone(s)
    BY <1>4 DEF UndoRoll, UndoDeploying
  <2> DEFINE y == UndoneRow(row, s)
  <2>2. Settle(run.op, Unwound(run.op, y))
    BY <2>1 DEF Undone, UndoneRow
  <2>3. y.st = "compensating" /\ "snapshot" \in y.undo
    BY <1>2, <1>3, <2>1 DEF OpRec, UndoneRow
  <2> HIDE DEF y
  <2>4. Superseded(run.op) \/ ops'[run.op].st = "compensating"
    BY <1>2, <2>2, <2>3, StillOwed
  <2> QED
    BY <2>4
<1>5. CASE UndoSnapshot
  <2>1. UNCHANGED ops
    BY <1>5 DEF UndoSnapshot
  <2> QED
    BY <1>2, <2>1 DEF row
<1>6. CASE WalkFails
  <2> DEFINE to == [row |-> [row EXCEPT !.tried = TRUE], run |-> Idle]
  <2>2. Settle(run.op, to) /\ to.row = [row EXCEPT !.tried = TRUE]
    BY <1>6 DEF WalkFails
  <2> HIDE DEF to
  <2>1. ops'[run.op] = [row EXCEPT !.tried = TRUE]
    BY <1>0, <1>2, <2>2, SettleOne
  <2> QED
    BY <1>2, <2>1 DEF OpRec
<1>7. CASE Restore \/ RestoreFails \/ Reprobe
  <2>1. CASE WalkFails
    BY <1>6, <2>1
  <2>2. CASE UNCHANGED ops
    BY <1>2, <2>2 DEF row
  <2>3. CASE ops' = [ops EXCEPT ![run.op].dir = None]
    <3>1. None \in Picture
      BY DEF Picture
    <3>2. ops'[run.op].st = row.st
      BY <1>0, <1>2, <2>3, <3>1, DirKept DEF Alike, row
    <3> QED
      BY <1>2, <3>2
  <2> QED
    BY <1>7, <2>1, <2>2, <2>3 DEF Restore, RestoreFails, Reprobe, Starts
<1>8. CASE Restored
  BY <1>8 DEF Restored, RestInv
<1> QED
  BY <1>4, <1>5, <1>7, <1>8 DEF Undo

LEMMA StepRestores ==
  RollInv /\ RestInv /\ [Next]_vars => [\A o \in DOMAIN ops : IsRestored(o)]_vars
<1> SUFFICES ASSUME RollInv, RestInv, [Next]_vars, NEW o \in DOMAIN ops, vars' # vars
             PROVE  IsRestored(o)
  OBVIOUS
<1>0. TypeInv /\ ops[o] \in Row /\ ops[o] \in OpRec
  BY RowsTyped DEF RollInv
<1>1. CASE ops'[o] = ops[o]
  BY <1>1 DEF IsRestored
<1>2. CASE StepDone \/ StepFails \/ ForwardStep
  <2>1. CASE o # run.op
    BY <1>1, <1>2, <2>1, RunnersOnly
  <2>2. CASE o = run.op
    <3>1. run.op # 0 /\ run.ph \in ForwardPh
      <4>1. run.op \in DOMAIN ops
        BY <2>2
      <4>2. run.op # 0
        BY <1>0, <4>1, RowsTyped
      <4>3. row.st = "running" \/ run.ph \in ForwardPh
        BY <1>2 DEF StepDone, StepFails, ForwardStep, Doing, Target, Snapshot, SetDeploying, Swap,
           Validate, RollDrain, ReloadDrain, RollStart, Probe, ReloadProbe, SwapProbe, Attest,
           ReloadAttest, Rolled, Commit, Record, Discard, ForwardPh
      <4>4. run.ph \notin BackPh
        BY <4>2, <4>3, AtStep DEF RollInv, ForwardPh, BackPh
      <4> QED
        BY <4>2, <4>4, AtStep DEF RollInv
    <3>2. ops[o].st = "running"
      BY <2>2, <3>1, AtStep DEF RollInv, row
    <3> QED
      BY <3>2 DEF IsRestored
  <2> QED
    BY <2>1, <2>2
<1>3. CASE OpStart
  <2>1. PICK p \in DOMAIN ops :
          \/ ops[p].st = "pending" /\ Settle(p, Forward(p, ops[p]))
          \/ ops[p].st = "compensating" /\ Settle(p, Unwound(p, ops[p]))
    BY <1>3 DEF OpStart
  <2>2. CASE o # p
    BY <1>0, <1>1, <2>1, <2>2, SettleOne
  <2>3. CASE o = p /\ ops[p].st = "pending"
    BY <2>3 DEF IsRestored
  <2>4. CASE o = p /\ ops[p].st = "compensating" /\ Settle(p, Unwound(p, ops[p]))
    <3>1. CASE ~Completed(o, "snapshot")
      BY <3>1 DEF IsRestored
    <3>2. CASE Completed(o, "snapshot")
      <4>1. ops[o].undo # {}
        BY <2>4, <3>2, SnapshotOwed
      <4>2. Superseded(o) \/ ops'[o].st = "compensating"
        BY <2>4, <4>1, StillOwed
      <4> QED
        BY <4>2 DEF IsRestored
    <3> QED
      BY <3>1, <3>2
  <2> QED
    BY <2>1, <2>2, <2>3, <2>4
<1>4. CASE Undo
  <2>1. CASE o # run.op
    BY <1>1, <1>4, <2>1, RunnersOnly
  <2> QED
    BY <1>4, <2>1, UndoRestores
<1>5. CASE GiveUp
  <2>1. PICK p \in DOMAIN ops : ops' = [ops EXCEPT ![p] = Over(ops[p], "compensation_failed")]
    BY <1>5 DEF GiveUp
  <2>2. CASE o = p
    <3>1. "compensation_failed" \in OpStatus \ {"compensating"}
      BY DEF OpStatus
    <3>2. ops'[o].st = "compensation_failed"
      BY <1>0, <2>1, <2>2, <3>1, OverRow DEF TypeInv
    <3> QED
      BY <3>2 DEF IsRestored
  <2> QED
    BY <1>0, <1>1, <2>1, <2>2 DEF TypeInv
<1>6. CASE Cancel
  <2>1. PICK p \in DOMAIN ops : ops[p].st \in {"pending", "running"} /\ \E y : ops' = [ops EXCEPT ![p] = y]
    BY <1>6 DEF Cancel
  <2>2. CASE o = p
    BY <2>1, <2>2 DEF IsRestored
  <2> QED
    BY <1>0, <1>1, <2>1, <2>2 DEF TypeInv
<1>7. CASE Crash
  <2>1. ops[o].st = "compensating" => ops'[o] = ops[o]
    BY <1>7 DEF Crash
  <2> QED
    BY <1>1, <2>1 DEF IsRestored
<1>8. CASE Request \/ Edit \/ StoreImage \/ ApplyManifest \/ ContainerDies \/ Controllers
  <2>1. CASE \E k, i : Enqueue(k, i)
    <3>1. PICK n : ops' = Append(ops, n)
      BY <2>1 DEF Enqueue
    <3>2. o \in 1 .. Len(ops) /\ ops \in Seq(Row)
      BY <1>0 DEF TypeInv
    <3>3. ops'[o] = ops[o]
      BY <3>1, <3>2
    <3> QED
      BY <1>1, <3>3
  <2>2. CASE UNCHANGED ops
    BY <1>1, <2>2
  <2> QED
    BY <1>8, <2>1, <2>2 DEF Request, Edit, StoreImage, ApplyManifest, ContainerDies, Controllers,
       RollOut, AttestAll, SeenHealthy, SeenUnhealthy, Propagate, Heal
<1> QED
  BY <1>2, <1>3, <1>4, <1>5, <1>6, <1>7, <1>8 DEF Next, Recovery

(* An operation that ends as compensated, with no later one that took over *)
(* the app, leaves the revision of its snapshot on the first replica and   *)
(* the app out of deploying.                                               *)
THEOREM CompensationRestores == Spec => CompensatedIsRestored
<1>1. Init => RestInv
  <2> SUFFICES ASSUME Init PROVE RestInv
    OBVIOUS
  <2>1. run.ph = "idle"
    BY Idles DEF Init
  <2> QED
    BY <2>1 DEF RestInv
<1>2. Spec => []RestInv
  BY <1>1, StepRest, RolloutsAreOrdered, PTL DEF Spec
<1>3. [\A o \in DOMAIN ops : IsRestored(o)]_vars =>
      [\A o \in DOMAIN ops :
         /\ ops[o].st = "compensating" /\ ops'[o].st \in {"compensated", "cancelled"}
         /\ ~Superseded(o) /\ Completed(o, "snapshot") /\ ops[o].snap # NoLabel
         => box'[1].label = ops[o].snap /\ app'.st # "deploying"]_vars
  BY DEF IsRestored
<1> QED
  BY <1>2, <1>3, StepRestores, RolloutsAreOrdered, PTL DEF Spec, CompensatedIsRestored

-----------------------------------------------------------------------------
(* Replicas out of service. *)

(* The replica that the runner is replacing.                               *)
InTurn(r) == run.r = r /\ run.ph \in {"start", "probe"}

(* A replica that is out of service, and not because its turn has come.    *)
Costs(r) == ~box[r].up \/ (replica[r].st = "draining" /\ ~InTurn(r))
Cost == {r \in Replica : Costs(r)}
Used == MaxFaults - budget.faults

(* The runner has started a replica: only a fault stops the first one now. *)
Ahead == run.r > 1 \/ run.ph \in {"probe", "attest"}

CostInv ==
  /\ Cardinality(Cost \ {1}) <= Used
  /\ Ahead => Cardinality(Cost) <= Used

LEMMA ReplicasFinite == IsFiniteSet(Replica)
  BY RolloutAssumption, FS_Interval DEF RolloutAssumption, Replica

LEMMA SubsetCost ==
  ASSUME NEW A \in SUBSET Replica, NEW B \in SUBSET Replica
  PROVE  /\ Cardinality(A) \in Nat
         /\ A \subseteq B => Cardinality(A) <= Cardinality(B)
         /\ \A x : A \subseteq B \cup {x} => Cardinality(A) <= Cardinality(B) + 1
<1>1. IsFiniteSet(A) /\ IsFiniteSet(B)
  BY ReplicasFinite, FS_Subset
<1>2. Cardinality(A) \in Nat /\ Cardinality(B) \in Nat
  BY <1>1, FS_CardinalityType
<1>3. A \subseteq B => Cardinality(A) <= Cardinality(B)
  BY <1>1, FS_Subset
<1>4. ASSUME NEW x, A \subseteq B \cup {x} PROVE Cardinality(A) <= Cardinality(B) + 1
  <2>1. IsFiniteSet(B \cup {x})
        /\ Cardinality(B \cup {x}) = IF x \in B THEN Cardinality(B) ELSE Cardinality(B) + 1
    BY <1>1, FS_AddElement
  <2>2. Cardinality(A) <= Cardinality(B \cup {x})
    BY <1>4, <2>1, FS_Subset
  <2> QED
    BY <1>2, <2>1, <2>2
<1> QED
  BY <1>2, <1>3, <1>4

(* A fault pays for one replica.                                           *)
LEMMA CostStep ==
  ASSUME RollInv, RollInv', CostInv, NEW X,
         (X = {} /\ UNCHANGED budget) \/ ((\E x : X = {x}) /\ Fault),
         \A q \in Replica \ {1} : Costs(q)' => Costs(q) \/ q \in X,
         Ahead' => ~Costs(1)' \/ (Ahead /\ (Costs(1)' => Costs(1) \/ 1 \in X))
  PROVE  CostInv'
<1>0. budget \in BudgetType /\ budget' \in BudgetType
  BY DEF RollInv, TypeInv, BudgetType
<1> DEFINE A == Cost \ {1}
           C == Cost
           B == Cost' \ {1}
           D == Cost'
<1>1. /\ A \in SUBSET Replica /\ B \in SUBSET Replica /\ C \in SUBSET Replica /\ D \in SUBSET Replica
      /\ B \subseteq A \cup X
  BY DEF Cost
<1>2. Ahead' => D = B \/ (Ahead /\ D \subseteq C \cup X)
  <2>1. CASE ~Costs(1)'
    <3>1. 1 \notin D
      BY <2>1 DEF Cost
    <3> QED
      BY <3>1
  <2>2. CASE Ahead /\ (Costs(1)' => Costs(1) \/ 1 \in X)
    BY <2>2 DEF Cost
  <2> QED
    BY <2>1, <2>2
<1>3. Cardinality(A) <= Used /\ (Ahead => Cardinality(C) <= Used)
  BY DEF CostInv
<1>4. budget.faults \in Int /\ budget'.faults \in Int /\ MaxFaults \in Int
  BY <1>0, RolloutAssumption DEF BudgetType, RolloutAssumption
<1> HIDE DEF A, B, C, D
<1>5. Cardinality(B) <= Used' /\ (Ahead' => Cardinality(D) <= Used')
  <2>1. CASE X = {} /\ UNCHANGED budget
    <3>1. Used' = Used
      BY <2>1 DEF Used
    <3>2. B \subseteq A /\ (Ahead' => D = B \/ (Ahead /\ D \subseteq C))
      BY <1>1, <1>2, <2>1
    <3>3. Cardinality(B) <= Cardinality(A) /\ (D \subseteq C => Cardinality(D) <= Cardinality(C))
          /\ Cardinality(A) \in Nat /\ Cardinality(B) \in Nat /\ Cardinality(C) \in Nat /\ Cardinality(D) \in Nat
      BY <1>1, <3>2, SubsetCost
    <3>4. Used \in Int
      BY <1>4 DEF Used
    <3> QED
      BY <1>3, <3>1, <3>2, <3>3, <3>4
  <2>2. CASE (\E x : X = {x}) /\ Fault
    <3>1. Used' = Used + 1 /\ Used \in Int
      BY <1>0, <1>4, <2>2 DEF Used, Fault, BudgetType
    <3>2. PICK x : X = {x}
      BY <2>2
    <3>3. Cardinality(B) <= Cardinality(A) + 1
          /\ (D \subseteq C \cup {x} => Cardinality(D) <= Cardinality(C) + 1)
          /\ Cardinality(A) \in Nat /\ Cardinality(B) \in Nat /\ Cardinality(C) \in Nat /\ Cardinality(D) \in Nat
      BY <1>1, <3>2, SubsetCost
    <3>4. Ahead' => D = B \/ (Ahead /\ D \subseteq C \cup {x})
      BY <1>2, <3>2
    <3> QED
      BY <1>3, <3>1, <3>3, <3>4
  <2> QED
    BY <2>1, <2>2
<1> QED
  BY <1>5 DEF CostInv, B, D

(* The runner is back at the first replica, and only that one's container  *)
(* may have changed.                                                       *)
LEMMA StillCost ==
  ASSUME RollInv, RollInv', CostInv, run.ph \notin {"start", "probe"},
         run'.r = 1, run'.ph \notin {"probe", "attest"},
         \A q \in Replica \ {1} : box'[q].up = box[q].up,
         \A q \in Replica : replica'[q].st = "draining" => replica[q].st = "draining",
         UNCHANGED budget \/ Fault
  PROVE  CostInv'
<1>1. ~Ahead'
  BY DEF Ahead
<1>2. \A q \in Replica \ {1} : Costs(q)' => Costs(q)
  BY DEF Costs, InTurn
<1>3. CASE UNCHANGED budget
  BY <1>1, <1>2, <1>3, CostStep
<1>4. CASE Fault
  <2>1. \A q \in Replica \ {1} : Costs(q)' => Costs(q) \/ q \in {1}
    BY <1>2
  <2> QED
    BY <1>1, <1>4, <2>1, CostStep
<1> QED
  BY <1>3, <1>4

(* A fault at the replica in turn.                                         *)
LEMMA HaltsCost ==
  ASSUME RollInv, RollInv', CostInv, run'.r = 1, run'.ph \notin {"probe", "attest"}, Fault,
         \A q \in Replica \ {run.r} : box'[q].up = box[q].up,
         \A q \in Replica : replica'[q].st = "draining" => replica[q].st = "draining"
  PROVE  CostInv'
<1>1. ~Ahead'
  BY DEF Ahead
<1>2. \A q \in Replica \ {1} : Costs(q)' => Costs(q) \/ q \in {run.r}
  BY DEF Costs, InTurn
<1> QED
  BY <1>1, <1>2, CostStep

(* The replica in turn runs and is not draining.                           *)
LEMMA ServedCost ==
  ASSUME RollInv, RollInv', CostInv, run'.r = run.r, ~Costs(run.r)',
         \A q \in Replica \ {run.r} : box'[q].up = box[q].up /\ replica'[q].st = replica[q].st,
         UNCHANGED budget \/ Fault
  PROVE  CostInv'
<1>0. run.r \in Replica /\ 1 \in Replica /\ Replica \subseteq Nat
  BY RolloutAssumption DEF RollInv, TypeInv, RunRec, RolloutAssumption, Replica
<1>1. \A q \in Replica : Costs(q)' => Costs(q)
  BY DEF Costs, InTurn
<1>2. Ahead' => ~Costs(1)' \/ (Ahead /\ (Costs(1)' => Costs(1)))
  BY <1>0, <1>1 DEF Ahead, Replica
<1>3. CASE UNCHANGED budget
  BY <1>1, <1>2, <1>3, CostStep
<1>4. CASE Fault
  <2>1. \A q \in Replica : Costs(q)' => Costs(q) \/ q \in {1}
    BY <1>1
  <2> QED
    BY <1>0, <1>2, <1>4, <2>1, CostStep
<1> QED
  BY <1>3, <1>4

(* The replica in turn is done with, in service or not.                    *)
LEMMA PassedCost ==
  ASSUME RollInv, RollInv', CostInv, Ahead, replica'[run.r].st # "draining",
         \A q \in Replica : box'[q].up = box[q].up,
         \A q \in Replica \ {run.r} : replica'[q].st = replica[q].st,
         UNCHANGED budget \/ Fault
  PROVE  CostInv'
<1>0. run.r \in Replica /\ 1 \in Replica
  BY RolloutAssumption DEF RollInv, TypeInv, RunRec, RolloutAssumption, Replica
<1>1. \A q \in Replica : Costs(q)' => Costs(q)
  BY DEF Costs, InTurn
<1>3. CASE UNCHANGED budget
  BY <1>0, <1>1, <1>3, CostStep
<1>4. CASE Fault
  <2>1. \A q \in Replica : Costs(q)' => Costs(q) \/ q \in {1}
    BY <1>1
  <2> QED
    BY <1>0, <1>4, <2>1, CostStep
<1> QED
  BY <1>3, <1>4

(* The runner stays where it is.                                           *)
LEMMA BesideCost ==
  ASSUME RollInv, RollInv', CostInv, run'.r = run.r,
         run.ph \in {"start", "probe"} => run'.ph \in {"start", "probe"},
         run'.ph \in {"probe", "attest"} => run.ph \in {"probe", "attest"},
         NEW X, (X = {} /\ UNCHANGED budget) \/ ((\E x : X = {x}) /\ Fault),
         \A q \in Replica : ~box'[q].up => ~box[q].up \/ q \in X,
         \A q \in Replica : replica'[q].st = "draining" => replica[q].st = "draining"
  PROVE  CostInv'
<1>0. 1 \in Replica
  BY RolloutAssumption DEF RolloutAssumption, Replica
<1>1. \A q \in Replica : Costs(q)' => Costs(q) \/ q \in X
  BY DEF Costs, InTurn
<1>2. Ahead' => Ahead
  BY DEF Ahead
<1> QED
  BY <1>0, <1>1, <1>2, CostStep
LEMMA Undrained ==
  ASSUME TypeInv, NEW r \in Replica, NEW st
  PROVE  /\ WithReplica(r, st)[r].st = st
         /\ \A q \in Replica \ {r} : WithReplica(r, st)[q].st = replica[q].st
         /\ st # "draining" => \A q \in Replica : WithReplica(r, st)[q].st = "draining"
                                                 => replica[q].st = "draining"
  BY DEF TypeInv, WithReplica

LEMMA StepsCost ==
  ASSUME RollInv, RollInv', CostInv, OpStart \/ StepDone \/ StepFails
  PROVE  CostInv'
<1>0. RunnerInv /\ TypeInv
  BY DEF RollInv
<1>1. run'.r = 1 /\ run'.ph \in {"idle", "undo", "go"}
  BY SettledPhase DEF OpStart, StepDone, StepFails
<1>2. UNCHANGED <<box, replica>>
  BY DEF OpStart, StepDone, StepFails
<1>3. CASE OpStart \/ StepDone
  <2>1. run.ph \notin {"start", "probe"} /\ UNCHANGED budget
    BY <1>0, <1>3, Idles DEF OpStart, StepDone, RunnerInv
  <2> QED
    BY <1>1, <1>2, <2>1, StillCost
<1>4. CASE StepFails
  BY <1>1, <1>2, <1>4, HaltsCost DEF StepFails
<1> QED
  BY <1>3, <1>4

(* The steps that leave the replicas' records alone.                       *)
LEMMA PlainCost ==
  ASSUME RollInv, RollInv', CostInv,
         Target \/ Snapshot \/ SetDeploying \/ Validate \/ Commit \/ Record \/ Discard
  PROVE  CostInv'
<1>0. TypeInv /\ RunnerInv
  BY DEF RollInv
<1>1. run.op # 0 /\ run.ph = "go" /\ Step(run.op) \notin {"roll", "reload", "health"}
      /\ UNCHANGED <<box, replica>> /\ (UNCHANGED budget \/ Fault)
  BY DEF Target, Snapshot, SetDeploying, Validate, Commit, Record, Discard, Doing, Calls
<1>2. run.r = 1 /\ run \in RunRec
  BY <1>0, <1>1, AtStep DEF ForwardPh
<1>3. run'.r = 1 /\ run'.ph \notin {"probe", "attest"}
  <2>1. CASE Throw
    BY <2>1, SettledPhase
  <2>2. CASE Goes("wrote")
    BY <1>2, <2>2 DEF Goes, RunRec
  <2>3. CASE Target \/ Snapshot \/ SetDeploying
    BY <1>2, <2>3 DEF Target, Snapshot, SetDeploying, RunRec
  <2> QED
    BY <2>1, <2>2, <2>3 DEF Validate, Commit, Record, Discard
<1> QED
  BY <1>1, <1>3, StillCost

LEMMA SwapCost == ASSUME RollInv, RollInv', CostInv, Swap PROVE CostInv'
<1>0. TypeInv /\ RunnerInv
  BY DEF RollInv
<1>1. run.op # 0 /\ run.ph = "go" /\ Step(run.op) \in {"pull", "swap"} /\ UNCHANGED replica
  BY DEF Swap, Doing
<1>2. run.r = 1 /\ run \in RunRec /\ run.goal \in Lab /\ 1 \in Replica
  BY <1>0, <1>1, AtStep DEF ForwardPh
<1>3. \/ Started(1, run.goal) /\ Goes("wrote") /\ UNCHANGED ops
      \/ StartFailed(1) /\ Throw
  <2>1. \/ /\ \/ Matches(1, run.goal) /\ UNCHANGED <<box, budget>>
              \/ ~Matches(1, run.goal) /\ box' = [box EXCEPT ![1] = Up(run.goal)] /\ UNCHANGED budget
           /\ Goes("wrote") /\ UNCHANGED ops
        \/ box' = [box EXCEPT ![1] = NoBox] /\ Fault /\ Throw
    BY DEF Swap, Starts
  <2> QED
    BY <1>0, <1>2, <2>1, StartsOrNot, StartsNot
<1>4. CASE Started(1, run.goal) /\ Goes("wrote")
  <2>1. run'.r = 1 /\ run'.ph = "wrote"
    BY <1>2, <1>4 DEF Goes, RunRec
  <2> QED
    BY <1>1, <1>4, <2>1, StillCost DEF Started
<1>5. CASE StartFailed(1) /\ Throw
  <2>1. run'.r = 1 /\ run'.ph \notin {"probe", "attest"}
    BY <1>5, SettledPhase
  <2> QED
    BY <1>1, <1>2, <1>5, <2>1, HaltsCost DEF StartFailed
<1> QED
  BY <1>3, <1>4, <1>5

(* A draining replica is out of service because its turn has come.         *)
LEMMA DrainCost == ASSUME RollInv, RollInv', CostInv, RollDrain \/ ReloadDrain PROVE CostInv'
<1>0. TypeInv /\ run \in RunRec /\ run.r \in Replica /\ 1 \in Replica
  BY RolloutAssumption DEF RollInv, TypeInv, RunRec, RolloutAssumption, Replica
<1>1. /\ run.ph = "go" /\ UNCHANGED <<box, budget>>
      /\ \/ Goes("wrote") /\ UNCHANGED replica
         \/ Goes("start") /\ UNCHANGED replica
         \/ Goes("start") /\ replica' = WithReplica(run.r, "draining")
  BY DEF RollDrain, ReloadDrain, Doing
<1>2. run'.r = run.r /\ run'.ph \in {"wrote", "start"}
  BY <1>0, <1>1 DEF Goes, RunRec
<1>3. CASE UNCHANGED replica
  BY <1>1, <1>2, <1>3, BesideCost
<1>4. CASE Goes("start") /\ replica' = WithReplica(run.r, "draining")
  <2>1. run'.ph = "start"
    BY <1>0, <1>4 DEF Goes, RunRec
  <2>2. \A q \in {run.r} : Costs(q)' => Costs(q)
    BY <1>1, <1>2, <2>1 DEF Costs, InTurn
  <2>3. \A q \in Replica \ {run.r} : Costs(q)' => Costs(q)
    BY <1>0, <1>1, <1>4, Undrained DEF Costs, InTurn
  <2>4. \A q \in Replica : Costs(q)' => Costs(q)
    BY <2>2, <2>3
  <2>5. Ahead' => Ahead
    BY <1>2, <2>1 DEF Ahead
  <2> QED
    BY <1>0, <1>1, <2>4, <2>5, CostStep
<1> QED
  BY <1>1, <1>3, <1>4

LEMMA RollStartCost == ASSUME RollInv, RollInv', CostInv, RollStart PROVE CostInv'
<1>0. TypeInv /\ RunnerInv
  BY DEF RollInv
<1>1. run.op # 0 /\ run.ph = "start" /\ UNCHANGED replica
  BY DEF RollStart, Doing
<1>2. run \in RunRec /\ run.r \in Replica /\ run.goal \in Lab
  BY <1>0, <1>1, AtStep
<1>3. \/ Started(run.r, run.goal) /\ Goes("probe") /\ UNCHANGED ops
      \/ StartFailed(run.r) /\ Throw
  <2>1. \/ /\ \/ Matches(run.r, run.goal) /\ UNCHANGED <<box, budget>>
              \/ ~Matches(run.r, run.goal) /\ box' = [box EXCEPT ![run.r] = Up(run.goal)] /\ UNCHANGED budget
           /\ Goes("probe") /\ UNCHANGED ops
        \/ box' = [box EXCEPT ![run.r] = NoBox] /\ Fault /\ Throw
    BY DEF RollStart, Starts
  <2> QED
    BY <1>0, <1>2, <2>1, StartsOrNot, StartsNot
<1>4. CASE Started(run.r, run.goal) /\ Goes("probe")
  <2>1. run'.r = run.r /\ run'.ph = "probe"
    BY <1>2, <1>4 DEF Goes, RunRec
  <2>2. ~Costs(run.r)'
    BY <1>4, <2>1 DEF Started, Costs, InTurn
  <2> QED
    BY <1>1, <1>4, <2>1, <2>2, ServedCost DEF Started
<1>5. CASE StartFailed(run.r) /\ Throw
  <2>1. run'.r = 1 /\ run'.ph \notin {"probe", "attest"}
    BY <1>5, SettledPhase
  <2> QED
    BY <1>1, <1>5, <2>1, HaltsCost DEF StartFailed
<1> QED
  BY <1>3, <1>4, <1>5

(* A replica found healthy is up, and attested next.                       *)
LEMMA ServesCost ==
  ASSUME RollInv, RollInv', CostInv, Healthy(run.r), Goes("attest"), UNCHANGED box,
         replica' = WithReplica(run.r, "attesting"), UNCHANGED budget \/ Fault
  PROVE  CostInv'
<1>0. TypeInv /\ run \in RunRec /\ run.r \in Replica
  BY DEF RollInv, TypeInv, RunRec
<1>1. run'.r = run.r
  BY <1>0 DEF Goes, RunRec
<1>2. replica'[run.r].st = "attesting" /\ \A q \in Replica \ {run.r} : replica'[q].st = replica[q].st
  BY <1>0, Undrained
<1>3. ~Costs(run.r)'
  BY <1>1, <1>2 DEF Costs, Healthy
<1> QED
  BY <1>1, <1>2, <1>3, ServedCost

LEMMA ProbeCost ==
  ASSUME RollInv, RollInv', CostInv, Probe \/ ReloadProbe \/ SwapProbe
  PROVE  CostInv'
<1>0. TypeInv /\ RunnerInv /\ run.r \in Replica
  BY DEF RollInv, TypeInv, RunRec
<1>1. /\ UNCHANGED box
      /\ UNCHANGED budget \/ Fault
      /\ \/ Healthy(run.r) /\ Goes("attest") /\ replica' = WithReplica(run.r, "attesting")
         \/ run.ph = "probe" /\ replica' = WithReplica(run.r, "unhealthy")
         \/ Throw /\ run.ph = "go" /\ replica' = WithReplica(run.r, "unhealthy")
         \/ Throw /\ run.ph = "go" /\ UNCHANGED replica
  <2>1. CASE Probe \/ ReloadProbe
    BY <2>1 DEF Probe, ReloadProbe, Calls, Doing
  <2>2. CASE SwapProbe
    <3>1. run.r = 1
      BY <1>0, <2>2, AtStep DEF SwapProbe, Doing, ForwardPh
    <3> QED
      BY <2>2, <3>1 DEF SwapProbe, Calls, Doing
  <2> QED
    BY <2>1, <2>2
<1>2. CASE Healthy(run.r) /\ Goes("attest") /\ replica' = WithReplica(run.r, "attesting")
  BY <1>1, <1>2, ServesCost
<1>3. CASE run.ph = "probe" /\ replica' = WithReplica(run.r, "unhealthy")
  <2>1. replica'[run.r].st # "draining" /\ \A q \in Replica \ {run.r} : replica'[q].st = replica[q].st
    BY <1>0, <1>3, Undrained
  <2> QED
    BY <1>1, <1>3, <2>1, PassedCost DEF Ahead
<1>4. CASE Throw /\ run.ph = "go" /\ (UNCHANGED replica \/ replica' = WithReplica(run.r, "unhealthy"))
  <2>1. run'.r = 1 /\ run'.ph \notin {"probe", "attest"}
    BY <1>4, SettledPhase
  <2>2. \A q \in Replica : replica'[q].st = "draining" => replica[q].st = "draining"
    BY <1>0, <1>4, Undrained
  <2> QED
    BY <1>1, <1>4, <2>1, <2>2, StillCost
<1> QED
  BY <1>1, <1>2, <1>3, <1>4

LEMMA AttestCost == ASSUME RollInv, RollInv', CostInv, Attest \/ ReloadAttest PROVE CostInv'
<1>0. TypeInv /\ run.r \in Replica /\ run.goal \in Lab /\ replica \in ReplicaType
  BY Types DEF RollInv, TypeInv, RunRec
<1>1. PICK ok : replica' = [replica EXCEPT ![run.r] = Attestation(run.goal, ok)]
  BY DEF Attest, ReloadAttest
<1>2. run.ph = "attest" /\ UNCHANGED box /\ (UNCHANGED budget \/ Fault)
  BY DEF Attest, ReloadAttest, Doing, Calls
<1>3. replica'[run.r].st # "draining" /\ \A q \in Replica \ {run.r} : replica'[q].st = replica[q].st
  BY <1>0, <1>1, Attestations DEF ReplicaType
<1> QED
  BY <1>2, <1>3, PassedCost DEF Ahead

LEMMA RolledCost == ASSUME RollInv, RollInv', CostInv, Rolled PROVE CostInv'
<1>0. run \in RunRec
  BY DEF RollInv, TypeInv
<1>1. run.ph = "post" /\ UNCHANGED <<replica, box, budget>> /\ (Throw \/ Goes("wrote"))
  BY DEF Rolled
<1>2. CASE Throw
  BY <1>1, <1>2, SettledPhase, StillCost
<1>3. CASE Goes("wrote")
  <2>1. run'.r = run.r /\ run'.ph = "wrote"
    BY <1>0, <1>3 DEF Goes, RunRec
  <2> QED
    BY <1>1, <2>1, BesideCost
<1> QED
  BY <1>1, <1>2, <1>3

LEMMA UndoCost == ASSUME RollInv, RollInv', CostInv, Undo PROVE CostInv'
<1>0. TypeInv /\ run \in RunRec
  BY DEF RollInv, TypeInv
<1>1. run.ph \in BackPh
  BY DEF Undo, UndoRoll, UndoDeploying, UndoSnapshot, Undoing, Restore, RestoreFails, Reprobe,
     Restored, BackPh
<1>2. run.r = 1 /\ 1 \in Replica /\ run.ph \notin {"start", "probe"}
  BY <1>0, <1>1, BackAt DEF RunRec, BackPh
<1>3. run'.r = 1 /\ run'.ph \notin {"probe", "attest"}
  <2>1. CASE WalkFails \/ \E s : Undone(s)
    BY <2>1, SettledPhase
  <2>2. CASE \E ph \in BackPh : Goes(ph)
    BY <1>0, <1>2, <2>2 DEF Goes, RunRec, BackPh
  <2> QED
    BY <2>1, <2>2 DEF Undo, UndoRoll, UndoDeploying, UndoSnapshot, Restore, RestoreFails, Reprobe,
       Restored, Starts, BackPh
<1>4. \A q \in Replica \ {1} : box'[q].up = box[q].up
  <2>1. CASE UNCHANGED box
    BY <2>1
  <2>2. CASE \E y : box' = [box EXCEPT ![1] = y]
    BY <1>0, <2>2 DEF TypeInv
  <2> QED
    BY <2>1, <2>2 DEF Undo, UndoRoll, UndoDeploying, UndoSnapshot, Restore, RestoreFails, Reprobe,
       Restored, Starts
<1>5. \A q \in Replica : replica'[q].st = "draining" => replica[q].st = "draining"
  <2>1. CASE UNCHANGED replica
    BY <2>1
  <2>2. CASE UndoRoll
    BY <1>0, <2>2 DEF UndoRoll, TypeInv
  <2>3. CASE Reprobe
    <3>1. PICK st \in {"running", "unhealthy"} : replica' = WithReplica(1, st)
      BY <2>3 DEF Reprobe
    <3> QED
      BY <1>0, <1>2, <3>1, Undrained
  <2> QED
    BY <2>1, <2>2, <2>3 DEF Undo, UndoDeploying, UndoSnapshot, Restore, RestoreFails, Restored
<1>6. UNCHANGED budget \/ Fault
  BY DEF Undo, UndoRoll, UndoDeploying, UndoSnapshot, Restore, RestoreFails, Reprobe, Restored, Starts, Calls
<1> QED
  BY <1>2, <1>3, <1>4, <1>5, <1>6, StillCost
LEMMA CrashCost == ASSUME RollInv, RollInv', CostInv, Crash PROVE CostInv'
<1>1. run'.r = 1 /\ run'.ph \notin {"probe", "attest"}
  BY Idles DEF Crash
<1> QED
  BY <1>1, HaltsCost DEF Crash

LEMMA SeenCost ==
  ASSUME RollInv, RollInv', CostInv, SeenHealthy \/ SeenUnhealthy \/ AttestAll
  PROVE  CostInv'
<1>0. TypeInv /\ box \in BoxType
  BY Types DEF RollInv
<1>1. run' = run /\ (UNCHANGED budget \/ Fault)
  BY DEF SeenHealthy, SeenUnhealthy, AttestAll, Calls
<1>2. \A q \in Replica : ~box'[q].up => ~box[q].up
  <2>1. CASE UNCHANGED box
    BY <2>1
  <2>2. CASE \E r \in Replica : \/ box' = [box EXCEPT ![r] = [box[r] EXCEPT !.up = TRUE]]
                                \/ \E l : box' = [box EXCEPT ![r] = Up(l)]
    BY <1>0, <2>2 DEF BoxType, Up
  <2> QED
    BY <2>1, <2>2 DEF SeenHealthy, SeenUnhealthy, AttestAll
<1>3. \A q \in Replica : replica'[q].st = "draining" => replica[q].st = "draining"
  <2>1. CASE SeenHealthy \/ SeenUnhealthy
    <3>1. PICK r \in Replica, st \in {"running", "unhealthy"} : replica' = WithReplica(r, st)
      BY <2>1 DEF SeenHealthy, SeenUnhealthy
    <3> QED
      BY <1>0, <3>1, Undrained
  <2>2. CASE AttestAll
    BY <2>2 DEF AttestAll, Attestation
  <2> QED
    BY <2>1, <2>2
<1>4. CASE UNCHANGED budget
  BY <1>1, <1>2, <1>3, <1>4, BesideCost
<1>5. CASE Fault
  <2>1. \A q \in Replica : ~box'[q].up => ~box[q].up \/ q \in {1}
    BY <1>2
  <2> QED
    BY <1>1, <1>3, <1>5, <2>1, BesideCost
<1> QED
  BY <1>1, <1>4, <1>5

LEMMA DiesCost == ASSUME RollInv, RollInv', CostInv, ContainerDies PROVE CostInv'
<1>1. PICK r \in Replica : box' = [box EXCEPT ![r] = [box[r] EXCEPT !.up = FALSE]]
  BY DEF ContainerDies
<1>2. \A q \in Replica : ~box'[q].up => ~box[q].up \/ q \in {r}
  BY <1>1 DEF RollInv, TypeInv
<1> QED
  BY <1>2, BesideCost DEF ContainerDies

(* What only spends edits, or nothing.                                     *)
LEMMA EditCost ==
  ASSUME RollInv, RollInv', CostInv, UNCHANGED <<box, replica, run>>, budget'.faults = budget.faults
  PROVE  CostInv'
  BY DEF CostInv, Cost, Costs, InTurn, Used, Ahead

LEMMA StepCost == RollInv /\ CostInv /\ [Next]_vars => CostInv'
<1> SUFFICES ASSUME RollInv, CostInv, [Next]_vars PROVE CostInv'
  OBVIOUS
<1>0. RollInv' /\ budget \in BudgetType
  BY StepRoll, Types DEF RollInv
<1>1. CASE OpStart \/ StepDone \/ StepFails
  BY <1>0, <1>1, StepsCost
<1>2. CASE ForwardStep
  BY <1>0, <1>2, PlainCost, SwapCost, DrainCost, RollStartCost, ProbeCost, AttestCost, RolledCost
     DEF ForwardStep
<1>3. CASE Undo \/ Crash
  BY <1>0, <1>3, UndoCost, CrashCost
<1>4. CASE ContainerDies \/ SeenHealthy \/ SeenUnhealthy \/ AttestAll
  BY <1>0, <1>4, DiesCost, SeenCost
<1>5. CASE GiveUp \/ Cancel \/ Request \/ Edit \/ StoreImage \/ ApplyManifest \/ RollOut
           \/ Propagate \/ Heal \/ UNCHANGED vars
  <2>1. UNCHANGED <<box, replica, run>>
    BY <1>5 DEF GiveUp, Cancel, Request, Edit, StoreImage, ApplyManifest, RollOut, Propagate, Heal, vars
  <2>2. budget'.faults = budget.faults
    <3>1. CASE UNCHANGED budget
      BY <3>1
    <3>2. CASE budget' = [budget EXCEPT !.edits = budget.edits - 1]
      BY <1>0, <3>2 DEF BudgetType
    <3> QED
      BY <1>5, <3>1, <3>2 DEF GiveUp, Cancel, Request, Edit, StoreImage, ApplyManifest, RollOut,
         Propagate, Heal, vars, EditsLeft
  <2> QED
    BY <1>0, <2>1, <2>2, EditCost
<1> QED
  BY <1>1, <1>2, <1>3, <1>4, <1>5 DEF Next, Recovery, Controllers

(* A rollout takes one replica out of service at a time; every further one *)
(* is the cost of a fault.                                                 *)
THEOREM OneIsOutOfService == Spec => []OneOutOfService
<1>1. Init => CostInv
  <2> SUFFICES ASSUME Init PROVE CostInv
    OBVIOUS
  <2>1. \A r \in Replica : ~Costs(r)
    BY DEF Init, Costs, Up
  <2>2. Cost = {} /\ Cost \ {1} = {}
    BY <2>1 DEF Cost
  <2>3. Cardinality({}) = 0
    BY FS_EmptySet
  <2>4. Used = 0
    BY RolloutAssumption DEF Init, Used, RolloutAssumption
  <2> QED
    BY <2>2, <2>3, <2>4 DEF CostInv
<1>2. Spec => []CostInv
  BY <1>1, StepCost, RolloutsAreOrdered, PTL DEF Spec
<1>3. RollInv /\ CostInv => OneOutOfService
  <2> SUFFICES ASSUME RollInv, CostInv PROVE OneOutOfService
    OBVIOUS
  <2> DEFINE Out == {r \in Replica : ~Healthy(r) \/ replica[r].st = "draining"}
  <2>1. run.r \in Replica /\ 1 \in Replica /\ run.r \in Nat /\ Used \in Int
    BY RolloutAssumption DEF RollInv, TypeInv, RunRec, RolloutAssumption, Replica, Used
  <2>2. Out \in SUBSET Replica /\ Cost \in SUBSET Replica /\ Cost \ {1} \in SUBSET Replica
    BY DEF Cost
  <2>3. \A r \in Replica \ {1} : Healthy(r) <=> box[r].up
    BY DEF RollInv, BoxInv, Healthy
  <2>4. CASE run.r = 1
    <3>1. Out \subseteq (Cost \ {1}) \cup {1}
      BY <2>3, <2>4 DEF Cost, Costs, InTurn
    <3> HIDE DEF Out
    <3>2. Cardinality(Out) <= Cardinality(Cost \ {1}) + 1
      BY <2>2, <3>1, SubsetCost
    <3>3. Cardinality(Cost \ {1}) \in Nat /\ Cardinality(Out) \in Nat
      BY <2>2, SubsetCost
    <3>4. Cardinality(Cost \ {1}) <= Used
      BY DEF CostInv
    <3>5. Cardinality(Out) <= 1 + Used
      BY <2>1, <3>2, <3>3, <3>4
    <3> QED
      BY <3>5 DEF OneOutOfService, Out, Used
  <2>5. CASE run.r # 1
    <3>1. run.r > 1
      BY <2>1, <2>5 DEF Replica
    <3>2. Out \subseteq Cost \cup {run.r}
      <4>1. Healthy(1) <=> box[1].up
        BY <3>1 DEF RollInv, BoxInv, Healthy
      <4> QED
        BY <2>3, <4>1 DEF Cost, Costs, InTurn
    <3> HIDE DEF Out
    <3>3. Cardinality(Out) <= Cardinality(Cost) + 1
      BY <2>2, <3>2, SubsetCost
    <3>4. Cardinality(Cost) \in Nat /\ Cardinality(Out) \in Nat
      BY <2>2, SubsetCost
    <3>5. Cardinality(Cost) <= Used
      BY <3>1 DEF CostInv, Ahead
    <3>6. Cardinality(Out) <= 1 + Used
      BY <2>1, <3>3, <3>4, <3>5
    <3> QED
      BY <3>6 DEF OneOutOfService, Out, Used
  <2> QED
    BY <2>4, <2>5
<1> QED
  BY <1>2, <1>3, RolloutsAreOrdered, PTL
=============================================================================
