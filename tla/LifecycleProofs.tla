-------------------------- MODULE LifecycleProofs --------------------------
(***************************************************************************)
(* Theorems about one app and everything that acts on it, for every set of *)
(* servers, number of replicas, faults, operations and edits.              *)
(***************************************************************************)
EXTENDS AppProperties, FiniteSetTheorems, FunctionTheorems, TLAPS

Actor == {"tick", "waker", "runtime", "op"}

(* The records have their fields, so that an EXCEPT sets them.             *)
Shaped ==
  /\ DOMAIN tick = DOMAIN IdleTick
  /\ DOMAIN wake = DOMAIN IdleWake
  /\ DOMAIN op = DOMAIN NoOp
  /\ DOMAIN app = {"st", "desired", "bed", "volume", "deleted", "recent", "rolled"}

(* Whoever is at work holds the key, and a wake is at work for its caller, *)
(* who waits for it.                                                       *)
Alone ==
  /\ tick.pc \in Converging => held = "tick"
  /\ waker = "waking" => held = "waker"
  /\ runtime # {} => held = "runtime"
  /\ op.live = TRUE => held = "op"
  /\ wake.pc # "idle" =>
       \/ wake.by = "waker" /\ waker = "waking"
       \/ wake.by = "op" /\ op.live = TRUE /\ op.pc = "waking"
  /\ op.live \in BOOLEAN

LockInv == Shaped /\ Alone

-----------------------------------------------------------------------------
(* What each kind of step leaves alone. *)

LEMMA TickFields == DOMAIN IdleTick = {"pc", "todo", "at", "on", "sick", "seen", "want",
                                       "orig", "lost", "count", "current", "victims"}
  BY DEF IdleTick
LEMMA WakeFields == DOMAIN IdleWake = {"pc", "by", "on", "kept", "light", "current"}
  BY DEF IdleWake
LEMMA OpFields == DOMAIN NoOp = {"kind", "pc", "todo", "bad", "live", "keyed"}
  BY DEF NoOp

LEMMA InitLocks == Init => LockInv
<1> SUFFICES ASSUME Init PROVE LockInv
  OBVIOUS
<1>1. Shaped
  BY DEF Init, Shaped
<1>2. tick.pc = "idle" /\ wake.pc = "idle" /\ op.live = FALSE /\ waker = "idle" /\ runtime = {}
  BY DEF Init, IdleTick, IdleWake, NoOp
<1> QED
  BY <1>1, <1>2 DEF LockInv, Alone, Converging

(* The tick before it converges neither holds nor takes the key.           *)
LEMMA TickBeforeLocks ==
  ASSUME LockInv,
         TickStart \/ Probe \/ Judge \/ Restart \/ Recreate \/ Propagate \/ Autoscale
  PROVE  LockInv'
<1>1. UNCHANGED <<held, waker, runtime, op>> /\ wake'.pc = wake.pc /\ wake'.by = wake.by
      /\ DOMAIN wake' = DOMAIN wake
  BY WakeFields DEF LockInv, Shaped, TickStart, Probe, Judge, Restart, Recreate, Propagate,
     Autoscale, SetDesired
<1>2. DOMAIN tick' = DOMAIN tick /\ tick'.pc \notin Converging
  <2>1. CASE TickStart
    BY <2>1, TickFields DEF LockInv, Shaped, TickStart, IdleTick, Converging
  <2>2. CASE Probe
    BY <2>2, TickFields DEF LockInv, Shaped, Probe, Converging
  <2>3. CASE Judge
    <3>1. \/ tick' = Probed(tick)
          \/ tick' = [tick EXCEPT !.pc = "restart"]
      BY <2>3 DEF Judge
    <3> QED
      BY <3>1, TickFields DEF LockInv, Shaped, Probed, Converging
  <2>4. CASE Restart \/ Recreate
    BY <2>4, TickFields DEF LockInv, Shaped, Restart, Recreate, Probed, Converging
  <2>5. CASE Propagate \/ Autoscale
    BY <2>5, TickFields DEF LockInv, Shaped, Propagate, Autoscale, Converging
  <2> QED
    BY <2>1, <2>2, <2>3, <2>4, <2>5
<1>3. DOMAIN app' = DOMAIN app
  BY DEF TickStart, Probe, Judge, Restart, Recreate, Propagate, Autoscale, SetDesired, WithDesired
<1> QED
  BY <1>1, <1>2, <1>3 DEF LockInv, Shaped, Alone

(* A convergence takes the free key, keeps it, and gives it back at its    *)
(* end.                                                                    *)
LEMMA TickLocks ==
  ASSUME LockInv,
         ConvergeStart \/ Grow \/ GrowCheck \/ GrowAttest \/ Undo \/ Drain \/ Stop \/ Finish
  PROVE  LockInv'
<1>1. UNCHANGED <<waker, runtime, op>> /\ wake'.pc = wake.pc /\ wake'.by = wake.by
      /\ DOMAIN wake' = DOMAIN wake
  BY WakeFields DEF LockInv, Shaped, ConvergeStart, Grow, GrowCheck, GrowAttest, Undo, Drain,
     Stop, Finish, StopAnchor, RemoveReplica
<1>2. DOMAIN tick' = DOMAIN tick
  <2>1. CASE ConvergeStart
    BY <2>1, TickFields DEF LockInv, Shaped, ConvergeStart
  <2>2. CASE Grow \/ GrowCheck \/ GrowAttest
    BY <2>2 DEF Grow, GrowCheck, GrowAttest, GiveUp
  <2>3. CASE Undo \/ Drain \/ Stop \/ Finish
    BY <2>3 DEF LockInv, Shaped, Undo, Drain, Stop, Finish, StopAnchor, RemoveReplica, EndTick
  <2> QED
    BY <2>1, <2>2, <2>3
<1>3. DOMAIN app' = DOMAIN app
  BY DEF ConvergeStart, Grow, GrowCheck, GrowAttest, Undo, Drain, Stop, Finish, StopAnchor,
     RemoveReplica, WithDesired
<1>4. \/ held' = held /\ tick'.pc = "idle"
      \/ held \in {None, "tick"} /\ held' = "tick"
      \/ held = "tick" /\ held' = None /\ tick'.pc = "idle"
  <2>1. CASE ConvergeStart
    BY <2>1, TickFields DEF LockInv, Shaped, Alone, ConvergeStart, IdleTick
  <2>2. CASE Grow \/ GrowCheck \/ GrowAttest \/ Drain
    BY <2>2 DEF LockInv, Alone, Converging, Grow, GrowCheck, GrowAttest, Drain
  <2>3. CASE Undo \/ Finish
    BY <2>3 DEF LockInv, Alone, Converging, Undo, Finish, EndTick, IdleTick
  <2>4. CASE Stop
    <3>1. held = "tick"
      BY <2>4 DEF LockInv, Alone, Converging, Stop
    <3>2. held' = held \/ EndTick
      BY <2>4 DEF Stop, StopAnchor, RemoveReplica
    <3> QED
      BY <3>1, <3>2, AppAssumption DEF EndTick, IdleTick, AppAssumption
  <2> QED
    BY <2>1, <2>2, <2>3, <2>4
<1> QED
  BY <1>1, <1>2, <1>3, <1>4, AppAssumption DEF LockInv, Shaped, Alone, Converging, AppAssumption

(* wakeApp returns to its caller: the waker lets go of the key.            *)
LEMMA WakeReturnsLocks ==
  ASSUME LockInv, wake.pc # "idle", NEW ok \in BOOLEAN, WakeReturns(ok),
         UNCHANGED <<tick, runtime>>, DOMAIN app' = DOMAIN app
  PROVE  LockInv'
<1>1. CASE wake.by = "waker"
  <2>1. held' = None /\ waker' = "idle" /\ op' = op /\ wake' = IdleWake /\ held = "waker"
    BY <1>1 DEF WakeReturns, LockInv, Alone
  <2>2. wake'.pc = "idle"
    BY <2>1 DEF IdleWake
  <2> QED
    BY <2>1, <2>2, AppAssumption DEF LockInv, Shaped, Alone, AppAssumption
<1>2. CASE wake.by # "waker"
  <2>1. /\ UNCHANGED <<held, waker>> /\ wake' = IdleWake
        /\ op' = [op EXCEPT !.pc = IF ok THEN "woken" ELSE "failed"]
    BY <1>2 DEF WakeReturns
  <2>2. wake'.pc = "idle" /\ op'.live = op.live /\ DOMAIN op' = DOMAIN op
    BY <2>1, OpFields DEF IdleWake, LockInv, Shaped
  <2> QED
    BY <2>1, <2>2 DEF LockInv, Shaped, Alone
<1> QED
  BY <1>1, <1>2

(* A wake in progress goes on under its caller's key.                      *)
LEMMA WakeLocks ==
  ASSUME LockInv, WakeStart \/ WakeProbe \/ WakeAttest
  PROVE  LockInv'
<1>1. wake.pc # "idle" /\ UNCHANGED <<tick, runtime>>
  BY DEF WakeStart, WakeProbe, WakeAttest
<1>2. DOMAIN app' = DOMAIN app
  BY DEF WakeStart, WakeProbe, WakeAttest, WakeFails, Woken, WithDesired
<1>3. \/ \E ok \in BOOLEAN : WakeReturns(ok)
      \/ /\ UNCHANGED <<held, waker, op>>
         /\ wake'.pc # "idle" /\ wake'.by = wake.by /\ DOMAIN wake' = DOMAIN wake
  <2>1. CASE WakeStart
    <3>1. PICK ok \in BOOLEAN : IF ok
            THEN /\ wake' = [wake EXCEPT !.pc = "probe", !.kept = Preserved(wake.on),
                                !.light = PreservedMatches(wake.on) /\ box[wake.on][0] # NoContainer]
                 /\ UNCHANGED <<held, waker, op>>
            ELSE WakeFails
      BY <2>1 DEF WakeStart
    <3>2. CASE ok
      <4> DEFINE kept == Preserved(wake.on)
                 light == PreservedMatches(wake.on) /\ box[wake.on][0] # NoContainer
      <4>1. wake' = [wake EXCEPT !.pc = "probe", !.kept = kept, !.light = light]
        BY <3>1, <3>2
      <4> HIDE DEF kept, light
      <4> QED
        BY <3>1, <3>2, <4>1, WakeFields DEF LockInv, Shaped
    <3> QED
      BY <3>1, <3>2 DEF WakeFails
  <2>2. CASE WakeProbe
    <3>1. \/ /\ wake' = [wake EXCEPT !.pc = "attest"]
             /\ UNCHANGED <<held, waker, op>>
          \/ WakeFails
      BY <2>2 DEF WakeProbe
    <3> QED
      BY <3>1, WakeFields DEF LockInv, Shaped, WakeFails
  <2>3. CASE WakeAttest
    BY <2>3 DEF WakeAttest, WakeFails
  <2> QED
    BY <2>1, <2>2, <2>3
<1>4. CASE \E ok \in BOOLEAN : WakeReturns(ok)
  BY <1>1, <1>2, <1>4, WakeReturnsLocks
<1>5. CASE /\ UNCHANGED <<held, waker, op>>
           /\ wake'.pc # "idle" /\ wake'.by = wake.by /\ DOMAIN wake' = DOMAIN wake
  BY <1>1, <1>2, <1>5 DEF LockInv, Shaped, Alone
<1> QED
  BY <1>3, <1>4, <1>5

(* wakeApp is called by who holds the key.                                 *)
LEMMA WakeBeginsFields ==
  ASSUME LockInv, NEW by, WakeBegins(by)
  PROVE  /\ DOMAIN app' = DOMAIN app
         /\ DOMAIN wake' = DOMAIN wake /\ wake'.pc = "start" /\ wake'.by = by
<1>1. wake' = [IdleWake EXCEPT !.pc = "start", !.by = by, !.on = app.bed, !.current = TRUE]
  BY DEF WakeBegins
<1> QED
  BY <1>1, WakeFields DEF WakeBegins, LockInv, Shaped

(* The waker, the app-runtime controller and the sweep.                    *)
LEMMA WakerLocksKeeps ==
  ASSUME LockInv,
         Connect \/ WakerLocks \/ WakerGivesUp \/ RuntimeStart \/ RuntimeAttest \/ SweepToSleeping
  PROVE  LockInv'
<1>1. CASE Connect \/ WakerGivesUp \/ SweepToSleeping
  BY <1>1 DEF Connect, WakerGivesUp, SweepToSleeping, LockInv, Shaped, Alone
<1>2. CASE WakerLocks
  <2>1. CASE Wakeable /\ app.bed # None
    <3>1. held = None /\ held' = "waker" /\ waker' = "waking" /\ WakeBegins("waker")
          /\ UNCHANGED <<tick, runtime, op>>
      BY <1>2, <2>1 DEF WakerLocks
    <3> QED
      BY <3>1, WakeBeginsFields, AppAssumption DEF LockInv, Shaped, Alone, AppAssumption
  <2> QED
    BY <1>2, <2>1 DEF WakerLocks, LockInv, Shaped, Alone
<1>3. CASE RuntimeStart
  BY <1>3, AppAssumption DEF RuntimeStart, LockInv, Shaped, Alone, AppAssumption
<1>4. CASE RuntimeAttest
  <2>1. /\ runtime # {} /\ UNCHANGED <<app, tick, waker, wake, op>>
        /\ held' = IF runtime' = {} THEN None ELSE held
    BY <1>4 DEF RuntimeAttest
  <2> QED
    BY <2>1, AppAssumption DEF LockInv, Shaped, Alone, AppAssumption
<1> QED
  BY <1>1, <1>2, <1>3, <1>4

(* An operation holds the key from its start or its resumption to its end. *)
LEMMA OperationLocks ==
  ASSUME LockInv, OperationStep
  PROVE  LockInv'
<1> USE OpFields
<1>1. CASE QueueFinalizer
  <2>1. op' = [op EXCEPT !.kind = "destroy_app", !.pc = "pending"] /\ op.pc = "none"
        /\ UNCHANGED <<app, held, tick, waker, wake, runtime>>
    BY <1>1 DEF QueueFinalizer, Queued
  <2> QED
    BY <2>1 DEF LockInv, Shaped, Alone
<1>2. CASE OpEnds /\ (op.live = TRUE \/ held = None) /\ wake.pc = "idle" /\ DOMAIN app' = DOMAIN app
           /\ UNCHANGED <<tick, waker, wake, runtime>>
  <2>1. op' = [NoOp EXCEPT !.keyed = op.keyed] /\ held' = None /\ held \in {None, "op"}
    BY <1>2 DEF OpEnds, LockInv, Alone
  <2>2. op'.live = FALSE /\ DOMAIN op' = DOMAIN NoOp
    BY <2>1 DEF NoOp
  <2> QED
    BY <1>2, <2>1, <2>2, AppAssumption DEF LockInv, Shaped, Alone, AppAssumption
<1>3. CASE OpStart
  <2>1. op.pc = "pending" /\ wake.pc = "idle" /\ held = None /\ UNCHANGED <<tick, waker, wake, runtime>>
    BY <1>3, AppAssumption DEF OpStart, LockInv, Alone, AppAssumption
  <2>2. CASE OpEnds /\ UNCHANGED app
    BY <1>2, <2>1, <2>2
  <2>3. CASE /\ held' = "op" /\ op' = [op EXCEPT !.pc = FirstPc, !.todo = Ids, !.live = TRUE]
             /\ DOMAIN app' = DOMAIN app
    <3>1. op'.live = TRUE /\ DOMAIN op' = DOMAIN op
      <4> DEFINE pc == FirstPc
                 names == Ids
      <4>1. op' = [op EXCEPT !.pc = pc, !.todo = names, !.live = TRUE]
        BY <2>3
      <4> HIDE DEF pc, names
      <4> QED
        BY <4>1 DEF LockInv, Shaped
    <3> QED
      BY <2>1, <2>3, <3>1, AppAssumption DEF LockInv, Shaped, Alone, AppAssumption
  <2> QED
    BY <1>3, <2>2, <2>3 DEF OpStart
<1>4. CASE OpResume
  <2>1. op' = [op EXCEPT !.live = TRUE] /\ held' = "op" /\ held = None
        /\ UNCHANGED <<app, tick, waker, wake, runtime>>
    BY <1>4 DEF OpResume
  <2> QED
    BY <2>1, AppAssumption DEF LockInv, Shaped, Alone, AppAssumption
<1>5. CASE OpAct \/ OpRemove \/ OpDetach
  <2>1. /\ op.pc # "waking" /\ DOMAIN op' = DOMAIN op /\ op'.live = op.live
        /\ UNCHANGED <<app, held, tick, waker, wake, runtime>>
    <3>1. CASE OpAct
      BY <3>1 DEF OpAct, LockInv, Shaped
    <3>2. CASE OpRemove
      BY <3>2 DEF OpRemove, LockInv, Shaped
    <3>3. CASE OpDetach
      BY <3>3 DEF OpDetach, LockInv, Shaped
    <3> QED
      BY <1>5, <3>1, <3>2, <3>3
  <2> QED
    BY <2>1 DEF LockInv, Shaped, Alone
<1>6. CASE OpFinalize \/ OpWoken \/ OpDelete
  <2>1. /\ OpEnds /\ op.live /\ op.pc # "waking" /\ DOMAIN app' = DOMAIN app
        /\ UNCHANGED <<tick, waker, wake, runtime>>
    BY <1>6 DEF OpFinalize, OpWoken, OpDelete
  <2>2. op.live = TRUE /\ held = "op" /\ wake.pc = "idle"
    BY <2>1, AppAssumption DEF LockInv, Alone, AppAssumption
  <2> QED
    BY <1>2, <2>1, <2>2
<1>7. CASE OpWake
  <2>1. /\ op.pc = "waking" /\ op.live /\ wake.pc = "idle" /\ UNCHANGED <<held, tick, waker, runtime>>
        /\ \/ WakeBegins("op") /\ UNCHANGED op
           \/ op' = [op EXCEPT !.pc = "woken"] /\ UNCHANGED <<app, wake>>
    BY <1>7 DEF OpWake
  <2>2. CASE WakeBegins("op") /\ UNCHANGED op
    BY <2>1, <2>2, WakeBeginsFields DEF LockInv, Shaped, Alone
  <2>3. CASE op' = [op EXCEPT !.pc = "woken"] /\ UNCHANGED <<app, wake>>
    BY <2>1, <2>3 DEF LockInv, Shaped, Alone
  <2> QED
    BY <2>1, <2>2, <2>3
<1> QED
  BY <1>1, <1>3, <1>4, <1>5, <1>6, <1>7 DEF OperationStep

(* Requests, edits, servers, containers and crashes.                       *)
LEMMA WorldLocks ==
  ASSUME LockInv,
         \/ Enqueue \/ RequestWake \/ EditDesired \/ Quiet
         \/ ServerLost \/ ServerReturns \/ ServerMissing \/ ContainerDies \/ Crash
  PROVE  LockInv'
<1> USE OpFields
<1>1. CASE Enqueue
  <2>1. PICK k \in Kind : op' = [op EXCEPT !.kind = k, !.pc = "pending"]
    BY <1>1 DEF Enqueue, Queued
  <2> QED
    BY <1>1, <2>1 DEF Enqueue, LockInv, Shaped, Alone
<1>2. CASE RequestWake
  <2>1. /\ UNCHANGED <<app, held, tick, waker, wake, runtime>>
        /\ \/ UNCHANGED op
           \/ op.pc = "none" /\ op' = [[op EXCEPT !.kind = "wake", !.pc = "pending"] EXCEPT !.keyed = TRUE]
    BY <1>2 DEF RequestWake, Queued
  <2> QED
    BY <2>1 DEF LockInv, Shaped, Alone
<1>3. CASE EditDesired
  <2>1. /\ UNCHANGED <<held, waker, runtime, op>>
        /\ DOMAIN app' = DOMAIN app
        /\ wake' = [wake EXCEPT !.current = FALSE]
        /\ tick' = [tick EXCEPT !.current = FALSE]
    BY <1>3 DEF EditDesired, SetDesired, WithDesired
  <2> QED
    BY <2>1, TickFields, WakeFields DEF LockInv, Shaped, Alone
<1>4. CASE Quiet \/ ServerLost \/ ServerReturns \/ ServerMissing \/ ContainerDies
  <2>1. UNCHANGED <<held, tick, waker, wake, runtime, op>> /\ DOMAIN app' = DOMAIN app
    BY <1>4 DEF Quiet, ServerLost, ServerReturns, ServerMissing, ContainerDies
  <2> QED
    BY <2>1 DEF LockInv, Shaped, Alone
<1>5. CASE Crash
  <2>1. /\ UNCHANGED app /\ tick' = IdleTick /\ wake' = IdleWake /\ waker' = "idle" /\ runtime' = {}
        /\ op' = [op EXCEPT !.live = FALSE]
    BY <1>5 DEF Crash
  <2>2. tick'.pc = "idle" /\ wake'.pc = "idle" /\ op'.live = FALSE /\ DOMAIN op' = DOMAIN op
    BY <2>1 DEF IdleTick, IdleWake, LockInv, Shaped
  <2> QED
    BY <2>1, <2>2 DEF LockInv, Shaped, Alone, Converging
<1> QED
  BY <1>1, <1>2, <1>3, <1>4, <1>5

LEMMA NextLocks == LockInv /\ [Next]_vars => LockInv'
<1> SUFFICES ASSUME LockInv, [Next]_vars PROVE LockInv'
  OBVIOUS
<1>1. CASE TickStep
  BY <1>1, TickBeforeLocks, TickLocks DEF TickStep
<1>2. CASE WakingStep
  BY <1>2, WakeLocks, WakerLocksKeeps DEF WakingStep
<1>3. CASE OperationStep
  BY <1>3, OperationLocks
<1>4. CASE UNCHANGED vars
  BY <1>4 DEF vars, LockInv, Shaped, Alone
<1> QED
  BY <1>1, <1>2, <1>3, <1>4, WorldLocks DEF Next, PanelStep

(* Who is at work holds the key.                                           *)
THEOREM KeyIsHeld == Spec => []LockInv
  BY InitLocks, NextLocks, PTL DEF Spec

(* A convergence, a wake for a connection, an attestation pass and an      *)
(* operation never act on the app at the same time, also after a crash.    *)
THEOREM OneActorAtATime == Spec => []ActsAlone
<1>1. ASSUME LockInv PROVE ActsAlone
  <2> DEFINE acting == {a \in {"tick", "waker", "runtime", "op"} :
                          \/ a = "tick" /\ tick.pc \in Converging
                          \/ a = "waker" /\ waker = "waking"
                          \/ a = "runtime" /\ runtime # {}
                          \/ a = "op" /\ op.live}
  <2>1. acting \subseteq {held}
    BY <1>1 DEF LockInv, Alone
  <2>2. IsFiniteSet({held}) /\ Cardinality({held}) = 1
    BY FS_Singleton
  <2>3. Cardinality(acting) <= 1
    <3> HIDE DEF acting
    <3> QED
      BY <2>1, <2>2, FS_Subset
  <2> QED
    BY <2>3 DEF ActsAlone
<1> QED
  BY <1>1, KeyIsHeld, PTL

-----------------------------------------------------------------------------
(* The rows of the replicas, and the containers. *)

RowFields == {"name", "on", "st", "match", "ticks"}
RowsShaped(rs) ==
  /\ \E S : rs \in Seq(S)
  /\ \A i \in DOMAIN rs : DOMAIN rs[i] = RowFields

(* The same replicas, whatever became of their status and attestation.     *)
Same(rs, qs) ==
  /\ DOMAIN qs = DOMAIN rs /\ Len(qs) = Len(rs)
  /\ \A i \in DOMAIN rs : qs[i].name = rs[i].name /\ qs[i].on = rs[i].on

BoxShaped == box \in [Server -> [Name -> Container]]

LEMMA RowsDomain ==
  ASSUME NEW rs, RowsShaped(rs)
  PROVE  Len(rs) \in Nat /\ DOMAIN rs = 1 .. Len(rs) /\ IsFiniteSet(DOMAIN rs)
         /\ Cardinality(DOMAIN rs) = Len(rs)
<1>1. Len(rs) \in Nat /\ DOMAIN rs = 1 .. Len(rs)
  BY DEF RowsShaped
<1>2. 1 \in Int /\ Len(rs) \in Int
  BY <1>1
<1>3. IsFiniteSet(1 .. Len(rs)) /\ Cardinality(1 .. Len(rs)) = IF 1 > Len(rs) THEN 0 ELSE Len(rs) - 1 + 1
  BY <1>2, FS_Interval
<1> QED
  BY <1>1, <1>3

(* A change of rows one by one. *)
LEMMA Mapped ==
  ASSUME NEW rs, RowsShaped(rs), NEW qs, qs = [i \in DOMAIN rs |-> qs[i]],
         \A i \in DOMAIN rs : DOMAIN qs[i] = RowFields
  PROVE  RowsShaped(qs) /\ DOMAIN qs = DOMAIN rs /\ Len(qs) = Len(rs)
<1>1. DOMAIN rs = 1 .. Len(rs) /\ Len(rs) \in Nat
  BY RowsDomain
<1> DEFINE S == {qs[i] : i \in DOMAIN rs}
<1>2. qs \in [1 .. Len(rs) -> S]
  BY <1>1
<1>3. qs \in Seq(S) /\ Len(qs) = Len(rs)
  BY <1>1, <1>2
<1> QED
  BY <1>1, <1>2, <1>3 DEF RowsShaped

LEMMA WithStatusRows ==
  ASSUME NEW rs, RowsShaped(rs), NEW n, NEW st
  PROVE  RowsShaped(WithStatus(rs, n, st)) /\ Same(rs, WithStatus(rs, n, st))
<1> DEFINE qs == WithStatus(rs, n, st)
<1>1. qs = [i \in DOMAIN rs |-> IF Id(rs[i]) = n THEN [rs[i] EXCEPT !.st = st] ELSE rs[i]]
  BY DEF WithStatus
<1>2. \A i \in DOMAIN rs : DOMAIN qs[i] = RowFields /\ qs[i].name = rs[i].name /\ qs[i].on = rs[i].on
  BY <1>1 DEF RowsShaped, RowFields
<1>3. qs = [i \in DOMAIN rs |-> qs[i]]
  BY <1>1
<1> QED
  BY <1>2, <1>3, Mapped DEF Same

LEMMA AttestedRows ==
  ASSUME NEW rs, RowsShaped(rs), NEW n, NEW ok, NEW current
  PROVE  RowsShaped(Attested(rs, n, ok, current)) /\ Same(rs, Attested(rs, n, ok, current))
<1> DEFINE qs == Attested(rs, n, ok, current)
           m == ok /\ current
           st == IF ok THEN "running" ELSE "divergent"
<1>1. qs = [i \in DOMAIN rs |-> IF Id(rs[i]) = n THEN [rs[i] EXCEPT !.st = st, !.match = m] ELSE rs[i]]
  BY DEF Attested
<1>2. \A i \in DOMAIN rs : DOMAIN qs[i] = RowFields /\ qs[i].name = rs[i].name /\ qs[i].on = rs[i].on
  <2> HIDE DEF m, st
  <2>1. \A i \in DOMAIN rs : DOMAIN rs[i] = RowFields
    BY DEF RowsShaped
  <2>2. ASSUME NEW i \in DOMAIN rs
        PROVE  LET q == [rs[i] EXCEPT !.st = st, !.match = m]
               IN  DOMAIN q = RowFields /\ q.name = rs[i].name /\ q.on = rs[i].on
    BY <2>1 DEF RowFields
  <2> HIDE DEF qs
  <2>3. ASSUME NEW i \in DOMAIN rs
        PROVE  qs[i] = [rs[i] EXCEPT !.st = st, !.match = m] \/ qs[i] = rs[i]
    BY <1>1
  <2> QED
    BY <2>1, <2>2, <2>3
<1>3. qs = [i \in DOMAIN rs |-> qs[i]]
  BY <1>1
<1> QED
  BY <1>2, <1>3, Mapped DEF Same

LEMMA OutdatedRows ==
  ASSUME NEW rs, RowsShaped(rs)
  PROVE  RowsShaped(Outdated(rs)) /\ Same(rs, Outdated(rs))
<1> DEFINE qs == Outdated(rs)
<1>1. qs = [i \in DOMAIN rs |-> [rs[i] EXCEPT !.match = FALSE]]
  BY DEF Outdated
<1>2. \A i \in DOMAIN rs : DOMAIN qs[i] = RowFields /\ qs[i].name = rs[i].name /\ qs[i].on = rs[i].on
  BY <1>1 DEF RowsShaped, RowFields
<1>3. qs = [i \in DOMAIN rs |-> qs[i]]
  BY <1>1
<1> QED
  BY <1>2, <1>3, Mapped DEF Same

LEMMA ResetRows ==
  ASSUME RowsShaped(rows), NEW n
  PROVE  RowsShaped(ResetTicks(n)) /\ Same(rows, ResetTicks(n))
<1> DEFINE qs == ResetTicks(n)
<1>1. qs = [i \in DOMAIN rows |-> IF Id(rows[i]) = n THEN [rows[i] EXCEPT !.ticks = 0] ELSE rows[i]]
  BY DEF ResetTicks
<1>2. \A i \in DOMAIN rows : DOMAIN qs[i] = RowFields /\ qs[i].name = rows[i].name /\ qs[i].on = rows[i].on
  BY <1>1 DEF RowsShaped, RowFields
<1>3. qs = [i \in DOMAIN rows |-> qs[i]]
  BY <1>1
<1> QED
  BY <1>2, <1>3, Mapped DEF Same

LEMMA JudgedRows ==
  ASSUME RowsShaped(rows), NEW i, NEW k, NEW st
  PROVE  LET qs == [rows EXCEPT ![i].ticks = k, ![i].st = st]
         IN  RowsShaped(qs) /\ Same(rows, qs)
<1> DEFINE qs == [rows EXCEPT ![i].ticks = k, ![i].st = st]
<1>1. \A j \in DOMAIN rows : DOMAIN rows[j] = RowFields
  BY DEF RowsShaped
<1>2. qs = [j \in DOMAIN rows |-> qs[j]]
  OBVIOUS
<1>3. ASSUME NEW j \in DOMAIN rows
      PROVE  qs[j] = [[rows[j] EXCEPT !.ticks = k] EXCEPT !.st = st] \/ qs[j] = rows[j]
  OBVIOUS
<1>4. ASSUME NEW j \in DOMAIN rows
      PROVE  DOMAIN qs[j] = RowFields /\ qs[j].name = rows[j].name /\ qs[j].on = rows[j].on
  <2> HIDE DEF qs
  <2> QED
    BY <1>1, <1>3 DEF RowFields
<1> HIDE DEF qs
<1>5. RowsShaped(qs) /\ Same(rows, qs)
  BY <1>2, <1>4, Mapped DEF Same
<1> USE DEF qs
<1> QED
  BY <1>5

LEMMA LostRows ==
  ASSUME RowsShaped(rows), NEW s
  PROVE  LET qs == [i \in DOMAIN rows |->
                      IF rows[i].on = s THEN [rows[i] EXCEPT !.st = "unhealthy"] ELSE rows[i]]
         IN  RowsShaped(qs) /\ Same(rows, qs)
<1> DEFINE qs == [i \in DOMAIN rows |->
                    IF rows[i].on = s THEN [rows[i] EXCEPT !.st = "unhealthy"] ELSE rows[i]]
<1>2. \A i \in DOMAIN rows : DOMAIN qs[i] = RowFields /\ qs[i].name = rows[i].name /\ qs[i].on = rows[i].on
  BY DEF RowsShaped, RowFields
<1>3. qs = [i \in DOMAIN rows |-> qs[i]]
  OBVIOUS
<1> HIDE DEF qs
<1>4. RowsShaped(qs) /\ Same(rows, qs)
  BY <1>2, <1>3, Mapped DEF Same
<1> USE DEF qs
<1> QED
  BY <1>4

LEMMA AppendedRows ==
  ASSUME NEW rs, RowsShaped(rs), NEW n, NEW s, NEW st
  PROVE  LET r == NewRow(n, s, st)
         IN  /\ RowsShaped(Append(rs, r)) /\ Len(Append(rs, r)) = Len(rs) + 1
             /\ DOMAIN Append(rs, r) = 1 .. Len(rs) + 1
             /\ r.name = n /\ r.on = s /\ Append(rs, r)[Len(rs) + 1] = r
             /\ \A i \in DOMAIN rs : Append(rs, r)[i] = rs[i]
<1> DEFINE r == NewRow(n, s, st)
<1>1. PICK S : rs \in Seq(S)
  BY DEF RowsShaped
<1>2. rs \in Seq(S \cup {r}) /\ r \in S \cup {r}
  BY <1>1
<1>3. DOMAIN r = RowFields /\ r.name = n /\ r.on = s
  BY DEF NewRow, RowFields
<1> HIDE DEF r
<1>4. /\ Append(rs, r) \in Seq(S \cup {r}) /\ Len(Append(rs, r)) = Len(rs) + 1
      /\ DOMAIN Append(rs, r) = 1 .. Len(rs) + 1
      /\ Append(rs, r)[Len(rs) + 1] = r
      /\ \A i \in 1 .. Len(rs) : Append(rs, r)[i] = rs[i]
  BY <1>2
<1>5. Len(rs) \in Nat /\ DOMAIN rs = 1 .. Len(rs)
  BY <1>1
<1>6. \A i \in DOMAIN Append(rs, r) : DOMAIN Append(rs, r)[i] = RowFields
  <2> TAKE i \in DOMAIN Append(rs, r)
  <2>1. i = Len(rs) + 1 \/ i \in 1 .. Len(rs)
    BY <1>4, <1>5
  <2> QED
    BY <1>3, <1>4, <1>5, <2>1 DEF RowsShaped
<1>7. RowsShaped(Append(rs, r))
  BY <1>4, <1>6 DEF RowsShaped
<1> USE DEF r
<1> QED
  BY <1>3, <1>4, <1>5, <1>7

(* In a finite set of indices that is ordered, each rank below its size is *)
(* taken, by one index.                                                    *)
LEMMA RanksAreTaken ==
  ASSUME NEW I, IsFiniteSet(I), NEW B \in SUBSET (I \X I),
         \A i \in I : <<i, i>> \notin B,
         \A i, j, k \in I : <<i, j>> \in B /\ <<j, k>> \in B => <<i, k>> \in B,
         \A i, j \in I : i = j \/ <<i, j>> \in B \/ <<j, i>> \in B
  PROVE  /\ \A k \in 1 .. Cardinality(I) : \E i \in I : Cardinality({j \in I : <<j, i>> \in B}) = k - 1
         /\ \A i \in I : Cardinality({j \in I : <<j, i>> \in B}) \in 0 .. Cardinality(I) - 1
         /\ \A i, j \in I : Cardinality({x \in I : <<x, i>> \in B}) = Cardinality({x \in I : <<x, j>> \in B})
                              => i = j
<1> DEFINE below(i) == {x \in I : <<x, i>> \in B}
           rank == [i \in I |-> Cardinality(below(i))]
           n == Cardinality(I)
<1>1. n \in Nat
  BY FS_CardinalityType
<1>2. \A i \in I : IsFiniteSet(below(i)) /\ rank[i] \in Nat /\ rank[i] < n
  <2> TAKE i \in I
  <2>1. below(i) \in SUBSET I /\ below(i) # I
    OBVIOUS
  <2> HIDE DEF below
  <2>2. IsFiniteSet(below(i)) /\ Cardinality(below(i)) \in Nat /\ Cardinality(below(i)) <= n
        /\ Cardinality(below(i)) # n
    BY <2>1, FS_Subset, FS_CardinalityType
  <2> QED
    BY <1>1, <2>2
<1>3. \A i, j \in I : <<i, j>> \in B => rank[i] < rank[j]
  <2> TAKE i, j \in I
  <2>1. ASSUME <<i, j>> \in B
        PROVE  rank[i] < rank[j]
    <3>1. below(i) \in SUBSET below(j) /\ below(i) # below(j)
      <4>1. i \in below(j) /\ i \notin below(i)
        BY <2>1
      <4>2. \A x \in below(i) : x \in below(j)
        BY <2>1
      <4> QED
        BY <4>1, <4>2
    <3>2. IsFiniteSet(below(j)) /\ rank[i] \in Nat /\ rank[j] \in Nat
      BY <1>2
    <3>3. rank[i] = Cardinality(below(i)) /\ rank[j] = Cardinality(below(j))
      OBVIOUS
    <3> HIDE DEF below, rank
    <3>4. Cardinality(below(i)) <= Cardinality(below(j)) /\ Cardinality(below(i)) # Cardinality(below(j))
      BY <3>1, <3>2, FS_Subset
    <3> QED
      BY <3>2, <3>3, <3>4
  <2> QED
    BY <2>1
<1> HIDE DEF rank, n
<1>4. rank \in [I -> 0 .. n - 1]
  <2>1. rank = [i \in I |-> rank[i]]
    BY DEF rank
  <2>2. ASSUME NEW i \in I PROVE rank[i] \in 0 .. n - 1
    <3>1. rank[i] \in Nat /\ rank[i] < n
      BY <1>2
    <3> QED
      BY <1>1, <3>1
  <2> QED
    BY <2>1, <2>2
<1>5. \A i, j \in I : rank[i] = rank[j] => i = j
  <2> SUFFICES ASSUME NEW i \in I, NEW j \in I, i # j PROVE rank[i] # rank[j]
    OBVIOUS
  <2>1. rank[i] \in Nat /\ rank[j] \in Nat
    BY <1>2
  <2>2. <<i, j>> \in B \/ <<j, i>> \in B
    OBVIOUS
  <2>3. rank[i] < rank[j] \/ rank[j] < rank[i]
    BY <1>3, <2>2
  <2> QED
    BY <2>1, <2>3
<1>6. rank \in Injection(I, 0 .. n - 1)
  BY <1>4, <1>5, Fun_IsInj
<1>7. IsFiniteSet(0 .. n - 1) /\ Cardinality(0 .. n - 1) = n
  BY <1>1, FS_Interval
<1>8. rank \in Surjection(I, 0 .. n - 1)
  BY <1>6, <1>7, FS_Injection DEF n
<1>9. \A t \in 0 .. n - 1 : \E i \in I : rank[i] = t
  BY <1>8 DEF Surjection
<1>10. \A i \in I : rank[i] = Cardinality({x \in I : <<x, i>> \in B})
  BY DEF rank
<1>11. \A k \in 1 .. n : \E i \in I : rank[i] = k - 1
  <2> TAKE k \in 1 .. n
  <2>1. k - 1 \in 0 .. n - 1
    BY <1>1
  <2> QED
    BY <1>9, <2>1
<1> HIDE DEF below
<1>12. /\ \A k \in 1 .. n : \E i \in I : Cardinality({j \in I : <<j, i>> \in B}) = k - 1
       /\ \A i \in I : Cardinality({j \in I : <<j, i>> \in B}) \in 0 .. n - 1
  BY <1>4, <1>10, <1>11
<1> QED
  BY <1>5, <1>10, <1>12 DEF n

(* The rows that are left are ranked by age ...                            *)
LEMMA EveryRankIsTaken ==
  ASSUME NEW I \in SUBSET Nat, IsFiniteSet(I)
  PROVE  /\ \A k \in 1 .. Cardinality(I) : /\ Ranked(I, Earlier, k) \in I
                                           /\ Cardinality({j \in I : Earlier(j, Ranked(I, Earlier, k))}) = k - 1
         /\ \A i \in I : \E k \in 1 .. Cardinality(I) : Ranked(I, Earlier, k) = i
<1> DEFINE B == {p \in I \X I : Earlier(p[1], p[2])}
           rank(i) == Cardinality({j \in I : Earlier(j, i)})
<1>1. \A i \in I : {j \in I : <<j, i>> \in B} = {j \in I : Earlier(j, i)}
  OBVIOUS
<1>2. /\ \A i \in I : <<i, i>> \notin B
      /\ \A i, j, k \in I : <<i, j>> \in B /\ <<j, k>> \in B => <<i, k>> \in B
      /\ \A i, j \in I : i = j \/ <<i, j>> \in B \/ <<j, i>> \in B
  BY DEF Earlier
<1>3. B \in SUBSET (I \X I)
  OBVIOUS
<1> HIDE DEF B
<1>4. /\ \A k \in 1 .. Cardinality(I) : \E i \in I : rank(i) = k - 1
      /\ \A i \in I : rank(i) \in 0 .. Cardinality(I) - 1
      /\ \A i, j \in I : rank(i) = rank(j) => i = j
  <2>1. /\ \A k \in 1 .. Cardinality(I) : \E i \in I : Cardinality({j \in I : <<j, i>> \in B}) = k - 1
        /\ \A i \in I : Cardinality({j \in I : <<j, i>> \in B}) \in 0 .. Cardinality(I) - 1
        /\ \A i, j \in I : Cardinality({x \in I : <<x, i>> \in B}) = Cardinality({x \in I : <<x, j>> \in B})
                              => i = j
    BY <1>2, <1>3, RanksAreTaken, Zenon
  <2> QED
    BY <1>1, <2>1
<1>5. \A k : Ranked(I, Earlier, k) = CHOOSE i \in I : rank(i) = k - 1
  BY DEF Ranked
<1> HIDE DEF rank
<1>6. \A k \in 1 .. Cardinality(I) : Ranked(I, Earlier, k) \in I /\ rank(Ranked(I, Earlier, k)) = k - 1
  BY <1>4, <1>5
<1>7. \A i \in I : \E k \in 1 .. Cardinality(I) : Ranked(I, Earlier, k) = i
  <2> TAKE i \in I
  <2>1. Cardinality(I) \in Nat
    BY FS_CardinalityType
  <2>2. rank(i) + 1 \in 1 .. Cardinality(I) /\ rank(i) = (rank(i) + 1) - 1
    BY <1>4, <2>1
  <2>3. rank(Ranked(I, Earlier, rank(i) + 1)) = rank(i) /\ Ranked(I, Earlier, rank(i) + 1) \in I
    BY <1>6, <2>2
  <2> QED
    BY <1>4, <2>2, <2>3
<1> QED
  BY <1>6, <1>7 DEF rank

(* What is left of the rows are rows. *)
LEMMA WithoutRows ==
  ASSUME NEW rs, RowsShaped(rs), NEW names
  PROVE  LET qs == Without(rs, names)
         IN  /\ RowsShaped(qs) /\ Len(qs) <= Len(rs)
             /\ \A k \in DOMAIN qs : \E i \in DOMAIN rs : qs[k] = rs[i]
<1> DEFINE kept == {i \in DOMAIN rs : Id(rs[i]) \notin names}
           qs == Without(rs, names)
           n == Cardinality(kept)
<1>1. Len(rs) \in Nat /\ DOMAIN rs = 1 .. Len(rs) /\ IsFiniteSet(DOMAIN rs)
      /\ Cardinality(DOMAIN rs) = Len(rs)
  BY RowsDomain
<1>2. kept \in SUBSET DOMAIN rs /\ kept \in SUBSET Nat
  BY <1>1
<1>3. IsFiniteSet(kept) /\ n \in Nat /\ n <= Len(rs)
  BY <1>1, <1>2, FS_Subset, FS_CardinalityType
<1>4. qs = [k \in 1 .. n |-> rs[Ranked(kept, Earlier, k)]]
  BY DEF Without
<1>5. \A k \in 1 .. n : Ranked(kept, Earlier, k) \in kept
  BY <1>2, <1>3, EveryRankIsTaken
<1>6. PICK S : rs \in Seq(S)
  BY DEF RowsShaped
<1> HIDE DEF kept, qs, n
<1>7. \A k \in 1 .. n : \E i \in DOMAIN rs : qs[k] = rs[i]
  BY <1>2, <1>4, <1>5
<1>8. qs \in [1 .. n -> S]
  BY <1>1, <1>2, <1>4, <1>5, <1>6
<1>9. qs \in Seq(S) /\ Len(qs) = n /\ DOMAIN qs = 1 .. n
  BY <1>3, <1>8
<1>10. RowsShaped(qs)
  BY <1>7, <1>9 DEF RowsShaped
<1>11. Len(qs) <= Len(rs)
  BY <1>3, <1>9
<1> USE DEF qs
<1> QED
  BY <1>7, <1>9, <1>10, <1>11

ShapeInv == RowsShaped(rows) /\ BoxShaped

LEMMA SetBox ==
  ASSUME BoxShaped, NEW s, NEW n, NEW c \in Container
  PROVE  Set(s, n, c) \in [Server -> [Name -> Container]]
  BY DEF BoxShaped, Set

LEMMA RowOfId ==
  ASSUME NEW x \in Ids
  PROVE  RowOf(x) \in DOMAIN rows /\ Id(rows[RowOf(x)]) = x
  BY DEF Ids, IdsOf, RowOf

LEMMA TickShapes ==
  ASSUME ShapeInv, TickStep
  PROVE  ShapeInv'
<1> USE DEF ShapeInv
<1>0. {"running", "stopped", NoContainer} \subseteq Container
  BY DEF Container
<1>12. ASSUME NEW s, NEW n, GiveUp(s, n) PROVE ShapeInv'
  <2>1. rows' = Without(rows, {<<n, s>>}) /\ (box' = box \/ box' = Set(s, n, NoContainer))
    BY <1>12 DEF GiveUp
  <2>2. RowsShaped(rows')
    BY <2>1, WithoutRows
  <2>3. BoxShaped'
    BY <1>0, <2>1, SetBox DEF BoxShaped
  <2> QED
    BY <2>2, <2>3
<1>1. CASE TickStart \/ Probe \/ Propagate \/ ConvergeStart
  BY <1>1 DEF TickStart, Probe, Propagate, ConvergeStart, BoxShaped
<1>2. CASE Judge
  <2>1. UNCHANGED box
    BY <1>2 DEF Judge
  <2>2. CASE UNCHANGED rows
    BY <2>1, <2>2 DEF BoxShaped
  <2>3. CASE rows' # rows
    <3> DEFINE i == RowOf(Examined)
    <3>1. Examined \in Ids
      BY <1>2, <2>3 DEF Judge, Defers
    <3>2. i \in DOMAIN rows
      BY <3>1, RowOfId
    <3>3. \E k, st : rows' = [rows EXCEPT ![i].ticks = k, ![i].st = st]
      <4>1. CASE ~tick.sick
        <5>1. rows' = [rows EXCEPT ![i].ticks = 0, ![i].st = IF @ = "divergent" THEN @ ELSE "running"]
          BY <1>2, <2>3, <4>1 DEF Judge
        <5> QED
          BY <5>1
      <4>2. CASE tick.sick
        <5>1. rows' = [rows EXCEPT ![i].ticks = IF rows[i].ticks < RestartThreshold THEN rows[i].ticks + 1 ELSE RestartThreshold, ![i].st = "unhealthy"]
          BY <1>2, <2>3, <4>2 DEF Judge
        <5> QED
          BY <5>1
      <4> QED
        BY <4>1, <4>2
    <3> HIDE DEF i
    <3>5. PICK k, st : rows' = [rows EXCEPT ![i].ticks = k, ![i].st = st]
      BY <3>3
    <3>6. RowsShaped([rows EXCEPT ![i].ticks = k, ![i].st = st])
      BY JudgedRows
    <3>4. RowsShaped(rows')
      BY <3>5, <3>6
    <3> QED
      BY <2>1, <3>4 DEF BoxShaped
  <2> QED
    BY <2>2, <2>3
<1>3. CASE Restart \/ Recreate
  <2>1. /\ rows' = ResetTicks(Examined) \/ rows' = rows
        /\ box' = Set(tick.on, tick.at, "running") \/ box' = box
    BY <1>3 DEF Restart, Recreate
  <2> QED
    BY <1>0, <2>1, ResetRows, SetBox DEF BoxShaped
<1>4. CASE Autoscale
  BY <1>4, OutdatedRows DEF Autoscale, SetDesired, BoxShaped
<1>5. CASE Grow
  <2>1. \/ rows' = rows /\ box' = box
        \/ rows' = rows /\ \E s, n : box' = Set(s, n, "running")
        \/ \E s, n : GiveUp(s, n)
    BY <1>5 DEF Grow
  <2> QED
    BY <1>0, <1>12, <2>1, SetBox DEF BoxShaped
<1>6. CASE GrowCheck
  <2>1. \/ /\ rows' = Append(rows, NewRow(tick.at, tick.on, "attesting"))
           /\ UNCHANGED box
        \/ GiveUp(tick.on, tick.at)
    BY <1>6 DEF GrowCheck
  <2> QED
    <3>1. RowsShaped(Append(rows, NewRow(tick.at, tick.on, "attesting")))
      BY AppendedRows
    <3> QED
      BY <1>12, <2>1, <3>1 DEF BoxShaped
<1>7. CASE GrowAttest
  <2>1. \/ /\ rows' = Attested(rows, Examined, TRUE, tick.current)
           /\ UNCHANGED box
        \/ GiveUp(tick.on, tick.at)
    BY <1>7 DEF GrowAttest
  <2> QED
    BY <1>12, <2>1, AttestedRows DEF BoxShaped
<1>8. CASE Undo
  <2>1. \E names : rows' = Without(rows, names)
    BY <1>8 DEF Undo
  <2>2. BoxShaped'
    BY <1>0, <1>8 DEF Undo, BoxShaped
  <2> QED
    BY <2>1, <2>2, WithoutRows
<1>9. CASE Drain
  BY <1>9, WithStatusRows DEF Drain, BoxShaped
<1>10. CASE Stop
  <2>1. CASE \E ok \in BOOLEAN : StopAnchor(ok)
    <3>1. \/ \E n : rows' = WithStatus(rows, n, "stopped")
          \/ rows' = Outdated(rows)
      BY <2>1 DEF StopAnchor
    <3>2. \/ box' = box
          \/ \E s, n : box' = Set(s, n, "stopped")
      BY <2>1 DEF StopAnchor
    <3> QED
      BY <1>0, <3>1, <3>2, WithStatusRows, OutdatedRows, SetBox DEF BoxShaped
  <2>2. CASE \E ok \in BOOLEAN : RemoveReplica(ok)
    <3>1. \E names : rows' = Without(rows, names)
      BY <2>2 DEF RemoveReplica
    <3>2. \/ box' = box
          \/ \E s, n : box' = Set(s, n, NoContainer)
      BY <2>2 DEF RemoveReplica
    <3> QED
      BY <1>0, <3>1, <3>2, WithoutRows, SetBox DEF BoxShaped
  <2> QED
    BY <1>10, <2>1, <2>2 DEF Stop
<1>11. CASE Finish
  <2>1. UNCHANGED box /\ (rows' = rows \/ \E names : rows' = Without(rows, names))
    BY <1>11 DEF Finish
  <2> QED
    BY <2>1, WithoutRows DEF BoxShaped
<1> QED
  BY <1>1, <1>2, <1>3, <1>4, <1>5, <1>6, <1>7, <1>8, <1>9, <1>10, <1>11 DEF TickStep

(* Until it converges, the tick changes no more of a row than its status.  *)
LEMMA HealthIsSame ==
  ASSUME ShapeInv, TickStart \/ Probe \/ Judge \/ Restart \/ Recreate \/ Propagate \/ Autoscale
  PROVE  Same(rows, rows')
<1> USE DEF ShapeInv
<1>1. CASE rows' = rows
  BY <1>1 DEF Same
<1>2. CASE Judge /\ rows' # rows
  <2> DEFINE i == RowOf(Examined)
  <2>1. \E k, st : rows' = [rows EXCEPT ![i].ticks = k, ![i].st = st]
    <3>1. CASE tick.sick
      <4>1. rows' = [rows EXCEPT ![i].ticks = IF rows[i].ticks < RestartThreshold THEN rows[i].ticks + 1 ELSE RestartThreshold, ![i].st = "unhealthy"]
        BY <1>2, <3>1 DEF Judge
      <4> QED
        BY <4>1
    <3>2. CASE ~tick.sick
      <4>1. rows' = [rows EXCEPT ![i].ticks = 0, ![i].st = IF @ = "divergent" THEN @ ELSE "running"]
        BY <1>2, <3>2 DEF Judge
      <4> QED
        BY <4>1
    <3> QED
      BY <3>1, <3>2
  <2> HIDE DEF i
  <2>2. PICK k, st : rows' = [rows EXCEPT ![i].ticks = k, ![i].st = st]
    BY <2>1
  <2>3. Same(rows, [rows EXCEPT ![i].ticks = k, ![i].st = st])
    BY JudgedRows
  <2> QED
    BY <2>2, <2>3
<1>3. CASE rows' = ResetTicks(Examined) \/ rows' = Outdated(rows)
  BY <1>3, ResetRows, OutdatedRows
<1> QED
  BY <1>1, <1>2, <1>3 DEF TickStart, Probe, Restart, Recreate, Propagate, Autoscale, SetDesired

LEMMA UpsertedRows ==
  ASSUME ShapeInv, NEW st
  PROVE  RowsShaped(Upserted(st))
  BY WithStatusRows, AppendedRows DEF ShapeInv, Upserted

(* What the operations act for.                                           *)
OpKinds ==
  /\ op.pc = "pending" => op.kind \in Kind
  /\ op.pc = "acting" => op.kind \in {"pause_app", "unpause_app", "restart_app"}

LEMMA OtherShapes ==
  ASSUME ShapeInv, OpKinds, WakingStep \/ OperationStep
  PROVE  ShapeInv'
<1> USE DEF ShapeInv
<1>0. {"running", "stopped", "paused", NoContainer} \subseteq Container
  BY DEF Container
<1>1. CASE Connect \/ WakerLocks \/ WakerGivesUp \/ RuntimeStart \/ SweepToSleeping
  BY <1>1 DEF Connect, WakerLocks, WakerGivesUp, RuntimeStart, SweepToSleeping, BoxShaped
<1>2. CASE WakeStart
  <2>1. UNCHANGED rows /\ (box' = box \/ box' = Set(wake.on, 0, "running"))
    BY <1>2 DEF WakeStart
  <2> QED
    BY <1>0, <2>1, SetBox DEF BoxShaped
<1>3. CASE WakeProbe
  <2>1. UNCHANGED box /\ \E st : rows' = Upserted(st)
    BY <1>3 DEF WakeProbe
  <2> QED
    BY <2>1, UpsertedRows DEF BoxShaped
<1>4. CASE WakeAttest
  <2>1. UNCHANGED box
    BY <1>4 DEF WakeAttest
  <2>2. \/ rows' = Outdated(WithStatus(rows, <<0, wake.on>>, "running"))
        \/ rows' = Attested(rows, <<0, wake.on>>, FALSE, FALSE)
        \/ rows' = rows
    BY <1>4 DEF WakeAttest
  <2> QED
    BY <2>1, <2>2, WithStatusRows, OutdatedRows, AttestedRows DEF BoxShaped
<1>5. CASE RuntimeAttest
  <2>1. UNCHANGED box
        /\ (rows' = rows \/ \E n, ok, current : rows' = Attested(rows, n, ok, current))
    BY <1>5 DEF RuntimeAttest
  <2> QED
    BY <2>1, AttestedRows DEF BoxShaped
<1>6. CASE QueueFinalizer \/ OpStart \/ OpResume \/ OpFinalize \/ OpWake \/ OpWoken \/ OpDetach
  BY <1>6 DEF QueueFinalizer, OpStart, OpResume, OpFinalize, OpWake, OpWoken, OpDetach, BoxShaped
<1>7. CASE OpAct
  <2>1. \/ UNCHANGED <<rows, box>>
        \/ \E s, n : /\ \E x : rows' = WithStatus(rows, x, Target.to)
                     /\ box' = Set(s, n, Target.to)
                     /\ box[s][n] \in Target.from
    BY <1>7 DEF OpAct
  <2>2. Target.to \in Container
    BY <1>7 DEF OpAct, OpKinds, Target, Container
  <2> QED
    BY <2>1, <2>2, WithStatusRows, SetBox DEF BoxShaped
<1>8. CASE OpRemove
  <2>1. UNCHANGED rows /\ (box' = box \/ \E s, n : box' = Set(s, n, NoContainer))
    BY <1>8 DEF OpRemove
  <2> QED
    BY <1>0, <2>1, SetBox DEF BoxShaped
<1>9. CASE OpDelete
  <2>1. UNCHANGED box /\ (rows' = rows \/ rows' = <<>>)
    BY <1>9 DEF OpDelete
  <2>2. <<>> \in Seq({}) /\ DOMAIN <<>> = {}
    OBVIOUS
  <2>3. RowsShaped(<<>>)
    BY <2>2 DEF RowsShaped
  <2> QED
    BY <2>1, <2>3 DEF BoxShaped
<1> QED
  BY <1>1, <1>2, <1>3, <1>4, <1>5, <1>6, <1>7, <1>8, <1>9 DEF WakingStep, OperationStep

LEMMA WorldShapes ==
  ASSUME ShapeInv,
         \/ Enqueue \/ RequestWake \/ EditDesired \/ Quiet
         \/ ServerLost \/ ServerReturns \/ ServerMissing \/ ContainerDies \/ Crash
  PROVE  ShapeInv'
<1> USE DEF ShapeInv
<1>0. {"stopped", NoContainer} \subseteq Container
  BY DEF Container
<1>1. CASE Enqueue \/ RequestWake \/ Quiet \/ ServerReturns \/ Crash
  BY <1>1 DEF Enqueue, RequestWake, Quiet, ServerReturns, Crash, BoxShaped
<1>2. CASE EditDesired
  BY <1>2, OutdatedRows DEF EditDesired, SetDesired, BoxShaped
<1>3. CASE ServerLost
  <2>1. PICK s \in Server : rows' = [i \in DOMAIN rows |->
                  IF rows[i].on = s THEN [rows[i] EXCEPT !.st = "unhealthy"] ELSE rows[i]]
    BY <1>3 DEF ServerLost
  <2>2. RowsShaped(rows')
    BY <2>1, LostRows
  <2> QED
    BY <1>3, <2>2 DEF ServerLost, BoxShaped
<1>4. CASE ServerMissing
  <2>1. PICK s \in Server : box' = [box EXCEPT ![s] = [n \in Name |-> NoContainer]]
    BY <1>4 DEF ServerMissing
  <2> QED
    BY <1>0, <1>4, <2>1 DEF ServerMissing, BoxShaped
<1>5. CASE ContainerDies
  <2>1. \E s, n : box' = Set(s, n, "stopped")
    BY <1>5 DEF ContainerDies
  <2> QED
    BY <1>0, <1>5, <2>1, SetBox DEF ContainerDies, BoxShaped
<1> QED
  BY <1>1, <1>2, <1>3, <1>4, <1>5

LEMMA NextKinds ==
  ASSUME LockInv, OpKinds, [Next]_vars
  PROVE  OpKinds'
<1> USE OpFields DEF OpKinds
<1>1. CASE UNCHANGED op
  BY <1>1
<1>2. CASE Enqueue
  <2>1. PICK k \in Kind : op' = [op EXCEPT !.kind = k, !.pc = "pending"]
    BY <1>2 DEF Enqueue, Queued
  <2> QED
    BY <2>1 DEF LockInv, Shaped
<1>3. CASE RequestWake \/ QueueFinalizer
  <2>1. \/ UNCHANGED op
        \/ \E k \in {"wake", "destroy_app"} :
             LET q == [op EXCEPT !.kind = k, !.pc = "pending"]
             IN  op' = q \/ op' = [q EXCEPT !.keyed = TRUE]
    BY <1>3 DEF RequestWake, QueueFinalizer, Queued
  <2>2. op' = op \/ (op'.pc = "pending" /\ op'.kind \in {"wake", "destroy_app"})
    BY <2>1 DEF LockInv, Shaped
  <2> QED
    BY <2>2 DEF Kind
<1>4. CASE \E k \in BOOLEAN : op' = [NoOp EXCEPT !.keyed = k]
  BY <1>4 DEF NoOp
<1>5. CASE OpEnds
  <2>1. op' = [NoOp EXCEPT !.keyed = op.keyed]
    BY <1>5 DEF OpEnds
  <2>2. op'.pc = "none"
    BY <2>1 DEF NoOp
  <2> QED
    BY <2>2
<1>6. CASE OpStart
  <2>1. CASE op' = [op EXCEPT !.pc = FirstPc, !.todo = Ids, !.live = TRUE]
    <3> DEFINE pc == FirstPc
               names == Ids
    <3>1. op' = [op EXCEPT !.pc = pc, !.todo = names, !.live = TRUE]
      BY <2>1
    <3>2. pc = "acting" => op.kind \notin {"wake", "destroy_app"}
      BY DEF FirstPc
    <3>4. pc # "pending"
      BY DEF FirstPc
    <3> HIDE DEF pc, names
    <3>3. op'.pc = pc /\ op'.kind = op.kind
      BY <3>1 DEF LockInv, Shaped
    <3> QED
      BY <1>6, <3>2, <3>3, <3>4 DEF OpStart, Kind
  <2> QED
    BY <1>5, <1>6, <2>1 DEF OpStart
<1>7. CASE OpResume \/ OpAct \/ OpWake \/ OpRemove \/ OpDetach \/ Crash
  <2>1. op'.kind = op.kind /\ (op'.pc = op.pc \/ op'.pc \notin {"pending", "acting"})
    <3>1. CASE OpResume \/ Crash
      BY <1>7, <3>1 DEF OpResume, Crash, LockInv, Shaped
    <3>2. CASE OpAct
      BY <1>7, <3>2 DEF OpAct, LockInv, Shaped
    <3>3. CASE OpWake \/ OpRemove \/ OpDetach
      BY <1>7, <3>3 DEF OpWake, OpRemove, OpDetach, LockInv, Shaped
    <3> QED
      BY <1>7, <3>1, <3>2, <3>3
  <2> QED
    BY <2>1
<1>8. CASE WakeStart \/ WakeProbe \/ WakeAttest
  <2>1. UNCHANGED op \/ \E ok \in BOOLEAN : WakeReturns(ok)
    BY <1>8 DEF WakeStart, WakeProbe, WakeAttest, WakeFails
  <2>2. UNCHANGED op \/ \E pc \in {"woken", "failed"} : op' = [op EXCEPT !.pc = pc]
    BY <2>1 DEF WakeReturns
  <2>3. ASSUME NEW pc \in {"woken", "failed"}, op' = [op EXCEPT !.pc = pc]
        PROVE  op'.pc = pc
    BY <2>3 DEF LockInv, Shaped
  <2> QED
    BY <2>2, <2>3
<1>9. CASE TickStep
  BY <1>1, <1>9 DEF TickStep, TickStart, Probe, Judge, Restart, Recreate, Propagate, Autoscale,
     ConvergeStart, Grow, GrowCheck, GrowAttest, Undo, Drain, Stop, Finish
<1>10. CASE WakingStep
  BY <1>1, <1>8, <1>10 DEF WakingStep, Connect, WakerLocks, WakerGivesUp, RuntimeStart,
     RuntimeAttest, SweepToSleeping
<1>11. CASE OperationStep
  BY <1>3, <1>5, <1>6, <1>7, <1>11 DEF OperationStep, OpFinalize, OpWoken, OpDelete
<1>12. CASE EditDesired \/ Quiet \/ ServerLost \/ ServerReturns \/ ServerMissing \/ ContainerDies
  BY <1>1, <1>12 DEF EditDesired, Quiet, ServerLost, ServerReturns, ServerMissing, ContainerDies
<1> QED
  BY <1>1, <1>2, <1>3, <1>7, <1>9, <1>10, <1>11, <1>12 DEF Next, PanelStep, vars

LEMMA InitShapes == Init => ShapeInv /\ OpKinds
<1> SUFFICES ASSUME Init PROVE ShapeInv /\ OpKinds
  OBVIOUS
<1>1. PICK s \in Server :
        /\ rows = <<[name |-> 0, on |-> s, st |-> "running", match |-> TRUE, ticks |-> 0]>>
        /\ box = [x \in Server |-> [n \in Name |->
                    IF x = s /\ n = 0 THEN "running" ELSE NoContainer]]
        /\ op = NoOp
  BY DEF Init
<1>2. BoxShaped
  BY <1>1 DEF BoxShaped, Container
<1> DEFINE r == [name |-> 0, on |-> s, st |-> "running", match |-> TRUE, ticks |-> 0]
<1>3. DOMAIN r = RowFields
  BY DEF RowFields
<1>4. rows = <<r>>
  BY <1>1
<1> HIDE DEF r
<1>5. RowsShaped(<<r>>)
  <2>1. <<r>> \in Seq({r}) /\ DOMAIN <<r>> = 1 .. 1 /\ <<r>>[1] = r
    OBVIOUS
  <2>2. \A i \in DOMAIN <<r>> : <<r>>[i] = r
    BY <2>1
  <2> QED
    BY <1>3, <2>1, <2>2 DEF RowsShaped
<1>6. OpKinds
  BY <1>1 DEF OpKinds, NoOp
<1> QED
  BY <1>2, <1>4, <1>5, <1>6 DEF ShapeInv

LEMMA NextShapes ==
  ASSUME LockInv, ShapeInv, OpKinds, [Next]_vars
  PROVE  ShapeInv' /\ OpKinds'
<1>1. CASE UNCHANGED vars
  BY <1>1, NextKinds DEF vars, ShapeInv, BoxShaped
<1>2. CASE Next
  BY <1>2, NextKinds, TickShapes, OtherShapes, WorldShapes DEF Next, PanelStep
<1> QED
  BY <1>1, <1>2

-----------------------------------------------------------------------------
(* Falling asleep. *)

(* No replica is desired of an app within its idle window, also by the     *)
(* convergence in progress.                                                *)
Rested ==
  /\ app.desired = 0 => ~app.recent
  /\ tick.pc \in Converging /\ tick.want = 0 => ~app.recent

(* The autoscaler and users desire no replica only of a quiet app.         *)
LEMMA TargetsAreRested ==
  ASSUME ShapeInv, NEW d \in AutoscaleTargets, d = 0
  PROVE  ~app.recent
<1> DEFINE alive == {i \in DOMAIN rows : rows[i].st # "stopped"}
           count == Cardinality(alive)
<1>1. alive \in SUBSET DOMAIN rows /\ IsFiniteSet(DOMAIN rows)
  BY RowsDomain DEF ShapeInv
<1>2. count \in Nat
  BY <1>1, FS_Subset, FS_CardinalityType
<1>3. d \in (count + 1 .. EffectiveMax) \cup (1 .. count - 1)
              \cup (IF count = 1 /\ ~app.recent THEN {0} ELSE {})
  BY DEF AutoscaleTargets
<1> HIDE DEF count
<1> QED
  BY <1>2, <1>3

LEMMA TargetsAreNumbers ==
  ASSUME ShapeInv, NEW d \in AutoscaleTargets
  PROVE  d \in Nat
<1> DEFINE count == Cardinality({i \in DOMAIN rows : rows[i].st # "stopped"})
<1>1. {i \in DOMAIN rows : rows[i].st # "stopped"} \in SUBSET DOMAIN rows /\ IsFiniteSet(DOMAIN rows)
  BY RowsDomain DEF ShapeInv
<1>2. count \in Nat
  BY <1>1, FS_Subset, FS_CardinalityType
<1>3. d \in (count + 1 .. EffectiveMax) \cup (1 .. count - 1) \cup {0}
  BY DEF AutoscaleTargets
<1>4. EffectiveMax \in Nat
  BY AppAssumption DEF AppAssumption, EffectiveMax
<1> HIDE DEF count
<1> QED
  BY <1>2, <1>3, <1>4

LEMMA SameAppRests ==
  ASSUME LockInv, Rested, app'.desired = app.desired, app'.recent = app.recent,
         tick'.pc \in Converging => tick.pc \in Converging /\ tick'.want = tick.want
  PROVE  Rested'
  BY DEF Rested

(* A tick does not converge before its last part.                          *)
LEMMA HealthStaysOut ==
  ASSUME LockInv, TickStart \/ Probe \/ Judge \/ Restart \/ Recreate \/ Propagate \/ Autoscale
  PROVE  tick'.pc \notin Converging
<1> USE TickFields
<1>1. CASE TickStart
  BY <1>1 DEF TickStart, IdleTick, Converging
<1>2. CASE Probe
  BY <1>2 DEF LockInv, Shaped, Probe, Converging
<1>3. CASE Judge
  <2>1. \/ tick' = Probed(tick)
        \/ tick' = [tick EXCEPT !.pc = "restart"]
    BY <1>3 DEF Judge
  <2> QED
    BY <2>1 DEF LockInv, Shaped, Probed, Converging
<1>4. CASE Restart \/ Recreate \/ Propagate
  BY <1>4 DEF LockInv, Shaped, Restart, Recreate, Propagate, Probed, Converging
<1>5. CASE Autoscale
  BY <1>5 DEF LockInv, Shaped, Autoscale, Converging
<1> QED
  BY <1>1, <1>2, <1>3, <1>4, <1>5

LEMMA TickRests ==
  ASSUME LockInv, ShapeInv, Rested, TickStep
  PROVE  Rested'
<1> USE TickFields
<1>1. CASE TickStart \/ Probe \/ Judge \/ Restart \/ Recreate \/ Propagate
  <2>1. app'.desired = app.desired /\ app'.recent = app.recent
    BY <1>1 DEF TickStart, Probe, Judge, Restart, Recreate, Propagate, LockInv, Shaped
  <2>2. tick'.pc \notin Converging
    BY <1>1, HealthStaysOut
  <2> QED
    BY <2>1, <2>2, SameAppRests
<1>2. CASE Autoscale
  <2>1. tick'.pc \notin Converging
    BY <1>2 DEF Autoscale, LockInv, Shaped, Converging
  <2>2. \/ app' = app
        \/ \E d \in AutoscaleTargets : app' = [app EXCEPT !.desired = d, !.rolled = FALSE]
    BY <1>2 DEF Autoscale, SetDesired, WithDesired
  <2>3. CASE app' = app
    BY <2>1, <2>3 DEF Rested
  <2>4. ASSUME NEW d \in AutoscaleTargets, app' = [app EXCEPT !.desired = d, !.rolled = FALSE]
        PROVE  Rested'
    <3>1. app'.desired = d /\ app'.recent = app.recent
      BY <2>4 DEF LockInv, Shaped
    <3> QED
      BY <2>1, <3>1, TargetsAreRested DEF Rested
  <2> QED
    BY <2>2, <2>3, <2>4
<1>3. CASE ConvergeStart
  <2>1. app' = app /\ (tick'.pc \in Converging => tick'.want = Wanted)
    <3> DEFINE w == Wanted
               o == IdsOf(Current)
               l == Ids \ IdsOf(Current)
               c == Cardinality(Current)
               v == Removals
               begun == [tick EXCEPT !.want = w, !.orig = o, !.lost = l, !.count = c,
                               !.current = TRUE, !.todo = {}, !.seen = {}]
    <3>1. /\ app' = app
          /\ \/ tick' = IdleTick
             \/ tick' = [begun EXCEPT !.pc = "grow"]
             \/ tick' = [begun EXCEPT !.pc = "drain", !.victims = v]
             \/ tick' = [begun EXCEPT !.pc = "finish"]
      BY <1>3 DEF ConvergeStart
    <3> HIDE DEF w, o, l, c, v
    <3>2. begun.want = w /\ DOMAIN begun = DOMAIN tick
      BY DEF LockInv, Shaped
    <3> HIDE DEF begun
    <3>3. tick' = IdleTick \/ tick'.want = w
      BY <3>1, <3>2 DEF LockInv, Shaped
    <3>4. IdleTick.pc \notin Converging
      BY DEF IdleTick, Converging
    <3> QED
      BY <3>1, <3>3, <3>4 DEF w
  <2>2. Wanted = 0 => app.desired = 0
    BY DEF Wanted
  <2> QED
    BY <2>1, <2>2 DEF Rested
<1>4. CASE Grow \/ GrowCheck \/ GrowAttest
  <2>1. /\ app' = app /\ tick.pc \in Converging
        /\ \E r, l, n : tick' = [tick EXCEPT !.pc = r, !.at = l, !.on = n]
                     \/ tick' = [tick EXCEPT !.pc = r]
                     \/ \E k : tick' = [tick EXCEPT !.pc = r, !.count = k, !.at = l, !.on = n]
    <3>1. CASE Grow
      BY <3>1 DEF Grow, GiveUp, Converging
    <3>2. CASE GrowCheck
      BY <3>2 DEF GrowCheck, GiveUp, Converging
    <3>3. CASE GrowAttest
      <4>1. /\ app' = app /\ tick.pc = "attest"
            /\ \/ tick' = [tick EXCEPT !.pc = IF tick.count + 1 < tick.want THEN "grow" ELSE "finish",
                                       !.count = @ + 1, !.at = None, !.on = None]
               \/ tick' = [tick EXCEPT !.pc = "undo", !.at = None, !.on = None]
        BY <3>3 DEF GrowAttest, GiveUp
      <4>2. [tick EXCEPT !.pc = IF tick.count + 1 < tick.want THEN "grow" ELSE "finish",
                         !.count = @ + 1, !.at = None, !.on = None]
            = [tick EXCEPT !.pc = IF tick.count + 1 < tick.want THEN "grow" ELSE "finish",
                           !.count = tick.count + 1, !.at = None, !.on = None]
        BY DEF LockInv, Shaped
      <4>3. CASE tick' = [tick EXCEPT !.pc = IF tick.count + 1 < tick.want THEN "grow" ELSE "finish",
                                      !.count = tick.count + 1, !.at = None, !.on = None]
        <5> DEFINE r == IF tick.count + 1 < tick.want THEN "grow" ELSE "finish"
                   k == tick.count + 1
        <5>1. tick' = [tick EXCEPT !.pc = r, !.count = k, !.at = None, !.on = None]
          BY <4>3
        <5> HIDE DEF r, k
        <5> QED
          BY <4>1, <5>1 DEF Converging
      <4>4. CASE tick' = [tick EXCEPT !.pc = "undo", !.at = None, !.on = None]
        BY <4>1, <4>4 DEF Converging
      <4> QED
        BY <4>1, <4>2, <4>3, <4>4
    <3> QED
      BY <1>4, <3>1, <3>2, <3>3
  <2>2. tick'.want = tick.want
    BY <2>1 DEF LockInv, Shaped
  <2> QED
    BY <2>1, <2>2, SameAppRests
<1>5. CASE Undo \/ Finish
  BY <1>5, SameAppRests DEF Undo, Finish, EndTick, IdleTick, Converging
<1>6. CASE Drain
  BY <1>6, SameAppRests DEF Drain, LockInv, Shaped, Converging
<1>7. CASE Stop
  <2>0. tick.pc \in Converging
    BY <1>7 DEF Stop, Converging
  <2>1. CASE \E ok \in BOOLEAN : RemoveReplica(ok)
    <3>1. app' = app /\ \E r, v, c : tick' = [tick EXCEPT !.pc = r, !.victims = v, !.count = c]
      <4>1. app' = app /\ tick' = [tick EXCEPT !.pc = IF Len(tick.victims) > 1 THEN "drain" ELSE "finish",
                             !.victims = Tail(@), !.count = @ - 1]
        BY <2>1 DEF RemoveReplica
      <4>2. [tick EXCEPT !.pc = IF Len(tick.victims) > 1 THEN "drain" ELSE "finish",
                             !.victims = Tail(@), !.count = @ - 1]
            = [tick EXCEPT !.pc = IF Len(tick.victims) > 1 THEN "drain" ELSE "finish",
                             !.victims = Tail(tick.victims), !.count = tick.count - 1]
        BY DEF LockInv, Shaped
      <4> QED
        BY <4>1, <4>2
    <3>2. tick'.want = tick.want
      BY <3>1 DEF LockInv, Shaped
    <3> QED
      BY <2>0, <3>1, <3>2, SameAppRests
  <2>2. CASE tick.want = 0 /\ \E ok \in BOOLEAN : StopAnchor(ok)
    <3>1. ~app.recent
      BY <2>0, <2>2 DEF Rested
    <3>2. app'.recent = app.recent
      BY <2>2 DEF StopAnchor, WithDesired, LockInv, Shaped
    <3> QED
      BY <3>1, <3>2 DEF Rested
  <2> QED
    BY <1>7, <2>1, <2>2 DEF Stop
<1> QED
  BY <1>1, <1>2, <1>3, <1>4, <1>5, <1>6, <1>7 DEF TickStep

LEMMA OtherRests ==
  ASSUME LockInv, Rested, WakingStep \/ OperationStep
  PROVE  Rested'
<1>0. UNCHANGED tick
  BY DEF WakingStep, OperationStep, Connect, WakerLocks, WakerGivesUp, WakeStart, WakeProbe, WakeAttest,
     RuntimeStart, RuntimeAttest, SweepToSleeping, QueueFinalizer, OpStart, OpResume, OpAct, OpFinalize,
     OpWake, OpWoken, OpRemove, OpDetach, OpDelete
<1>1. CASE app'.desired = app.desired /\ app'.recent = app.recent
  BY <1>0, <1>1 DEF Rested
<1>2. CASE WakeAttest
  <2>1. app' = Woken \/ app' = [app EXCEPT !.st = "error"]
    BY <1>2 DEF WakeAttest, WakeFails
  <2>2. CASE app' = Woken
    <3>1. app'.desired = 1
      BY <2>2 DEF Woken, WithDesired, LockInv, Shaped
    <3>2. tick.pc \notin Converging
      BY <1>2, AppAssumption DEF WakeAttest, LockInv, Alone, AppAssumption
    <3> QED
      BY <1>0, <3>1, <3>2 DEF Rested
  <2>3. CASE app' = [app EXCEPT !.st = "error"]
    BY <1>1, <2>3 DEF LockInv, Shaped
  <2> QED
    BY <2>1, <2>2, <2>3
<1>3. CASE WakingStep /\ ~WakeAttest
  BY <1>1, <1>3 DEF WakingStep, Connect, WakerLocks, WakerGivesUp, WakeStart, WakeProbe, WakeFails,
     WakeBegins, RuntimeStart, RuntimeAttest, SweepToSleeping, LockInv, Shaped
<1>4. CASE OperationStep
  <2>1. \/ app' = app
        \/ \E st : app' = [app EXCEPT !.st = st] \/ app' = [app EXCEPT !.deleted = TRUE, !.st = st]
                 \/ app' = [app EXCEPT !.st = st, !.bed = None]
    BY <1>4 DEF OperationStep, QueueFinalizer, OpStart, OpResume, OpAct, OpFinalize,
       OpWake, OpWoken, OpRemove, OpDetach, OpDelete, WakeBegins
  <2> QED
    BY <1>1, <2>1 DEF LockInv, Shaped
<1> QED
  BY <1>2, <1>3, <1>4

LEMMA WorldRests ==
  ASSUME LockInv, Rested,
         \/ Enqueue \/ RequestWake \/ EditDesired \/ Quiet
         \/ ServerLost \/ ServerReturns \/ ServerMissing \/ ContainerDies \/ Crash
  PROVE  Rested'
<1>1. CASE EditDesired
  <2>1. PICK d \in 1 .. MaxReplicas : /\ app' = [app EXCEPT !.desired = d, !.rolled = FALSE]
                                      /\ tick' = [tick EXCEPT !.current = FALSE]
    BY <1>1 DEF EditDesired, SetDesired, WithDesired
  <2>2. app'.desired # 0 /\ app'.recent = app.recent /\ tick'.pc = tick.pc /\ tick'.want = tick.want
    BY <2>1, TickFields DEF LockInv, Shaped
  <2> QED
    BY <2>2 DEF Rested
<1>2. CASE Quiet
  BY <1>2 DEF Quiet, LockInv, Shaped, Rested
<1>3. CASE Crash
  BY <1>3 DEF Crash, IdleTick, Converging, Rested
<1>4. CASE Enqueue \/ RequestWake \/ ServerLost \/ ServerReturns \/ ServerMissing \/ ContainerDies
  BY <1>4 DEF Enqueue, RequestWake, ServerLost, ServerReturns, ServerMissing, ContainerDies, Rested
<1> QED
  BY <1>1, <1>2, <1>3, <1>4

LifeInv == LockInv /\ ShapeInv /\ OpKinds /\ Rested

LEMMA InitLife == Init => LifeInv
<1> SUFFICES ASSUME Init PROVE LifeInv
  OBVIOUS
<1>1. app.desired = 1 /\ tick.pc = "idle"
  BY DEF Init, IdleTick
<1> QED
  BY <1>1, InitLocks, InitShapes DEF LifeInv, Rested, Converging

LEMMA NextLife == LifeInv /\ [Next]_vars => LifeInv'
<1> SUFFICES ASSUME LifeInv, [Next]_vars PROVE LifeInv'
  OBVIOUS
<1>1. LockInv' /\ ShapeInv' /\ OpKinds'
  BY NextLocks, NextShapes DEF LifeInv
<1>2. CASE UNCHANGED vars
  BY <1>1, <1>2 DEF LifeInv, vars, Rested
<1>3. CASE Next
  BY <1>1, <1>3, TickRests, OtherRests, WorldRests DEF LifeInv, Next, PanelStep
<1> QED
  BY <1>2, <1>3

LEMMA LifeHolds == Spec => []LifeInv
  BY InitLife, NextLife, PTL DEF Spec

(* A wake and a convergence exclude each other. *)
LEMMA NoTickWhileWaking ==
  ASSUME LifeInv, wake.pc # "idle" \/ op.live
  PROVE  tick.pc \notin Converging
  BY AppAssumption DEF LifeInv, LockInv, Alone, AppAssumption

-----------------------------------------------------------------------------
(* No two rows of one identity, so that a replica that scaleDown has still *)
(* to remove is there when its turn comes.                                 *)
Apart(rs) == \A i, j \in DOMAIN rs : Id(rs[i]) = Id(rs[j]) => i = j

(* Rows are entered under an identity that is free.                        *)
AddsNew ==
  /\ tick.pc = "check" => Examined \notin Ids
  /\ wake.pc = "probe" /\ ~wake.kept => <<0, wake.on>> \notin Ids

(* scaleDown goes through replicas that are there, one after the other,    *)
(* and the one it is about to stop is drained, or lost with its server.    *)
Chosen ==
  tick.pc \in {"drain", "stop"} =>
    /\ \E S : tick.victims \in Seq(S)
    /\ Len(tick.victims) >= 1 /\ tick.count \in Nat /\ Len(tick.victims) <= tick.count
    /\ \A k \in DOMAIN tick.victims : tick.victims[k] \in Ids
    /\ \A k, l \in DOMAIN tick.victims : tick.victims[k] = tick.victims[l] => k = l
Drained ==
  tick.pc = "stop" =>
    \A i \in DOMAIN rows : Id(rows[i]) = Head(tick.victims) => rows[i].st # "stopped"

Listed == Apart(rows) /\ AddsNew /\ Chosen /\ Drained /\ app.desired \in Nat

LEMMA SameIds ==
  ASSUME Same(rows, rows') PROVE Ids' = Ids /\ (Apart(rows) => Apart(rows'))
<1>1. \A i \in DOMAIN rows : Id(rows'[i]) = Id(rows[i])
  BY DEF Same, Id
<1>2. DOMAIN rows' = DOMAIN rows
  BY DEF Same
<1> QED
  BY <1>1, <1>2 DEF Ids, IdsOf, Apart

LEMMA WithoutKeeps ==
  ASSUME NEW rs, RowsShaped(rs), Apart(rs), NEW ids
  PROVE  LET qs == Without(rs, ids)
         IN  Apart(qs) /\ \A i \in DOMAIN rs : Id(rs[i]) \notin ids => \E k \in DOMAIN qs : qs[k] = rs[i]
<1> DEFINE kept == {i \in DOMAIN rs : Id(rs[i]) \notin ids}
           n == Cardinality(kept)
           at(k) == Ranked(kept, Earlier, k)
           qs == Without(rs, ids)
<1>1. kept \in SUBSET DOMAIN rs /\ kept \in SUBSET Nat /\ IsFiniteSet(kept)
  <2>1. DOMAIN rs = 1 .. Len(rs) /\ Len(rs) \in Nat /\ IsFiniteSet(DOMAIN rs)
    BY RowsDomain
  <2>2. kept \in SUBSET DOMAIN rs
    OBVIOUS
  <2> HIDE DEF kept
  <2> QED
    BY <2>1, <2>2, FS_Subset
<1>2. qs = [k \in 1 .. n |-> rs[at(k)]]
  BY DEF Without
<1>3. \A i \in DOMAIN rs : Id(rs[i]) \notin ids => i \in kept
  OBVIOUS
<1> HIDE DEF kept, qs
<1>4. \A k \in 1 .. n : at(k) \in kept /\ Cardinality({j \in kept : Earlier(j, at(k))}) = k - 1
  BY <1>1, EveryRankIsTaken
<1>5. \A i \in kept : \E k \in 1 .. n : at(k) = i
  BY <1>1, EveryRankIsTaken
<1>6. \A k, l \in 1 .. n : at(k) = at(l) => k = l
  <2> SUFFICES ASSUME NEW k \in 1 .. n, NEW l \in 1 .. n, at(k) = at(l) PROVE k = l
    OBVIOUS
  <2>1. k - 1 = l - 1
    BY <1>4
  <2>2. n \in Nat
    BY <1>1, FS_CardinalityType
  <2> HIDE DEF n, at
  <2> QED
    BY <2>1, <2>2
<1> HIDE DEF n, at
<1>7. Apart(qs)
  BY <1>1, <1>2, <1>4, <1>6 DEF Apart
<1>8. \A i \in DOMAIN rs : Id(rs[i]) \notin ids => \E k \in DOMAIN qs : qs[k] = rs[i]
  BY <1>2, <1>3, <1>5
<1> USE DEF qs
<1> QED
  BY <1>7, <1>8

(* Whoever does not work on the replicas changes no more than what is said *)
(* of them.                                                                *)
LEMMA OthersList ==
  ASSUME Listed, Same(rows, rows'), app'.desired \in Nat,
         tick'.pc = tick.pc, tick'.at = tick.at, tick'.on = tick.on, tick'.victims = tick.victims,
         tick'.count = tick.count,
         wake'.pc = wake.pc, wake'.on = wake.on, wake'.kept = wake.kept,
         tick.pc = "stop" =>
           \A i \in DOMAIN rows : rows'[i].st \in {rows[i].st, "unhealthy"}
  PROVE  Listed'
<1>1. Ids' = Ids /\ Apart(rows')
  BY SameIds DEF Listed
<1>2. DOMAIN rows' = DOMAIN rows /\ \A i \in DOMAIN rows : Id(rows'[i]) = Id(rows[i])
  BY DEF Same, Id
<1>3. AddsNew'
  BY <1>1 DEF Listed, AddsNew, Examined
<1>4. Chosen'
  BY <1>1 DEF Listed, Chosen
<1>5. Drained'
  BY <1>2 DEF Listed, Drained
<1> QED
  BY <1>1, <1>3, <1>4, <1>5 DEF Listed

(* While the tick does not scale down and no row is about to be entered.   *)
LEMMA NothingChosen ==
  ASSUME Apart(rows'), app'.desired \in Nat, tick'.pc \notin {"check", "drain", "stop"},
         wake'.pc # "probe" \/ (wake'.kept = wake.kept /\ wake'.on = wake.on /\ wake.pc = "probe" /\ Ids' \subseteq Ids),
         AddsNew
  PROVE  Listed'
<1>1. AddsNew'
  BY DEF AddsNew
<1>2. Chosen' /\ Drained'
  BY DEF Chosen, Drained
<1> QED
  BY <1>1, <1>2 DEF Listed

LEMMA RemovalsAreThere ==
  ASSUME ShapeInv, Apart(rows), Wanted \in Nat, Cardinality(Current) > Wanted
  PROVE  /\ \E S : Removals \in Seq(S)
         /\ Len(Removals) = Cardinality(Current) - Wanted /\ Cardinality(Current) \in Nat
         /\ \A k \in DOMAIN Removals : Removals[k] \in Ids
         /\ \A k, l \in DOMAIN Removals : Removals[k] = Removals[l] => k = l
<1> DEFINE I == Current
           B == {p \in I \X I : Sooner(p[1], p[2])}
           n == Cardinality(I)
           m == Cardinality(Current) - Wanted
           at(k) == Ranked(Current, Sooner, k)
           rank(i) == Cardinality({j \in I : Sooner(j, i)})
<1>1. I \in SUBSET DOMAIN rows /\ I \in SUBSET Nat /\ IsFiniteSet(I) /\ n \in Nat
  <2>1. DOMAIN rows = 1 .. Len(rows) /\ Len(rows) \in Nat /\ IsFiniteSet(DOMAIN rows)
    BY RowsDomain DEF ShapeInv
  <2>2. I \in SUBSET DOMAIN rows
    BY DEF Current
  <2> HIDE DEF I
  <2> QED
    BY <2>1, <2>2, FS_Subset, FS_CardinalityType
<1>2. Removals = [k \in 1 .. m |-> Id(rows[at(k)])]
  BY DEF Removals
<1>3. m \in Nat /\ m <= n
  BY <1>1
<1>4. \A i \in I : {j \in I : <<j, i>> \in B} = {j \in I : Sooner(j, i)}
  OBVIOUS
<1>5. /\ \A i \in I : <<i, i>> \notin B
      /\ \A i, j, k \in I : <<i, j>> \in B /\ <<j, k>> \in B => <<i, k>> \in B
      /\ \A i, j \in I : i = j \/ <<i, j>> \in B \/ <<j, i>> \in B
      /\ B \in SUBSET (I \X I)
  <2>1. \A i \in I : i \in Nat
    BY <1>1
  <2> HIDE DEF I
  <2> QED
    BY <2>1 DEF Sooner
<1>6. \A k : at(k) = CHOOSE i \in I : rank(i) = k - 1
  BY DEF Ranked
<1> HIDE DEF B, I
<1>7. \A k \in 1 .. n : \E i \in I : Cardinality({j \in I : <<j, i>> \in B}) = k - 1
  <2>1. /\ \A k \in 1 .. Cardinality(I) : \E i \in I : Cardinality({j \in I : <<j, i>> \in B}) = k - 1
        /\ \A i \in I : Cardinality({j \in I : <<j, i>> \in B}) \in 0 .. Cardinality(I) - 1
        /\ \A i, j \in I : Cardinality({x \in I : <<x, i>> \in B}) = Cardinality({x \in I : <<x, j>> \in B})
                              => i = j
    BY <1>1, <1>5, RanksAreTaken, Zenon
  <2> QED
    BY <2>1
<1>8. \A k \in 1 .. n : \E i \in I : rank(i) = k - 1
  BY <1>4, <1>7
<1> HIDE DEF rank
<1>9. \A k \in 1 .. n : at(k) \in I /\ rank(at(k)) = k - 1
  BY <1>6, <1>8
<1>10. \A k \in 1 .. m : at(k) \in I /\ rank(at(k)) = k - 1
  BY <1>1, <1>3, <1>9
<1> HIDE DEF n, m, at
<1>11. \A k, l \in 1 .. m : at(k) = at(l) => k = l
  <2> SUFFICES ASSUME NEW k \in 1 .. m, NEW l \in 1 .. m, at(k) = at(l) PROVE k = l
    OBVIOUS
  <2>1. k - 1 = l - 1
    BY <1>10
  <2> QED
    BY <1>3, <2>1
<1>12. \A k \in 1 .. m : Id(rows[at(k)]) \in Ids
  BY <1>1, <1>10 DEF Ids, IdsOf
<1>13. \A k, l \in 1 .. m : Id(rows[at(k)]) = Id(rows[at(l)]) => k = l
  BY <1>1, <1>10, <1>11 DEF Apart
<1> DEFINE v == Removals
<1>14. v \in [1 .. m -> Ids] /\ DOMAIN v = 1 .. m
  BY <1>2, <1>12
<1>15. \A k, l \in 1 .. m : v[k] = v[l] => k = l
  BY <1>2, <1>13
<1> HIDE DEF v
<1>16. v \in Seq(Ids) /\ Len(v) = m
  BY <1>3, <1>14
<1>17. \A k \in DOMAIN v : v[k] \in Ids
  BY <1>14
<1>18. /\ \E S : v \in Seq(S)
       /\ Len(v) = Cardinality(Current) - Wanted
       /\ \A k, l \in DOMAIN v : v[k] = v[l] => k = l
  BY <1>14, <1>15, <1>16 DEF m
<1> QED
  BY <1>1, <1>17, <1>18 DEF v, n, I

(* A row under a new identity. *)
LEMMA AppendKeepsApart ==
  ASSUME RowsShaped(rows), Apart(rows), NEW n, NEW s, NEW st, <<n, s>> \notin Ids,
         rows' = Append(rows, NewRow(n, s, st))
  PROVE  Apart(rows')
<1> DEFINE r == NewRow(n, s, st)
<1>1. /\ DOMAIN rows' = 1 .. Len(rows) + 1
      /\ rows'[Len(rows) + 1] = r /\ Id(r) = <<n, s>>
      /\ \A i \in DOMAIN rows : rows'[i] = rows[i]
  BY AppendedRows DEF Id
<1>2. Len(rows) \in Nat /\ DOMAIN rows = 1 .. Len(rows)
  BY RowsDomain
<1>3. \A i \in DOMAIN rows : Id(rows[i]) # <<n, s>>
  BY DEF Ids, IdsOf
<1> HIDE DEF r
<1> SUFFICES ASSUME NEW i \in DOMAIN rows', NEW j \in DOMAIN rows', Id(rows'[i]) = Id(rows'[j])
             PROVE  i = j
  BY DEF Apart
<1>4. (i = Len(rows) + 1 \/ i \in DOMAIN rows) /\ (j = Len(rows) + 1 \/ j \in DOMAIN rows)
  BY <1>1, <1>2
<1> QED
  BY <1>1, <1>3, <1>4 DEF Apart

LEMMA InitListed == Init => Listed
<1> SUFFICES ASSUME Init PROVE Listed
  OBVIOUS
<1>1. /\ \E r : rows = <<r>>
      /\ tick.pc = "idle" /\ wake.pc = "idle" /\ app.desired = 1
  BY DEF Init, IdleTick, IdleWake
<1>2. Apart(rows)
  BY <1>1 DEF Apart
<1> QED
  BY <1>1, <1>2 DEF Listed, AddsNew, Chosen, Drained

(* Before it converges, the tick neither enters nor removes a row.         *)
LEMMA HealthLists ==
  ASSUME LifeInv, Listed,
         TickStart \/ Probe \/ Judge \/ Restart \/ Recreate \/ Propagate \/ Autoscale
  PROVE  Listed'
<1> USE TickFields, WakeFields
<1>1. Ids' = Ids /\ Apart(rows')
  BY HealthIsSame, SameIds DEF LifeInv, Listed
<1>2. tick'.pc \notin {"check", "drain", "stop"}
  BY HealthStaysOut DEF LifeInv, Converging
<1>3. wake'.pc = wake.pc /\ wake'.on = wake.on /\ wake'.kept = wake.kept
  BY DEF TickStart, Probe, Judge, Restart, Recreate, Propagate, Autoscale, SetDesired, LifeInv,
     LockInv, Shaped
<1>4. app'.desired \in Nat
  <2>1. CASE Autoscale
    <3>1. CASE UNCHANGED app
      BY <3>1 DEF Listed
    <3>2. CASE \E d \in AutoscaleTargets : SetDesired(d)
      <4>1. PICK d \in AutoscaleTargets : app' = [app EXCEPT !.desired = d, !.rolled = FALSE]
        BY <3>2 DEF SetDesired, WithDesired
      <4>2. app'.desired = d
        BY <4>1 DEF LifeInv, LockInv, Shaped
      <4> QED
        BY <4>2, TargetsAreNumbers DEF LifeInv
    <3> QED
      BY <2>1, <3>1, <3>2 DEF Autoscale
  <2>2. CASE TickStart \/ Probe \/ Judge \/ Restart \/ Recreate \/ Propagate
    <3>1. app'.desired = app.desired
      BY <2>2 DEF TickStart, Probe, Judge, Restart, Recreate, Propagate, LifeInv, LockInv, Shaped
    <3> QED
      BY <3>1 DEF Listed
  <2> QED
    BY <2>1, <2>2
<1> QED
  BY <1>1, <1>2, <1>3, <1>4, NothingChosen DEF Listed

(* The convergence finds the replicas it is to remove.                     *)
LEMMA ConvergeLists ==
  ASSUME LifeInv, Listed, ConvergeStart
  PROVE  Listed'
<1> USE TickFields
<1>1. UNCHANGED <<app, rows, wake>> /\ Ids' = Ids
  BY DEF ConvergeStart, Ids, IdsOf
<1> DEFINE w == Wanted
           o == IdsOf(Current)
           l == Ids \ IdsOf(Current)
           c == Cardinality(Current)
           v == Removals
           begun == [tick EXCEPT !.want = w, !.orig = o, !.lost = l, !.count = c,
                           !.current = TRUE, !.todo = {}, !.seen = {}]
<1>2. \/ tick' = IdleTick
      \/ tick' = [begun EXCEPT !.pc = "grow"]
      \/ c > w /\ tick' = [begun EXCEPT !.pc = "drain", !.victims = v]
      \/ tick' = [begun EXCEPT !.pc = "finish"]
  BY DEF ConvergeStart
<1>3. w \in Nat
  BY DEF Listed, Wanted
<1>4. c > w => /\ \E S : v \in Seq(S)
               /\ Len(v) = c - w /\ c \in Nat
               /\ \A k \in DOMAIN v : v[k] \in Ids
               /\ \A k, m \in DOMAIN v : v[k] = v[m] => k = m
  BY <1>3, RemovalsAreThere DEF LifeInv, Listed
<1> HIDE DEF w, o, l, c, v
<1>5. begun.count = c /\ DOMAIN begun = DOMAIN tick
  BY DEF LifeInv, LockInv, Shaped
<1> HIDE DEF begun
<1>6. CASE c > w /\ tick' = [begun EXCEPT !.pc = "drain", !.victims = v]
  <2>1. tick'.pc = "drain" /\ tick'.victims = v /\ tick'.count = c
    BY <1>5, <1>6 DEF LifeInv, LockInv, Shaped
  <2>2. Len(v) >= 1 /\ Len(v) <= c
    BY <1>3, <1>4, <1>6
  <2>3. Chosen'
    BY <1>1, <1>4, <1>6, <2>1, <2>2 DEF Chosen
  <2>4. AddsNew' /\ Drained'
    BY <1>1, <2>1 DEF Listed, AddsNew, Drained
  <2> QED
    BY <1>1, <2>3, <2>4 DEF Listed
<1>7. CASE tick'.pc \notin {"check", "drain", "stop"}
  BY <1>1, <1>7, NothingChosen DEF Listed
<1> QED
  BY <1>2, <1>5, <1>6, <1>7 DEF LifeInv, LockInv, Shaped, IdleTick

(* Rows are removed: those that are left are rows there were.              *)
LEMMA WithoutIds ==
  ASSUME ShapeInv, Apart(rows), NEW ids, rows' = Without(rows, ids)
  PROVE  Apart(rows') /\ Ids' \subseteq Ids /\ Ids \ ids \subseteq Ids'
<1>1. Apart(rows') /\ \A i \in DOMAIN rows : Id(rows[i]) \notin ids => \E k \in DOMAIN rows' : rows'[k] = rows[i]
  BY WithoutKeeps DEF ShapeInv
<1>2. \A k \in DOMAIN rows' : \E i \in DOMAIN rows : rows'[k] = rows[i]
  BY WithoutRows DEF ShapeInv
<1>3. Ids' = {Id(rows'[k]) : k \in DOMAIN rows'} /\ Ids = {Id(rows[i]) : i \in DOMAIN rows}
  BY DEF Ids, IdsOf
<1> QED
  BY <1>1, <1>2, <1>3

(* Going up: a row is entered for a name that no row has.                  *)
LEMMA GrowthLists ==
  ASSUME LifeInv, Listed, Grow \/ GrowCheck \/ GrowAttest
  PROVE  Listed'
<1> USE TickFields
<1>1. UNCHANGED <<app, wake>> /\ tick.pc \in {"grow", "check", "attest"}
  BY DEF Grow, GrowCheck, GrowAttest
<1>2. wake.pc = "idle"
  BY <1>1, NoTickWhileWaking DEF Converging
<1>3. app'.desired \in Nat /\ wake'.pc = "idle" /\ AddsNew /\ Apart(rows)
  BY <1>1, <1>2 DEF Listed
<1>4. ASSUME NEW s, NEW n, GiveUp(s, n)
      PROVE  Listed'
  <2>1. Apart(rows')
    BY <1>3, <1>4, WithoutIds DEF GiveUp, LifeInv
  <2>2. tick'.pc = "undo"
    BY <1>4 DEF GiveUp, LifeInv, LockInv, Shaped
  <2> QED
    BY <1>3, <2>1, <2>2, NothingChosen
<1>5. CASE Grow
  <2>1. \/ \E s, n : GiveUp(s, n)
        \/ UNCHANGED rows /\ tick' = [tick EXCEPT !.pc = "undo"]
        \/ UNCHANGED rows /\ \E s \in Server, n \in NextNames :
                               tick' = [tick EXCEPT !.pc = "check", !.at = n, !.on = s]
    BY <1>5 DEF Grow
  <2>2. CASE UNCHANGED rows /\ tick' = [tick EXCEPT !.pc = "undo"]
    <3>1. tick'.pc = "undo"
      BY <2>2 DEF LifeInv, LockInv, Shaped
    <3> QED
      BY <1>3, <2>2, <3>1, NothingChosen
  <2>3. ASSUME UNCHANGED rows, NEW s, NEW n \in NextNames,
               tick' = [tick EXCEPT !.pc = "check", !.at = n, !.on = s]
        PROVE  Listed'
    <3>1. tick'.pc = "check" /\ Examined' = <<n, s>> /\ Ids' = Ids
      BY <2>3 DEF LifeInv, LockInv, Shaped, Examined, Ids, IdsOf
    <3>2. <<n, s>> \notin Ids
      <4>1. n \notin {x[1] : x \in Ids}
        BY DEF NextNames
      <4> QED
        BY <4>1
    <3>3. AddsNew'
      BY <1>3, <3>1, <3>2 DEF AddsNew
    <3>4. Chosen' /\ Drained'
      BY <3>1 DEF Chosen, Drained
    <3> QED
      BY <1>3, <2>3, <3>3, <3>4 DEF Listed
  <2> QED
    BY <1>4, <2>1, <2>2, <2>3
<1>6. CASE GrowCheck
  <2>1. \/ GiveUp(tick.on, tick.at)
        \/ /\ rows' = Append(rows, NewRow(tick.at, tick.on, "attesting"))
           /\ tick' = [tick EXCEPT !.pc = "attest"]
    BY <1>6 DEF GrowCheck
  <2>2. CASE /\ rows' = Append(rows, NewRow(tick.at, tick.on, "attesting"))
             /\ tick' = [tick EXCEPT !.pc = "attest"]
    <3>1. tick'.pc = "attest"
      BY <2>2 DEF LifeInv, LockInv, Shaped
    <3>2. <<tick.at, tick.on>> \notin Ids
      BY <1>3, <1>6 DEF GrowCheck, AddsNew, Examined
    <3>3. Apart(rows')
      BY <1>3, <2>2, <3>2, AppendKeepsApart DEF LifeInv, ShapeInv
    <3> QED
      BY <1>3, <3>1, <3>3, NothingChosen
  <2> QED
    BY <1>4, <2>1, <2>2
<1>7. CASE GrowAttest
  <2>1. \/ GiveUp(tick.on, tick.at)
        \/ /\ rows' = Attested(rows, Examined, TRUE, tick.current)
           /\ tick'.pc \in {"grow", "finish"}
    <3>1. \/ GiveUp(tick.on, tick.at)
          \/ /\ rows' = Attested(rows, Examined, TRUE, tick.current)
             /\ tick' = [tick EXCEPT !.pc = IF tick.count + 1 < tick.want THEN "grow" ELSE "finish",
                                     !.count = @ + 1, !.at = None, !.on = None]
      BY <1>7 DEF GrowAttest
    <3>2. [tick EXCEPT !.pc = IF tick.count + 1 < tick.want THEN "grow" ELSE "finish",
                       !.count = @ + 1, !.at = None, !.on = None].pc \in {"grow", "finish"}
      BY DEF LifeInv, LockInv, Shaped
    <3> QED
      BY <3>1, <3>2
  <2>2. CASE rows' = Attested(rows, Examined, TRUE, tick.current) /\ tick'.pc \in {"grow", "finish"}
    <3>1. Same(rows, rows')
      BY <2>2, AttestedRows DEF LifeInv, ShapeInv
    <3>2. Apart(rows')
      BY <1>3, <3>1, SameIds
    <3> QED
      BY <1>3, <2>2, <3>2, NothingChosen
  <2> QED
    BY <1>4, <2>1, <2>2
<1> QED
  BY <1>5, <1>6, <1>7

(* At its end a convergence only removes rows.                             *)
LEMMA EndingLists ==
  ASSUME LifeInv, Listed, Undo \/ Finish
  PROVE  Listed'
<1>1. UNCHANGED <<app, wake>> /\ tick.pc \in Converging /\ tick' = IdleTick
  BY DEF Undo, Finish, EndTick, Converging
<1>2. wake'.pc = "idle" /\ tick'.pc = "idle"
  BY <1>1, NoTickWhileWaking DEF IdleTick
<1>3. rows' = rows \/ \E ids : rows' = Without(rows, ids)
  BY DEF Undo, Finish
<1>4. Apart(rows')
  BY <1>3, WithoutIds DEF LifeInv, Listed
<1> QED
  BY <1>1, <1>2, <1>4, NothingChosen DEF Listed

(* The replica that is about to be stopped is drained first.               *)
LEMMA DrainLists ==
  ASSUME LifeInv, Listed, Drain
  PROVE  Listed'
<1> USE TickFields
<1>1. /\ UNCHANGED <<app, wake>> /\ tick.pc = "drain"
      /\ rows' = WithStatus(rows, Head(tick.victims), "draining")
  BY DEF Drain
<1>2. wake.pc = "idle"
  BY <1>1, NoTickWhileWaking DEF Converging
<1>3. tick'.pc = "stop" /\ tick'.victims = tick.victims /\ tick'.count = tick.count
  BY DEF Drain, LifeInv, LockInv, Shaped
<1>4. Same(rows, rows') /\ \A i \in DOMAIN rows : DOMAIN rows[i] = RowFields
  BY <1>1, WithStatusRows DEF LifeInv, ShapeInv, RowsShaped
<1>5. Ids' = Ids /\ Apart(rows')
  BY <1>4, SameIds DEF Listed
<1>6. Chosen'
  BY <1>1, <1>3, <1>5 DEF Listed, Chosen
<1>7. Drained'
  <2> SUFFICES ASSUME NEW i \in DOMAIN rows', Id(rows'[i]) = Head(tick.victims)
               PROVE  rows'[i].st # "stopped"
    BY <1>3 DEF Drained
  <2>1. i \in DOMAIN rows /\ Id(rows[i]) = Head(tick.victims)
    BY <1>4 DEF Same, Id
  <2>2. rows'[i] = [rows[i] EXCEPT !.st = "draining"]
    BY <1>1, <2>1 DEF WithStatus
  <2> QED
    BY <1>4, <2>1, <2>2 DEF RowFields
<1> QED
  BY <1>1, <1>2, <1>3, <1>5, <1>6, <1>7 DEF Listed, AddsNew

(* What follows the first of the replicas to remove is there without it.   *)
LEMMA StopLists ==
  ASSUME LifeInv, Listed, Stop
  PROVE  Listed'
<1> USE TickFields
<1>1. tick.pc = "stop"
  BY DEF Stop
<1>2. wake.pc = "idle"
  BY <1>1, NoTickWhileWaking DEF Converging
<1>3. /\ \E S : tick.victims \in Seq(S)
      /\ Len(tick.victims) >= 1 /\ tick.count \in Nat /\ Len(tick.victims) <= tick.count
      /\ \A k \in DOMAIN tick.victims : tick.victims[k] \in Ids
      /\ \A k, l \in DOMAIN tick.victims : tick.victims[k] = tick.victims[l] => k = l
      /\ app.desired \in Nat /\ Apart(rows) /\ AddsNew
  BY <1>1 DEF Listed, Chosen
<1>4. CASE \E ok \in BOOLEAN : StopAnchor(ok)
  <2>1. Same(rows, rows')
    <3>1. rows' = Outdated(rows) \/ \E x : rows' = WithStatus(rows, x, "stopped")
      BY <1>4 DEF StopAnchor
    <3> QED
      BY <3>1, OutdatedRows, WithStatusRows DEF LifeInv, ShapeInv
  <2>2. Apart(rows')
    BY <1>3, <2>1, SameIds
  <2>3. tick'.pc \in {"finish", "idle"}
    <3>1. CASE StopAnchor(TRUE)
      <4>1. tick' = [tick EXCEPT !.pc = "finish", !.victims = Tail(@), !.count = @ - 1]
        BY <3>1 DEF StopAnchor
      <4> QED
        BY <4>1 DEF LifeInv, LockInv, Shaped
    <3>2. CASE StopAnchor(FALSE)
      <4>1. tick' = IdleTick
        BY <3>2 DEF StopAnchor, EndTick
      <4> QED
        BY <4>1 DEF IdleTick
    <3> QED
      BY <1>4, <3>1, <3>2
  <2>4. app'.desired \in Nat /\ wake'.pc = "idle"
    BY <1>2, <1>3, <1>4, WakeFields DEF StopAnchor, WithDesired, LifeInv, LockInv, Shaped
  <2> QED
    BY <1>3, <2>2, <2>3, <2>4, NothingChosen
<1>5. CASE \E ok \in BOOLEAN : RemoveReplica(ok)
  <2> DEFINE v == tick.victims
             x == Head(v)
             t == Tail(v)
             c == tick.count
             pc == IF Len(v) > 1 THEN "drain" ELSE "finish"
  <2>1. UNCHANGED <<app, wake>> /\ rows' = Without(rows, {x})
    BY <1>5 DEF RemoveReplica
  <2>2. tick'.pc = pc /\ tick'.victims = t /\ tick'.count = c - 1
    <3>1. tick' = [tick EXCEPT !.pc = pc, !.victims = Tail(@), !.count = @ - 1]
      BY <1>5 DEF RemoveReplica
    <3>2. [tick EXCEPT !.pc = pc, !.victims = Tail(@), !.count = @ - 1]
          = [tick EXCEPT !.pc = pc, !.victims = t, !.count = c - 1]
      BY DEF LifeInv, LockInv, Shaped
    <3> HIDE DEF pc, t, c
    <3> QED
      BY <3>1, <3>2 DEF LifeInv, LockInv, Shaped
  <2>3. Apart(rows') /\ Ids \ {x} \subseteq Ids'
    BY <1>3, <2>1, WithoutIds DEF LifeInv
  <2>4. /\ Len(v) \in Nat /\ DOMAIN v = 1 .. Len(v) /\ x = v[1]
        /\ Len(t) = Len(v) - 1 /\ DOMAIN t = 1 .. Len(v) - 1
        /\ \A k \in DOMAIN t : t[k] = v[k + 1]
        /\ \E S : t \in Seq(S)
    BY <1>3
  <2> HIDE DEF v, x, t, c
  <2>5. /\ \A k \in DOMAIN v : v[k] \in Ids
        /\ \A k, l \in DOMAIN v : v[k] = v[l] => k = l
        /\ c \in Nat /\ Len(v) <= c /\ Len(v) >= 1
    BY <1>3 DEF v, c
  <2>6. \A k \in DOMAIN t : k + 1 \in DOMAIN v /\ k + 1 # 1
    BY <2>4
  <2>7. 1 \in DOMAIN v
    BY <2>4, <2>5
  <2>8. \A k \in DOMAIN t : t[k] \in Ids'
    BY <2>3, <2>4, <2>5, <2>6, <2>7
  <2>9. \A k, l \in DOMAIN t : t[k] = t[l] => k = l
    <3> TAKE k, l \in DOMAIN t
    <3>1. t[k] = t[l] => k + 1 = l + 1
      BY <2>4, <2>5, <2>6
    <3>2. k \in Nat /\ l \in Nat
      BY <2>4
    <3> QED
      BY <3>1, <3>2
  <2>10. CASE Len(v) > 1
    <3>1. tick'.pc = "drain" /\ Len(t) >= 1 /\ c - 1 \in Nat /\ Len(t) <= c - 1
      BY <2>2, <2>4, <2>5, <2>10
    <3>2. Chosen'
      BY <2>2, <2>4, <2>8, <2>9, <3>1 DEF Chosen
    <3> QED
      BY <1>2, <1>3, <2>1, <2>3, <3>1, <3>2 DEF Listed, AddsNew, Drained
  <2>11. CASE ~(Len(v) > 1)
    BY <1>2, <1>3, <2>1, <2>2, <2>3, <2>11, NothingChosen
  <2> QED
    BY <2>10, <2>11
<1> QED
  BY <1>4, <1>5 DEF Stop

LEMMA TickLists ==
  ASSUME LifeInv, Listed, TickStep
  PROVE  Listed'
  BY HealthLists, ConvergeLists, GrowthLists, EndingLists, DrainLists, StopLists DEF TickStep

(* wakeApp enters a row only when the app has none where it slept.         *)
LEMMA WakeLists ==
  ASSUME LifeInv, Listed, WakeStart \/ WakeProbe \/ WakeAttest
  PROVE  Listed'
<1> USE WakeFields
<1>1. UNCHANGED tick /\ wake.pc # "idle"
  BY DEF WakeStart, WakeProbe, WakeAttest
<1>2. tick'.pc \notin {"check", "drain", "stop"}
  BY <1>1, NoTickWhileWaking DEF Converging
<1>3. Apart(rows) /\ AddsNew /\ app.desired \in Nat
  BY DEF Listed
<1>4. app'.desired \in Nat
  <2>1. \/ app' = app \/ app' = Woken \/ app' = [app EXCEPT !.st = "error"]
    BY DEF WakeStart, WakeProbe, WakeAttest, WakeFails
  <2>2. CASE app' = Woken
    <3>1. app'.desired = 1
      BY <2>2 DEF Woken, WithDesired, LifeInv, LockInv, Shaped
    <3> QED
      BY <3>1
  <2>3. CASE app' = app \/ app' = [app EXCEPT !.st = "error"]
    <3>1. app'.desired = app.desired
      BY <2>3 DEF LifeInv, LockInv, Shaped
    <3> QED
      BY <1>3, <3>1
  <2> QED
    BY <2>1, <2>2, <2>3
<1>5. WakeFails => wake'.pc = "idle"
  BY DEF WakeFails, WakeReturns, IdleWake
<1>6. CASE WakeStart
  <2>1. UNCHANGED rows /\ Ids' = Ids
    BY <1>6 DEF WakeStart, Ids, IdsOf
  <2>2. CASE wake'.pc = "idle"
    BY <1>2, <1>3, <1>4, <2>1, <2>2, NothingChosen
  <2>3. CASE wake'.pc # "idle"
    <3> DEFINE k == Preserved(wake.on)
               g == PreservedMatches(wake.on) /\ box[wake.on][0] # NoContainer
    <3>1. wake' = [wake EXCEPT !.pc = "probe", !.kept = k, !.light = g]
      BY <1>5, <1>6, <2>3 DEF WakeStart
    <3> HIDE DEF k, g
    <3>2. wake'.kept = k /\ wake'.on = wake.on
      BY <3>1 DEF LifeInv, LockInv, Shaped
    <3>3. ~k => <<0, wake.on>> \notin Ids
      BY DEF k, Preserved, Ids, IdsOf, Id
    <3>4. AddsNew'
      BY <1>2, <2>1, <3>2, <3>3 DEF AddsNew
    <3>5. Chosen' /\ Drained'
      BY <1>2 DEF Chosen, Drained
    <3> QED
      BY <1>3, <1>4, <2>1, <3>4, <3>5 DEF Listed
  <2> QED
    BY <2>2, <2>3
<1>7. CASE WakeProbe
  <2>1. wake.pc = "probe" /\ \E st : rows' = Upserted(st)
    BY <1>7 DEF WakeProbe
  <2>2. wake'.pc \in {"attest", "idle"}
    BY <1>5, <1>7 DEF WakeProbe, LifeInv, LockInv, Shaped
  <2>3. Apart(rows')
    <3>1. CASE \E st : rows' = WithStatus(rows, <<0, wake.on>>, st)
      <4>1. Same(rows, rows')
        BY <3>1, WithStatusRows DEF LifeInv, ShapeInv
      <4> QED
        BY <1>3, <4>1, SameIds
    <3>2. CASE ~wake.kept /\ \E st : rows' = Append(rows, NewRow(0, wake.on, st))
      <4>1. <<0, wake.on>> \notin Ids
        BY <1>3, <2>1, <3>2 DEF AddsNew
      <4> QED
        BY <1>3, <3>2, <4>1, AppendKeepsApart DEF LifeInv, ShapeInv
    <3> QED
      BY <2>1, <3>1, <3>2 DEF Upserted
  <2> QED
    BY <1>2, <1>3, <1>4, <2>2, <2>3, NothingChosen
<1>8. CASE WakeAttest
  <2>1. \/ rows' = Outdated(WithStatus(rows, <<0, wake.on>>, "running"))
        \/ rows' = Attested(rows, <<0, wake.on>>, FALSE, FALSE)
        \/ rows' = rows
    BY <1>8 DEF WakeAttest
  <2>2. ASSUME rows' = Outdated(WithStatus(rows, <<0, wake.on>>, "running"))
        PROVE  Same(rows, rows')
    <3> DEFINE q == WithStatus(rows, <<0, wake.on>>, "running")
    <3>1. RowsShaped(q) /\ Same(rows, q)
      BY WithStatusRows DEF LifeInv, ShapeInv
    <3>2. rows' = Outdated(q)
      BY <2>2
    <3> HIDE DEF q
    <3>3. Same(q, rows')
      BY <3>1, <3>2, OutdatedRows
    <3> QED
      BY <3>1, <3>3 DEF Same
  <2>3. ASSUME rows' = Attested(rows, <<0, wake.on>>, FALSE, FALSE)
        PROVE  Same(rows, rows')
    BY <2>3, AttestedRows DEF LifeInv, ShapeInv
  <2>4. Same(rows, rows')
    BY <2>1, <2>2, <2>3 DEF Same
  <2>5. wake'.pc = "idle"
    <3>1. wake' = IdleWake
      BY <1>8 DEF WakeAttest, WakeFails, WakeReturns
    <3> QED
      BY <3>1 DEF IdleWake
  <2>6. Apart(rows')
    BY <1>3, <2>4, SameIds
  <2> QED
    BY <1>2, <1>3, <1>4, <2>5, <2>6, NothingChosen
<1> QED
  BY <1>6, <1>7, <1>8

(* A wake that begins, by whom ever.                                       *)
LEMMA BeginsLists ==
  ASSUME LifeInv, Listed, NEW by, WakeBegins(by), UNCHANGED <<rows, tick>>
  PROVE  Listed'
<1>1. app'.desired = app.desired
  BY DEF WakeBegins, LifeInv, LockInv, Shaped
<1>2. wake'.pc = "start"
  BY WakeFields DEF WakeBegins
<1>3. Ids' = Ids
  BY DEF Ids, IdsOf
<1> QED
  BY <1>1, <1>2, <1>3 DEF Listed, AddsNew, Examined, Chosen, Drained

(* Nothing of the rows, the tick and the wake changes.                     *)
LEMMA StillLists ==
  ASSUME Listed, UNCHANGED <<rows, tick, wake>>, app'.desired = app.desired
  PROVE  Listed'
  BY DEF Listed, AddsNew, Examined, Chosen, Drained, Ids, IdsOf

LEMMA WakingLists ==
  ASSUME LifeInv, Listed, WakingStep
  PROVE  Listed'
<1>1. CASE WakeStart \/ WakeProbe \/ WakeAttest
  BY <1>1, WakeLists
<1>2. CASE WakerLocks
  <2>1. UNCHANGED <<rows, tick>> /\ (WakeBegins("waker") \/ UNCHANGED <<app, wake>>)
    BY <1>2 DEF WakerLocks
  <2> QED
    BY <2>1, BeginsLists, StillLists
<1>3. CASE Connect \/ WakerGivesUp \/ RuntimeStart \/ SweepToSleeping
  BY <1>3, StillLists DEF Connect, WakerGivesUp, RuntimeStart, SweepToSleeping, LifeInv, LockInv, Shaped
<1>4. CASE RuntimeAttest
  <2>1. /\ UNCHANGED <<app, tick, wake>> /\ runtime # {}
        /\ rows' = rows \/ \E x, ok, current : rows' = Attested(rows, x, ok, current)
    BY <1>4 DEF RuntimeAttest
  <2>2. Same(rows, rows')
    BY <2>1, AttestedRows DEF LifeInv, ShapeInv, Same
  <2>3. tick.pc \notin Converging
    BY <2>1, AppAssumption DEF LifeInv, LockInv, Alone, AppAssumption
  <2> QED
    BY <2>1, <2>2, <2>3, OthersList DEF Listed, Converging
<1> QED
  BY <1>1, <1>2, <1>3, <1>4 DEF WakingStep

LEMMA OperationLists ==
  ASSUME LifeInv, Listed, OperationStep
  PROVE  Listed'
<1>1. CASE OpAct
  <2>1. /\ UNCHANGED <<app, tick, wake>> /\ op.live
        /\ rows' = rows \/ \E x, st : rows' = WithStatus(rows, x, st)
    BY <1>1 DEF OpAct
  <2>2. Same(rows, rows')
    BY <2>1, WithStatusRows DEF LifeInv, ShapeInv, Same
  <2>3. tick.pc \notin Converging
    BY <2>1, NoTickWhileWaking
  <2> QED
    BY <2>1, <2>2, <2>3, OthersList DEF Listed, Converging
<1>2. CASE OpWake
  <2>1. UNCHANGED <<rows, tick>> /\ (WakeBegins("op") \/ UNCHANGED <<app, wake>>)
    BY <1>2 DEF OpWake
  <2> QED
    BY <2>1, BeginsLists, StillLists
<1>3. CASE OpDelete
  <2>1. UNCHANGED <<tick, wake>> /\ op.live /\ (rows' = rows \/ rows' = <<>>)
    BY <1>3 DEF OpDelete
  <2>2. app'.desired = app.desired
    BY <1>3 DEF OpDelete, LifeInv, LockInv, Shaped
  <2>3. tick.pc \notin Converging
    BY <2>1, NoTickWhileWaking
  <2>4. CASE rows' = rows
    BY <2>1, <2>2, <2>4, StillLists
  <2>5. CASE rows' = <<>>
    <3>1. DOMAIN rows' = {}
      BY <2>5
    <3>2. Apart(rows') /\ Ids' = {}
      BY <3>1 DEF Apart, Ids, IdsOf
    <3> QED
      BY <2>1, <2>2, <2>3, <3>2 DEF Listed, AddsNew, Chosen, Drained, Converging
  <2> QED
    BY <2>1, <2>4, <2>5
<1>4. CASE QueueFinalizer \/ OpStart \/ OpResume \/ OpFinalize \/ OpWoken \/ OpRemove \/ OpDetach
  <2>1. UNCHANGED <<rows, tick, wake>>
    BY <1>4 DEF QueueFinalizer, OpStart, OpResume, OpFinalize, OpWoken, OpRemove, OpDetach
  <2>2. \/ app' = app
        \/ \E st : app' = [app EXCEPT !.st = st] \/ app' = [app EXCEPT !.deleted = TRUE, !.st = st]
    BY <1>4 DEF QueueFinalizer, OpStart, OpResume, OpFinalize, OpWoken, OpRemove, OpDetach
  <2>3. app'.desired = app.desired
    BY <2>2 DEF LifeInv, LockInv, Shaped
  <2> QED
    BY <2>1, <2>3, StillLists
<1> QED
  BY <1>1, <1>2, <1>3, <1>4 DEF OperationStep

LEMMA WorldLists ==
  ASSUME LifeInv, Listed,
         \/ Enqueue \/ RequestWake \/ EditDesired \/ Quiet
         \/ ServerLost \/ ServerReturns \/ ServerMissing \/ ContainerDies \/ Crash
  PROVE  Listed'
<1> USE TickFields, WakeFields
<1>1. CASE EditDesired
  <2>1. PICK d \in 1 .. MaxReplicas : /\ app' = [app EXCEPT !.desired = d, !.rolled = FALSE]
                                      /\ rows' = Outdated(rows)
                                      /\ tick' = [tick EXCEPT !.current = FALSE]
                                      /\ wake' = [wake EXCEPT !.current = FALSE]
    BY <1>1 DEF EditDesired, SetDesired, WithDesired
  <2>2. /\ app'.desired = d /\ d \in Nat
        /\ tick'.pc = tick.pc /\ tick'.at = tick.at /\ tick'.on = tick.on
        /\ tick'.victims = tick.victims /\ tick'.count = tick.count
        /\ wake'.pc = wake.pc /\ wake'.on = wake.on /\ wake'.kept = wake.kept
    BY <2>1, AppAssumption DEF LifeInv, LockInv, Shaped, AppAssumption
  <2>3. Same(rows, rows')
    BY <2>1, OutdatedRows DEF LifeInv, ShapeInv
  <2>4. \A i \in DOMAIN rows : rows'[i].st = rows[i].st
    BY <2>1 DEF Outdated, LifeInv, ShapeInv, RowsShaped, RowFields
  <2> QED
    BY <2>2, <2>3, <2>4, OthersList
<1>2. CASE ServerLost
  <2>1. PICK s : rows' = [i \in DOMAIN rows |->
                  IF rows[i].on = s THEN [rows[i] EXCEPT !.st = "unhealthy"] ELSE rows[i]]
    BY <1>2 DEF ServerLost
  <2>2. Same(rows, rows')
    BY <2>1, LostRows DEF LifeInv, ShapeInv
  <2>3. \A i \in DOMAIN rows : rows'[i].st \in {rows[i].st, "unhealthy"}
    BY <2>1 DEF LifeInv, ShapeInv, RowsShaped, RowFields
  <2>4. UNCHANGED <<app, tick, wake>>
    BY <1>2 DEF ServerLost
  <2> QED
    BY <2>2, <2>3, <2>4, OthersList DEF Listed
<1>3. CASE Crash
  <2>1. UNCHANGED <<app, rows>> /\ tick'.pc = "idle" /\ wake'.pc = "idle"
    BY <1>3 DEF Crash, IdleTick, IdleWake
  <2> QED
    BY <2>1, NothingChosen DEF Listed
<1>4. CASE Enqueue \/ RequestWake \/ Quiet \/ ServerReturns \/ ServerMissing \/ ContainerDies
  <2>1. UNCHANGED <<rows, tick, wake>> /\ app'.desired = app.desired
    BY <1>4 DEF Enqueue, RequestWake, Quiet, ServerReturns, ServerMissing, ContainerDies, LifeInv,
       LockInv, Shaped
  <2> QED
    BY <2>1, StillLists
<1> QED
  BY <1>1, <1>2, <1>3, <1>4

LEMMA NextListed == LifeInv /\ Listed /\ [Next]_vars => Listed'
<1> SUFFICES ASSUME LifeInv, Listed, [Next]_vars PROVE Listed'
  OBVIOUS
<1>1. CASE UNCHANGED vars
  BY <1>1, StillLists DEF vars
<1>2. CASE Next
  BY <1>2, TickLists, WakingLists, OperationLists, WorldLists DEF Next, PanelStep
<1> QED
  BY <1>1, <1>2

LEMMA ListedHolds == Spec => []Listed
  BY LifeHolds, InitListed, NextListed, PTL DEF Spec

(* Only a convergence and the sweep mark an app asleep.                    *)
LEMMA WhoPutsToSleep ==
  ASSUME LifeInv, [Next]_vars, app.st # "sleeping", app'.st = "sleeping"
  PROVE  Stop \/ SweepToSleeping
<1>1. app' # app
  OBVIOUS
<1>2. Next
  BY <1>1 DEF vars
<1>3. CASE TickStep /\ ~Stop
  <2>1. CASE Propagate
    <3>1. app' = app \/ \E st \in {"running", "unhealthy"} : app' = [app EXCEPT !.st = st]
      BY <2>1 DEF Propagate
    <3> QED
      BY <1>1, <3>1 DEF LifeInv, LockInv, Shaped
  <2>2. CASE Autoscale
    BY <1>1, <2>2 DEF Autoscale, SetDesired, WithDesired, LifeInv, LockInv, Shaped
  <2> QED
    BY <1>1, <1>3, <2>1, <2>2 DEF TickStep, TickStart, Probe, Judge, Restart, Recreate, ConvergeStart, Grow,
       GrowCheck, GrowAttest, Undo, Drain, Finish
<1>4. CASE WakingStep /\ ~SweepToSleeping
  <2>1. app' = app \/ app' = Woken \/ \E st \in {"error", "waking"} : app' = [app EXCEPT !.st = st]
    BY <1>4 DEF WakingStep, Connect, WakerLocks, WakerGivesUp, WakeStart, WakeProbe, WakeAttest,
       WakeFails, WakeBegins, RuntimeStart, RuntimeAttest
  <2>2. Woken.st = "running"
    BY DEF Woken, WithDesired, LifeInv, LockInv, Shaped
  <2> QED
    BY <1>1, <2>1, <2>2 DEF LifeInv, LockInv, Shaped
<1>5. CASE OperationStep
  <2>1. \/ app' = app
        \/ \E st \in {"paused", "stopped", "running", "unhealthy", "destroying", "waking",
                      "cleanup_failed", "gone"} :
             \/ app' = [app EXCEPT !.st = st]
             \/ app' = [app EXCEPT !.deleted = TRUE, !.st = st]
             \/ app' = [app EXCEPT !.st = st, !.bed = None]
    BY <1>5 DEF OperationStep, QueueFinalizer, OpStart, OpResume, OpAct, OpFinalize,
       OpWake, OpWoken, OpRemove, OpDetach, OpDelete, WakeBegins
  <2> QED
    BY <1>1, <2>1 DEF LifeInv, LockInv, Shaped
<1>6. CASE \/ Enqueue \/ RequestWake \/ EditDesired \/ Quiet
           \/ ServerLost \/ ServerReturns \/ ServerMissing \/ ContainerDies \/ Crash
  BY <1>1, <1>6 DEF Enqueue, RequestWake, EditDesired, SetDesired, WithDesired, Quiet, ServerLost,
     ServerReturns, ServerMissing, ContainerDies, Crash, LifeInv, LockInv, Shaped
<1> QED
  BY <1>2, <1>3, <1>4, <1>5, <1>6 DEF Next, PanelStep

(* No convergence puts an app to sleep within its idle window: whatever    *)
(* woke the app, also while the convergence waited, is seen by it, since   *)
(* a wake desires a replica and cannot overlap the convergence; nor does   *)
(* the sweep meanwhile, which takes an app for asleep whose replicas are   *)
(* all stopped: the one about to be stopped is there, and is not.          *)
THEOREM WokenAppsStayUp == Spec => WokenStaysUp
<1> DEFINE Spared == tick.pc = "stop" /\ app.st # "sleeping" /\ app'.st = "sleeping" => ~app.recent
<1>1. LifeInv /\ Listed /\ [Next]_vars => [Spared]_vars
  <2> SUFFICES ASSUME LifeInv, Listed, [Next]_vars, tick.pc = "stop", app.st # "sleeping",
                      app'.st = "sleeping"
               PROVE  ~app.recent
    OBVIOUS
  <2>1. CASE Stop
    <3>1. tick.want = 0
      BY <2>1 DEF Stop, RemoveReplica
    <3> QED
      BY <3>1 DEF LifeInv, Rested, Converging
  <2>2. CASE SweepToSleeping
    <3>1. \A i \in DOMAIN rows : rows[i].st = "stopped"
      BY <2>2 DEF SweepToSleeping
    <3>2. Head(tick.victims) \in Ids
      BY DEF Listed, Chosen
    <3>3. PICK i \in DOMAIN rows : Id(rows[i]) = Head(tick.victims)
      BY <3>2 DEF Ids, IdsOf
    <3> QED
      BY <3>1, <3>3 DEF Listed, Drained
  <2> QED
    BY <2>1, <2>2, WhoPutsToSleep
<1> HIDE DEF Spared
<1>2. Spec => [][Spared]_vars
  BY <1>1, LifeHolds, ListedHolds, PTL DEF Spec
<1> QED
  BY <1>2 DEF Spared, WokenStaysUp

-----------------------------------------------------------------------------
(* An app with a volume. *)

(* It stays where its data is: its only replica is the first, on server s, *)
(* and no other container of it exists.                                    *)
RowsAtHome(s) ==
  /\ Len(rows) <= 1
  /\ \A i \in DOMAIN rows : rows[i].name = 0 /\ rows[i].on = s
BoxAtHome(s) ==
  \A x \in Server, n \in Name : x # s \/ n # 0 => box[x][n] = NoContainer

(* The tick in progress restarts that replica or puts it to sleep, and     *)
(* never grows; a wake starts it where it slept.                           *)
TickAtHome(s) ==
  /\ tick.pc \in {"judge", "restart", "recreate"} => tick.at = 0 /\ tick.on = s
  /\ tick.pc \notin {"grow", "check", "attest", "undo"}
  /\ tick.pc \in {"drain", "stop"} =>
       /\ tick.want = 0 /\ tick.count \in Nat
       /\ tick.victims \in Seq({<<0, s>>}) /\ Len(tick.victims) = 1
       /\ Len(rows) = 1
WakeAtHome(s) ==
  /\ app.bed \in {None, s}
  /\ wake.pc # "idle" => wake.on = s
  /\ wake.pc = "probe" /\ ~wake.kept => Len(rows) = 0

AtHome(s) ==
  /\ app.desired \in Nat
  /\ RowsAtHome(s) /\ BoxAtHome(s) /\ TickAtHome(s) /\ WakeAtHome(s)

HomeInv(s) == app.volume => AtHome(s)

LEMMA OneRow ==
  ASSUME ShapeInv, NEW s, RowsAtHome(s)
  PROVE  /\ Len(rows) \in {0, 1} /\ DOMAIN rows = 1 .. Len(rows)
         /\ \A x \in Ids : x = <<0, s>> /\ RowOf(x) = 1 /\ Len(rows) = 1
<1>1. Len(rows) \in Nat /\ DOMAIN rows = 1 .. Len(rows)
  BY RowsDomain DEF ShapeInv
<1>2. ASSUME NEW x \in Ids
      PROVE  x = <<0, s>> /\ RowOf(x) = 1 /\ Len(rows) = 1
  <2>1. RowOf(x) \in DOMAIN rows /\ Id(rows[RowOf(x)]) = x
    BY RowOfId
  <2> QED
    BY <1>1, <2>1 DEF RowsAtHome, Id
<1> QED
  BY <1>1, <1>2 DEF RowsAtHome

LEMMA SameAtHome ==
  ASSUME NEW s, RowsAtHome(s), Same(rows, rows')
  PROVE  RowsAtHome(s)' /\ Len(rows') = Len(rows)
  BY DEF Same, RowsAtHome

(* A container that starts at home, or one that stops anywhere.            *)
LEMMA HomeBox ==
  ASSUME BoxShaped, NEW s \in Server, BoxAtHome(s), NEW c, box' = Set(s, 0, c)
  PROVE  BoxAtHome(s)'
<1>1. 0 \in Name
  BY AppAssumption DEF AppAssumption, Name
<1> QED
  BY <1>1 DEF BoxShaped, BoxAtHome, Set
LEMMA GoneBox ==
  ASSUME BoxShaped, NEW s \in Server, BoxAtHome(s), NEW x, NEW n, box' = Set(x, n, NoContainer)
  PROVE  BoxAtHome(s)'
  BY DEF BoxShaped, BoxAtHome, Set
LEMMA ChangedBox ==
  ASSUME BoxShaped, NEW s \in Server, BoxAtHome(s), NEW x \in Server, NEW n \in Name, NEW c,
         box[x][n] # NoContainer, box' = Set(x, n, c)
  PROVE  BoxAtHome(s)'
  BY DEF BoxShaped, BoxAtHome, Set

(* One victim is the only replica. *)
LEMMA OnlyVictim ==
  ASSUME ShapeInv, NEW s, RowsAtHome(s), Wanted \in Nat, Cardinality(Current) > Wanted
  PROVE  /\ Len(rows) = 1 /\ Wanted = 0 /\ Cardinality(Current) = 1
         /\ Removals \in Seq({<<0, s>>}) /\ Len(Removals) = 1
<1>1. Len(rows) \in {0, 1} /\ DOMAIN rows = 1 .. Len(rows)
  BY OneRow
<1>2. Current \subseteq DOMAIN rows
  BY DEF Current
<1>3. Current = {} \/ (Len(rows) = 1 /\ Current = {1})
  BY <1>1, <1>2
<1>4. Cardinality({}) = 0 /\ Cardinality({1}) = 1
  BY FS_EmptySet, FS_Singleton
<1>5. Len(rows) = 1 /\ Current = {1} /\ Wanted = 0 /\ Cardinality(Current) = 1
  BY <1>3, <1>4
<1>6. ~Sooner(1, 1)
  BY DEF Sooner
<1>7. {j \in {1} : Sooner(j, 1)} = {}
  BY <1>6
<1>8. Ranked(Current, Sooner, 1) = 1
  BY <1>4, <1>5, <1>7 DEF Ranked
<1>9. Removals = [k \in 1 .. 1 |-> Id(rows[Ranked(Current, Sooner, k)])]
  BY <1>5 DEF Removals
<1>10. Id(rows[1]) = <<0, s>>
  BY <1>1, <1>5 DEF RowsAtHome, Id
<1>11. Removals \in [1 .. 1 -> {<<0, s>>}]
  BY <1>8, <1>9, <1>10
<1> DEFINE v == Removals
<1>12. v \in [1 .. 1 -> {<<0, s>>}]
  BY <1>11
<1> HIDE DEF v
<1>13. v \in Seq({<<0, s>>}) /\ Len(v) = 1
  <2>1. ASSUME NEW S, NEW n \in Nat, NEW f \in [1 .. n -> S] PROVE f \in Seq(S) /\ Len(f) = n
    OBVIOUS
  <2> QED
    BY <1>12, <2>1
<1> QED
  BY <1>5, <1>13 DEF v

(* An app with a volume is not rescheduled. *)
LEMMA NeverGrows ==
  ASSUME ShapeInv, NEW s, RowsAtHome(s), app.volume, app.desired \in Nat, ~NothingToConverge
  PROVE  Wanted \in Nat /\ Current # {} /\ ~ Cardinality(Current) < Wanted
<1>1. Wanted \in {0, 1}
  BY DEF Wanted
<1>2. Current # {}
  BY DEF NothingToConverge
<1>3. DOMAIN rows = 1 .. Len(rows) /\ Len(rows) \in {0, 1} /\ Current \subseteq DOMAIN rows
  BY OneRow DEF Current
<1>4. Current = {1}
  BY <1>2, <1>3
<1>5. Cardinality(Current) = 1
  BY <1>4, FS_Singleton
<1> QED
  BY <1>1, <1>2, <1>5

(* What keeps the replica where it is when the row, the place of sleep and *)
(* the wake in progress stay as they are.                                  *)
LEMMA StaysHome ==
  ASSUME NEW s, AtHome(s), RowsAtHome(s)', Len(rows') = Len(rows), BoxAtHome(s)', TickAtHome(s)',
         app'.bed = app.bed, app'.desired \in Nat,
         wake'.pc = wake.pc, wake'.on = wake.on, wake'.kept = wake.kept
  PROVE  AtHome(s)'
  BY DEF AtHome, WakeAtHome

LEMMA HealthAtHome ==
  ASSUME LifeInv, app.volume, NEW s \in Server, AtHome(s),
         TickStart \/ Probe \/ Judge \/ Restart \/ Recreate \/ Propagate
  PROVE  AtHome(s)'
<1> USE TickFields, WakeFields
<1>1. wake' = wake /\ app'.bed = app.bed /\ app'.desired = app.desired /\ app.desired \in Nat
  BY DEF TickStart, Probe, Judge, Restart, Recreate, Propagate, LifeInv, LockInv, Shaped, AtHome
<1>2. RowsShaped(rows) /\ BoxShaped /\ RowsAtHome(s) /\ BoxAtHome(s) /\ TickAtHome(s)
  BY DEF LifeInv, ShapeInv, AtHome
<1>3. CASE UNCHANGED <<rows, box>> /\ TickAtHome(s)'
  BY <1>1, <1>2, <1>3, StaysHome DEF RowsAtHome, BoxAtHome
<1>4. CASE TickStart
  BY <1>3, <1>4 DEF TickStart, IdleTick, TickAtHome
<1>5. CASE Probe
  <2>1. PICK x : /\ UNCHANGED <<rows, box>>
                 /\ \/ tick' = [tick EXCEPT !.todo = @ \ {x}] /\ tick.pc = "health"
                    \/ x \in Ids /\ \E k : tick' = [tick EXCEPT !.pc = "judge", !.at = x[1],
                                                   !.on = x[2], !.sick = k]
    BY <1>5 DEF Probe
  <2>2. x \in Ids => x[1] = 0 /\ x[2] = s
    BY <1>2, OneRow DEF LifeInv
  <2>3. TickAtHome(s)'
    <3>2. \/ tick' = [tick EXCEPT !.todo = tick.todo \ {x}] /\ tick.pc = "health"
          \/ \E k : tick' = [tick EXCEPT !.pc = "judge", !.at = 0, !.on = s, !.sick = k]
      BY <2>1, <2>2 DEF LifeInv, LockInv, Shaped
    <3>3. CASE tick' = [tick EXCEPT !.todo = tick.todo \ {x}] /\ tick.pc = "health"
      <4>1. tick'.pc = "health"
        BY <3>3 DEF LifeInv, LockInv, Shaped
      <4> QED
        BY <4>1 DEF TickAtHome
    <3>4. ASSUME NEW k, tick' = [tick EXCEPT !.pc = "judge", !.at = 0, !.on = s, !.sick = k]
          PROVE  TickAtHome(s)'
      <4>1. tick'.pc = "judge" /\ tick'.at = 0 /\ tick'.on = s
        BY <3>4 DEF LifeInv, LockInv, Shaped
      <4> QED
        BY <4>1 DEF TickAtHome
    <3> QED
      BY <3>2, <3>3, <3>4
  <2> QED
    BY <1>3, <2>1, <2>3
<1>6. CASE Judge \/ Restart \/ Recreate
  <2>0. tick.at = 0 /\ tick.on = s
    BY <1>2, <1>6 DEF Judge, Restart, Recreate, TickAtHome
  <2>1. tick' = Probed(tick) \/ \E pc \in {"restart", "recreate"} : tick' = [tick EXCEPT !.pc = pc]
    BY <1>6 DEF Judge, Restart, Recreate
  <2>2. TickAtHome(s)'
    <3>1. CASE tick' = Probed(tick)
      <4>1. tick'.pc = "health"
        BY <3>1 DEF LifeInv, LockInv, Shaped, Probed
      <4> QED
        BY <4>1 DEF TickAtHome
    <3>2. ASSUME NEW pc \in {"restart", "recreate"}, tick' = [tick EXCEPT !.pc = pc]
          PROVE  TickAtHome(s)'
      <4>1. tick'.pc = pc /\ tick'.at = tick.at /\ tick'.on = tick.on
        BY <3>2 DEF LifeInv, LockInv, Shaped
      <4> QED
        BY <2>0, <4>1 DEF TickAtHome
    <3> QED
      BY <2>1, <3>1, <3>2
  <2>3. box' = box \/ box' = Set(s, 0, "running")
    BY <1>6, <2>0 DEF Judge, Restart, Recreate
  <2>4. BoxAtHome(s)'
    <3>1. CASE box' = box
      BY <1>2, <3>1 DEF BoxAtHome
    <3> QED
      BY <1>2, <2>3, <3>1, HomeBox
  <2>5. Same(rows, rows')
    BY HealthIsSame DEF LifeInv
  <2> QED
    BY <1>1, <1>2, <2>2, <2>4, <2>5, SameAtHome, StaysHome
<1>7. CASE Propagate
  <2>1. TickAtHome(s)'
    BY <1>7 DEF Propagate, LifeInv, LockInv, Shaped, TickAtHome
  <2> QED
    BY <1>3, <1>7, <2>1 DEF Propagate
<1> QED
  BY <1>4, <1>5, <1>6, <1>7

LEMMA ScaleAtHome ==
  ASSUME LifeInv, app.volume, NEW s \in Server, AtHome(s), Autoscale \/ ConvergeStart
  PROVE  AtHome(s)'
<1> USE TickFields, WakeFields
<1>2. RowsShaped(rows) /\ BoxShaped /\ RowsAtHome(s) /\ BoxAtHome(s) /\ TickAtHome(s)
      /\ app.desired \in Nat
  BY DEF LifeInv, ShapeInv, AtHome
<1>3. CASE Autoscale
  <2>1. UNCHANGED box /\ TickAtHome(s)'
    BY <1>3 DEF Autoscale, LifeInv, LockInv, Shaped, TickAtHome
  <2>2. CASE UNCHANGED <<app, rows, wake>>
    BY <1>2, <2>1, <2>2, StaysHome DEF RowsAtHome, BoxAtHome
  <2>3. CASE \E d \in AutoscaleTargets : SetDesired(d)
    <3>1. PICK d \in AutoscaleTargets : SetDesired(d)
      BY <2>3
    <3>2. app'.desired = d /\ app'.bed = app.bed /\ d \in Nat
      BY <3>1, TargetsAreNumbers DEF SetDesired, WithDesired, LifeInv, LockInv, Shaped
    <3>3. wake'.pc = wake.pc /\ wake'.on = wake.on /\ wake'.kept = wake.kept
      BY <3>1 DEF SetDesired, LifeInv, LockInv, Shaped
    <3>4. Same(rows, rows')
      BY <1>2, <3>1, OutdatedRows DEF SetDesired
    <3> QED
      BY <1>2, <2>1, <3>2, <3>3, <3>4, SameAtHome, StaysHome DEF BoxAtHome
  <2> QED
    BY <1>3, <2>2, <2>3 DEF Autoscale
<1>4. CASE ConvergeStart
  <2>1. UNCHANGED <<app, rows, box, wake>>
    BY <1>4 DEF ConvergeStart
  <2>2. TickAtHome(s)'
    <3>1. CASE tick' = IdleTick
      BY <3>1 DEF IdleTick, TickAtHome
    <3>2. CASE tick' # IdleTick
      <4> DEFINE w == Wanted
                 o == IdsOf(Current)
                 l == Ids \ IdsOf(Current)
                 c == Cardinality(Current)
                 v == Removals
                 begun == [tick EXCEPT !.want = w, !.orig = o, !.lost = l, !.count = c,
                                 !.current = TRUE, !.todo = {}, !.seen = {}]
      <4>1. /\ ~NothingToConverge
            /\ \/ c < w
               \/ c > w /\ tick' = [begun EXCEPT !.pc = "drain", !.victims = v]
               \/ tick' = [begun EXCEPT !.pc = "finish"]
        BY <1>4, <3>2 DEF ConvergeStart
      <4>2. w \in Nat /\ ~ (c < w)
        BY <1>2, <4>1, NeverGrows DEF LifeInv
      <4>3. c > w => Len(rows) = 1 /\ w = 0 /\ c = 1 /\ v \in Seq({<<0, s>>}) /\ Len(v) = 1
        BY <1>2, <4>2, OnlyVictim DEF LifeInv
      <4> HIDE DEF w, o, l, c, v
      <4>4. begun.want = w /\ begun.count = c /\ DOMAIN begun = DOMAIN tick
        BY DEF LifeInv, LockInv, Shaped
      <4> HIDE DEF begun
      <4>5. CASE tick' = [begun EXCEPT !.pc = "finish"]
        BY <4>4, <4>5 DEF LifeInv, LockInv, Shaped, TickAtHome
      <4>6. CASE c > w /\ tick' = [begun EXCEPT !.pc = "drain", !.victims = v]
        <5>1. tick'.pc = "drain" /\ tick'.want = w /\ tick'.count = c /\ tick'.victims = v
          BY <4>4, <4>6 DEF LifeInv, LockInv, Shaped
        <5> QED
          BY <2>1, <4>3, <4>6, <5>1 DEF TickAtHome
      <4> QED
        BY <4>1, <4>2, <4>5, <4>6
    <3> QED
      BY <3>1, <3>2
  <2> QED
    BY <1>2, <2>1, <2>2, StaysHome DEF RowsAtHome, BoxAtHome
<1> QED
  BY <1>3, <1>4

LEMMA SleepAtHome ==
  ASSUME LifeInv, app.volume, NEW s \in Server, AtHome(s),
         Grow \/ GrowCheck \/ GrowAttest \/ Undo \/ Drain \/ Stop \/ Finish
  PROVE  AtHome(s)'
<1> USE TickFields, WakeFields
<1>2. RowsShaped(rows) /\ BoxShaped /\ RowsAtHome(s) /\ BoxAtHome(s) /\ TickAtHome(s)
      /\ app.desired \in Nat
  BY DEF LifeInv, ShapeInv, AtHome
<1>3. ~ (Grow \/ GrowCheck \/ GrowAttest \/ Undo)
  BY <1>2 DEF Grow, GrowCheck, GrowAttest, Undo, TickAtHome
<1>4. CASE Drain
  <2>1. UNCHANGED <<app, box, wake>> /\ tick' = [tick EXCEPT !.pc = "stop"] /\ tick.pc = "drain"
        /\ rows' = WithStatus(rows, Head(tick.victims), "draining")
    BY <1>4 DEF Drain
  <2>2. Same(rows, rows')
    BY <1>2, <2>1, WithStatusRows
  <2>3. Len(rows') = Len(rows) /\ RowsAtHome(s)'
    BY <1>2, <2>2, SameAtHome
  <2>4. TickAtHome(s)'
    BY <1>2, <2>1, <2>3 DEF TickAtHome, LifeInv, LockInv, Shaped
  <2> QED
    BY <1>2, <2>1, <2>3, <2>4, StaysHome DEF BoxAtHome
<1>5. CASE Stop
  <2>1. tick.want = 0 /\ Len(tick.victims) = 1 /\ Head(tick.victims) = <<0, s>> /\ Len(rows) = 1
        /\ tick.count \in Nat
    BY <1>2, <1>5 DEF Stop, TickAtHome
  <2>2. PICK ok \in BOOLEAN : StopAnchor(ok)
    BY <1>5, <2>1 DEF Stop
  <2>4. CASE ok
    <3>1. /\ box' = box \/ box' = Set(s, 0, "stopped")
          /\ rows' = WithStatus(rows, <<0, s>>, "stopped")
          /\ app' = [app EXCEPT !.bed = s, !.st = "sleeping"]
          /\ wake' = wake /\ tick'.pc = "finish"
      <4>1. Head(tick.victims)[1] = 0 /\ Head(tick.victims)[2] = s
        BY <2>1
      <4>2. tick' = [tick EXCEPT !.pc = "finish", !.victims = Tail(@), !.count = @ - 1]
        BY <2>2, <2>4 DEF StopAnchor
      <4>3. tick'.pc = "finish"
        BY <4>2 DEF LifeInv, LockInv, Shaped
      <4> QED
        BY <2>1, <2>2, <2>4, <4>1, <4>3 DEF StopAnchor
    <3>2. RowsAtHome(s)' /\ Len(rows') = Len(rows)
      BY <1>2, <3>1, WithStatusRows, SameAtHome
    <3>3. BoxAtHome(s)'
      BY <1>2, <3>1, HomeBox DEF BoxAtHome
    <3>4. TickAtHome(s)'
      BY <3>1 DEF TickAtHome
    <3>5. app'.bed = s /\ app'.desired = app.desired
      BY <3>1 DEF LifeInv, LockInv, Shaped
    <3> QED
      BY <1>2, <3>1, <3>2, <3>3, <3>4, <3>5 DEF AtHome, WakeAtHome
  <2>5. CASE ~ok
    <3>1. /\ box' = box /\ rows' = Outdated(rows)
          /\ app' = [app EXCEPT !.desired = tick.count, !.rolled = FALSE]
          /\ wake' = [wake EXCEPT !.current = FALSE] /\ tick' = IdleTick
      BY <2>2, <2>5 DEF StopAnchor, EndTick, WithDesired
    <3>2. RowsAtHome(s)' /\ Len(rows') = Len(rows)
      BY <1>2, <3>1, OutdatedRows, SameAtHome
    <3>4. TickAtHome(s)'
      BY <3>1 DEF TickAtHome, IdleTick
    <3>5. app'.bed = app.bed /\ app'.desired \in Nat /\ wake'.pc = wake.pc /\ wake'.on = wake.on
          /\ wake'.kept = wake.kept
      BY <2>1, <3>1 DEF LifeInv, LockInv, Shaped
    <3> QED
      BY <1>2, <3>1, <3>2, <3>4, <3>5, StaysHome DEF BoxAtHome
  <2> QED
    BY <2>4, <2>5
<1>6. CASE Finish
  <2>1. UNCHANGED <<app, box, wake>> /\ tick' = IdleTick
        /\ (rows' = rows \/ \E names : rows' = Without(rows, names))
    BY <1>6 DEF Finish, EndTick
  <2>2. RowsAtHome(s)' /\ Len(rows') <= Len(rows)
    <3>1. CASE rows' = rows
      BY <1>2, <3>1, RowsDomain DEF RowsAtHome
    <3>2. ASSUME NEW names, rows' = Without(rows, names)
          PROVE  RowsAtHome(s)' /\ Len(rows') <= Len(rows)
      <4>1. /\ RowsShaped(rows') /\ Len(rows') <= Len(rows)
            /\ \A k \in DOMAIN rows' : \E i \in DOMAIN rows : rows'[k] = rows[i]
        BY <1>2, <3>2, WithoutRows
      <4>2. Len(rows') \in Nat /\ Len(rows) \in Nat
        BY <1>2, <4>1, RowsDomain
      <4> QED
        BY <1>2, <4>1, <4>2 DEF RowsAtHome
    <3> QED
      BY <2>1, <3>1, <3>2
  <2>3. TickAtHome(s)'
    BY <2>1 DEF TickAtHome, IdleTick
  <2>4. wake.pc = "idle" \/ wake.pc # "probe" \/ wake.kept
    BY <1>6, AppAssumption DEF Finish, Converging, LifeInv, LockInv, Alone, AppAssumption
  <2> QED
    BY <1>2, <2>1, <2>2, <2>3, <2>4 DEF AtHome, WakeAtHome, BoxAtHome
<1> QED
  BY <1>3, <1>4, <1>5, <1>6

(* Nothing of the replica changes but perhaps the status of the app. *)
LEMMA StillAtHome ==
  ASSUME NEW s, AtHome(s), UNCHANGED <<rows, box, tick, wake>>,
         app'.bed = app.bed, app'.desired = app.desired
  PROVE  AtHome(s)'
  BY DEF AtHome, RowsAtHome, BoxAtHome, TickAtHome, WakeAtHome

LEMMA TickFramed ==
  ASSUME LifeInv, NEW s, TickAtHome(s), tick' = tick, tick.pc \notin Converging
  PROVE  TickAtHome(s)'
  BY DEF TickAtHome, Converging

LEMMA BeginsAtHome ==
  ASSUME LifeInv, NEW s, AtHome(s), NEW by, WakeBegins(by), app.bed # None,
         UNCHANGED <<rows, box, tick>>
  PROVE  AtHome(s)'
<1>1. app'.bed = app.bed /\ app'.desired = app.desired
  BY DEF WakeBegins, LifeInv, LockInv, Shaped
<1>2. wake'.pc = "start" /\ wake'.on = app.bed
  <2>1. wake' = [IdleWake EXCEPT !.pc = "start", !.by = by, !.on = app.bed, !.current = TRUE]
    BY DEF WakeBegins
  <2> QED
    BY <2>1, WakeFields
<1> QED
  BY <1>1, <1>2 DEF AtHome, RowsAtHome, BoxAtHome, TickAtHome, WakeAtHome

(* wakeApp starts the replica where it slept, and enters a row only when   *)
(* there is none.                                                          *)
LEMMA WakeAtHomeKeeps ==
  ASSUME LifeInv, app.volume, NEW s \in Server, AtHome(s), WakeStart \/ WakeProbe \/ WakeAttest
  PROVE  AtHome(s)'
<1> USE WakeFields
<1>1. wake.pc # "idle" /\ wake.on = s /\ UNCHANGED tick
  BY DEF WakeStart, WakeProbe, WakeAttest, AtHome, WakeAtHome
<1>2. RowsShaped(rows) /\ BoxShaped /\ RowsAtHome(s) /\ BoxAtHome(s) /\ WakeAtHome(s)
      /\ app.desired \in Nat
  BY DEF LifeInv, ShapeInv, AtHome
<1>3. TickAtHome(s)'
  BY <1>1, NoTickWhileWaking, TickFramed DEF AtHome
<1>4. Len(rows) \in {0, 1} /\ DOMAIN rows = 1 .. Len(rows)
  BY <1>2, OneRow DEF LifeInv
<1>5. ASSUME WakeFails
      PROVE  wake'.pc = "idle" /\ app'.bed = app.bed /\ app'.desired = app.desired
  BY <1>5 DEF WakeFails, WakeReturns, IdleWake, LifeInv, LockInv, Shaped
<1>6. CASE WakeStart
  <2>1. PICK ok \in BOOLEAN :
          /\ IF ok
             THEN /\ box' = Set(wake.on, 0, "running")
                  /\ wake' = [wake EXCEPT
                       !.pc = "probe", !.kept = Preserved(wake.on),
                       !.light = PreservedMatches(wake.on) /\ box[wake.on][0] # NoContainer]
                  /\ UNCHANGED <<app, held, waker, op>>
             ELSE WakeFails /\ UNCHANGED box
          /\ UNCHANGED rows
    BY <1>6 DEF WakeStart
  <2>2. CASE ok
    <3> DEFINE kept == Preserved(wake.on)
               light == PreservedMatches(wake.on) /\ box[wake.on][0] # NoContainer
    <3>1. wake' = [wake EXCEPT !.pc = "probe", !.kept = kept, !.light = light] /\ app' = app /\ rows' = rows
      BY <2>1, <2>2
    <3>2. ~kept => Len(rows) = 0
      BY <1>1, <1>2, <1>4 DEF Preserved, RowsAtHome
    <3>3. BoxAtHome(s)'
      BY <1>1, <1>2, <2>1, <2>2, HomeBox
    <3> HIDE DEF kept, light
    <3>4. wake'.on = s /\ wake'.kept = kept
      BY <1>1, <3>1 DEF LifeInv, LockInv, Shaped
    <3> QED
      BY <1>2, <1>3, <3>1, <3>2, <3>3, <3>4 DEF AtHome, WakeAtHome, RowsAtHome
  <2> QED
    BY <1>2, <1>3, <1>5, <2>1, <2>2 DEF AtHome, WakeAtHome, RowsAtHome, BoxAtHome
<1>7. CASE WakeProbe
  <2>1. PICK st : rows' = Upserted(st)
    BY <1>7 DEF WakeProbe
  <2>2. UNCHANGED box
    BY <1>7 DEF WakeProbe
  <2>3. RowsAtHome(s)'
    <3>1. CASE wake.kept
      BY <1>2, <2>1, <3>1, WithStatusRows, SameAtHome DEF Upserted
    <3>2. CASE ~wake.kept
      <4>1. Len(rows) = 0
        BY <1>2, <1>7, <3>2 DEF WakeProbe, WakeAtHome
      <4> DEFINE r == NewRow(0, s, st)
      <4>2. rows' = Append(rows, r)
        BY <1>1, <2>1, <3>2 DEF Upserted
      <4>3. /\ Len(Append(rows, r)) = Len(rows) + 1 /\ DOMAIN Append(rows, r) = 1 .. Len(rows) + 1
            /\ Append(rows, r)[Len(rows) + 1] = r /\ r.name = 0 /\ r.on = s
        BY <1>2, AppendedRows
      <4> HIDE DEF r
      <4> QED
        BY <4>1, <4>2, <4>3 DEF RowsAtHome
    <3> QED
      BY <3>1, <3>2
  <2>4. \/ WakeFails
        \/ wake' = [wake EXCEPT !.pc = "attest"] /\ app' = app
    BY <1>7 DEF WakeProbe
  <2>5. CASE WakeFails
    BY <1>2, <1>3, <1>5, <2>2, <2>3, <2>5 DEF AtHome, WakeAtHome, BoxAtHome
  <2>6. CASE wake' = [wake EXCEPT !.pc = "attest"] /\ app' = app
    <3>1. wake'.pc = "attest" /\ wake'.on = s
      BY <1>1, <2>6 DEF LifeInv, LockInv, Shaped
    <3> QED
      BY <1>2, <1>3, <2>2, <2>3, <2>6, <3>1 DEF AtHome, WakeAtHome, BoxAtHome
  <2> QED
    BY <2>4, <2>5, <2>6
<1>8. CASE WakeAttest
  <2>1. UNCHANGED box
    BY <1>8 DEF WakeAttest
  <2>2. \/ rows' = Outdated(WithStatus(rows, <<0, wake.on>>, "running"))
        \/ rows' = Attested(rows, <<0, wake.on>>, FALSE, FALSE)
        \/ rows' = rows
    BY <1>8 DEF WakeAttest
  <2>3. Same(rows, rows')
    <3> DEFINE qs == WithStatus(rows, <<0, wake.on>>, "running")
    <3>1. RowsShaped(qs) /\ Same(rows, qs)
      BY <1>2, WithStatusRows
    <3>2. Same(qs, Outdated(qs))
      BY <3>1, OutdatedRows
    <3>3. Same(rows, Outdated(qs))
      <4> HIDE DEF qs
      <4> QED
        BY <3>1, <3>2 DEF Same
    <3>4. Same(rows, Attested(rows, <<0, wake.on>>, FALSE, FALSE))
      BY <1>2, AttestedRows
    <3>5. Same(rows, rows)
      BY DEF Same
    <3> QED
      BY <2>2, <3>3, <3>4, <3>5
  <2>4. RowsAtHome(s)'
    BY <1>2, <2>3, SameAtHome
  <2>5. \/ app' = Woken /\ WakeReturns(TRUE)
        \/ WakeFails
    BY <1>8 DEF WakeAttest
  <2>6. CASE app' = Woken /\ WakeReturns(TRUE)
    <3>1. app'.bed = None /\ app'.desired = 1 /\ wake'.pc = "idle"
      BY <2>6 DEF Woken, WithDesired, WakeReturns, IdleWake, LifeInv, LockInv, Shaped
    <3> QED
      BY <1>2, <1>3, <2>1, <2>4, <3>1 DEF AtHome, WakeAtHome, BoxAtHome
  <2>7. CASE WakeFails
    BY <1>2, <1>3, <1>5, <2>1, <2>4, <2>7 DEF AtHome, WakeAtHome, BoxAtHome
  <2> QED
    BY <2>5, <2>6, <2>7
<1> QED
  BY <1>6, <1>7, <1>8

LEMMA WakingAtHome ==
  ASSUME LifeInv, app.volume, NEW s \in Server, AtHome(s), WakingStep
  PROVE  AtHome(s)'
<1>1. CASE Connect \/ WakerGivesUp \/ RuntimeStart \/ SweepToSleeping
  <2>1. /\ UNCHANGED <<rows, box, tick, wake>>
        /\ app'.bed = app.bed /\ app'.desired = app.desired
    BY <1>1 DEF Connect, WakerGivesUp, RuntimeStart, SweepToSleeping, LifeInv, LockInv, Shaped
  <2> QED
    BY <2>1, StillAtHome
<1>2. CASE WakerLocks
  <2>1. CASE Wakeable /\ app.bed # None
    BY <1>2, <2>1, BeginsAtHome DEF WakerLocks
  <2> QED
    BY <1>2, <2>1, StillAtHome DEF WakerLocks
<1>3. CASE RuntimeAttest
  <2>1. UNCHANGED <<app, box, tick, wake>>
        /\ (rows' = rows \/ \E n, ok, current : rows' = Attested(rows, n, ok, current))
    BY <1>3 DEF RuntimeAttest
  <2>2. RowsAtHome(s)' /\ Len(rows') = Len(rows)
    BY <2>1, AttestedRows, SameAtHome DEF AtHome, LifeInv, ShapeInv, RowsAtHome
  <2> QED
    BY <2>1, <2>2 DEF AtHome, BoxAtHome, TickAtHome, WakeAtHome
<1> QED
  BY <1>1, <1>2, <1>3, WakeAtHomeKeeps DEF WakingStep

LEMMA OperationAtHome ==
  ASSUME LifeInv, app.volume, NEW s \in Server, AtHome(s), OperationStep
  PROVE  AtHome(s)'
<1>2. RowsShaped(rows) /\ BoxShaped /\ RowsAtHome(s) /\ BoxAtHome(s)
  BY DEF LifeInv, ShapeInv, AtHome
<1>3. ASSUME NEW x \in Ids PROVE x[1] = 0 /\ x[2] = s
  BY <1>2, <1>3, OneRow DEF LifeInv
<1>4. CASE QueueFinalizer \/ OpStart \/ OpResume \/ OpFinalize \/ OpWoken \/ OpDetach
  <2>1. UNCHANGED <<rows, box, tick, wake>>
    BY <1>4 DEF QueueFinalizer, OpStart, OpResume, OpFinalize, OpWoken, OpDetach
  <2>2. app' = app \/ \E st, d : app' = [app EXCEPT !.st = st] \/ app' = [app EXCEPT !.deleted = d, !.st = st]
    BY <1>4 DEF QueueFinalizer, OpStart, OpResume, OpFinalize, OpWoken, OpDetach
  <2>3. app'.bed = app.bed /\ app'.desired = app.desired
    BY <2>2 DEF LifeInv, LockInv, Shaped
  <2> QED
    BY <2>1, <2>3, StillAtHome
<1>5. CASE OpAct
  <2>1. UNCHANGED <<app, tick, wake>>
    BY <1>5 DEF OpAct
  <2>2. \/ UNCHANGED <<rows, box>>
        \/ \E x \in Ids : /\ rows' = WithStatus(rows, x, Target.to)
                          /\ box' = Set(x[2], x[1], Target.to)
    BY <1>5 DEF OpAct
  <2>3. CASE UNCHANGED <<rows, box>>
    BY <2>1, <2>3, StillAtHome
  <2>4. CASE \E x \in Ids : /\ rows' = WithStatus(rows, x, Target.to)
                          /\ box' = Set(x[2], x[1], Target.to)
    <3>1. box' = Set(s, 0, Target.to) /\ \E x : rows' = WithStatus(rows, x, Target.to)
      BY <1>3, <2>4
    <3>2. RowsAtHome(s)' /\ Len(rows') = Len(rows)
      BY <1>2, <3>1, WithStatusRows, SameAtHome
    <3>3. BoxAtHome(s)'
      BY <1>2, <3>1, HomeBox
    <3> QED
      BY <2>1, <3>2, <3>3 DEF AtHome, TickAtHome, WakeAtHome
  <2> QED
    BY <2>2, <2>3, <2>4
<1>6. CASE OpWake
  <2>1. CASE Wakeable /\ app.bed # None
    BY <1>6, <2>1, BeginsAtHome DEF OpWake
  <2> QED
    BY <1>6, <2>1, StillAtHome DEF OpWake
<1>7. CASE OpRemove
  <2>1. UNCHANGED <<app, rows, tick, wake>>
        /\ (box' = box \/ \E x, n : box' = Set(x, n, NoContainer))
    BY <1>7 DEF OpRemove
  <2>2. BoxAtHome(s)'
    BY <1>2, <2>1, GoneBox DEF BoxAtHome
  <2> QED
    BY <2>1, <2>2 DEF AtHome, RowsAtHome, TickAtHome, WakeAtHome
<1>8. CASE OpDelete
  <2>1. UNCHANGED <<box, tick, wake>> /\ op.live
    BY <1>8 DEF OpDelete
  <2>2. TickAtHome(s)'
    BY <2>1, NoTickWhileWaking, TickFramed DEF AtHome
  <2>3. \/ app' = [app EXCEPT !.st = "cleanup_failed"] /\ rows' = rows
        \/ app' = [app EXCEPT !.st = "gone", !.bed = None] /\ rows' = <<>>
    BY <1>8 DEF OpDelete
  <2>4. CASE app' = [app EXCEPT !.st = "cleanup_failed"] /\ rows' = rows
    <3>1. app'.bed = app.bed /\ app'.desired = app.desired
      BY <2>4 DEF LifeInv, LockInv, Shaped
    <3> QED
      BY <2>1, <2>4, <3>1, StillAtHome
  <2>5. CASE app' = [app EXCEPT !.st = "gone", !.bed = None] /\ rows' = <<>>
    <3>1. app'.bed = None /\ app'.desired = app.desired
      BY <2>5 DEF LifeInv, LockInv, Shaped
    <3>2. RowsAtHome(s)' /\ Len(rows') = 0
      BY <2>5 DEF RowsAtHome
    <3> QED
      BY <2>1, <2>2, <3>1, <3>2 DEF AtHome, WakeAtHome, BoxAtHome
  <2> QED
    BY <2>3, <2>4, <2>5
<1> QED
  BY <1>4, <1>5, <1>6, <1>7, <1>8 DEF OperationStep

LEMMA WorldAtHome ==
  ASSUME LifeInv, app.volume, NEW s \in Server, AtHome(s),
         \/ Enqueue \/ RequestWake \/ EditDesired \/ Quiet
         \/ ServerLost \/ ServerReturns \/ ServerMissing \/ ContainerDies \/ Crash
  PROVE  AtHome(s)'
<1>2. RowsShaped(rows) /\ BoxShaped /\ RowsAtHome(s) /\ BoxAtHome(s)
  BY DEF LifeInv, ShapeInv, AtHome
<1>3. CASE Enqueue \/ RequestWake \/ Quiet \/ ServerReturns
  <2>1. UNCHANGED <<rows, box, tick, wake>> /\ app'.bed = app.bed /\ app'.desired = app.desired
    BY <1>3 DEF Enqueue, RequestWake, Quiet, ServerReturns, LifeInv, LockInv, Shaped
  <2> QED
    BY <2>1, StillAtHome
<1>4. CASE EditDesired
  <2>1. PICK d \in 1 .. MaxReplicas : /\ app' = [app EXCEPT !.desired = d, !.rolled = FALSE]
                                      /\ rows' = Outdated(rows)
                                      /\ wake' = [wake EXCEPT !.current = FALSE]
                                      /\ tick' = [tick EXCEPT !.current = FALSE]
                                      /\ UNCHANGED box
    BY <1>4 DEF EditDesired, SetDesired, WithDesired
  <2>2. RowsAtHome(s)' /\ Len(rows') = Len(rows)
    BY <1>2, <2>1, OutdatedRows, SameAtHome
  <2>3. d \in Nat
    BY AppAssumption DEF AppAssumption
  <2>4. app'.bed = app.bed /\ app'.desired = d
    BY <2>1 DEF LifeInv, LockInv, Shaped
  <2>5. wake'.pc = wake.pc /\ wake'.on = wake.on /\ wake'.kept = wake.kept
    BY <2>1, WakeFields DEF LifeInv, LockInv, Shaped
  <2>6. /\ tick'.pc = tick.pc /\ tick'.at = tick.at /\ tick'.on = tick.on
        /\ tick'.want = tick.want /\ tick'.count = tick.count /\ tick'.victims = tick.victims
    BY <2>1, TickFields DEF LifeInv, LockInv, Shaped
  <2>7. TickAtHome(s)'
    BY <2>2, <2>6 DEF AtHome, TickAtHome
  <2>8. BoxAtHome(s)'
    BY <1>2, <2>1 DEF BoxAtHome
  <2> QED
    BY <2>2, <2>3, <2>4, <2>5, <2>7, <2>8, StaysHome
<1>5. CASE ServerLost
  <2>1. UNCHANGED <<app, box, tick, wake>>
    BY <1>5 DEF ServerLost
  <2>2. PICK x \in Server : rows' = [i \in DOMAIN rows |->
                  IF rows[i].on = x THEN [rows[i] EXCEPT !.st = "unhealthy"] ELSE rows[i]]
    BY <1>5 DEF ServerLost
  <2>3. Same(rows, rows')
    BY <1>2, <2>2, LostRows
  <2>4. RowsAtHome(s)' /\ Len(rows') = Len(rows)
    BY <1>2, <2>3, SameAtHome
  <2> QED
    BY <2>1, <2>4 DEF AtHome, BoxAtHome, TickAtHome, WakeAtHome
<1>6. CASE ServerMissing
  <2>1. UNCHANGED <<app, rows, tick, wake>>
    BY <1>6 DEF ServerMissing
  <2>2. PICK x \in Server : box' = [box EXCEPT ![x] = [n \in Name |-> NoContainer]]
    BY <1>6 DEF ServerMissing
  <2>3. BoxAtHome(s)'
    BY <1>2, <2>2 DEF BoxAtHome, BoxShaped
  <2> QED
    BY <2>1, <2>3 DEF AtHome, RowsAtHome, TickAtHome, WakeAtHome
<1>7. CASE ContainerDies
  <2>1. UNCHANGED <<app, rows, tick, wake>>
    BY <1>7 DEF ContainerDies
  <2>2. PICK x \in Server, n \in Name : box[x][n] = "running" /\ box' = Set(x, n, "stopped")
    BY <1>7 DEF ContainerDies
  <2>3. BoxAtHome(s)'
    BY <1>2, <2>2, ChangedBox DEF NoContainer
  <2> QED
    BY <2>1, <2>3 DEF AtHome, RowsAtHome, TickAtHome, WakeAtHome
<1>8. CASE Crash
  <2>1. UNCHANGED <<app, rows, box>> /\ tick'.pc = "idle" /\ wake'.pc = "idle"
    BY <1>8 DEF Crash, IdleTick, IdleWake
  <2> QED
    BY <2>1 DEF AtHome, RowsAtHome, BoxAtHome, TickAtHome, WakeAtHome
<1> QED
  BY <1>3, <1>4, <1>5, <1>6, <1>7, <1>8

(* Whether the app has a volume is settled when it is created. *)
LEMMA VolumeStays ==
  ASSUME LifeInv, [Next]_vars
  PROVE  app'.volume = app.volume
<1>1. \/ app' = app
      \/ app' = Woken
      \/ \E st, d, k, b, r : \/ app' = [app EXCEPT !.st = st]
                            \/ app' = [app EXCEPT !.deleted = d, !.st = st]
                            \/ app' = [app EXCEPT !.st = st, !.bed = b]
                            \/ app' = [app EXCEPT !.bed = b, !.st = st]
                            \/ app' = [app EXCEPT !.desired = k, !.rolled = FALSE]
                            \/ app' = [app EXCEPT !.recent = r]
  <2>1. CASE TickStep
    BY <2>1 DEF TickStep, TickStart, Probe, Judge, Restart, Recreate, Propagate, Autoscale, SetDesired,
       WithDesired, ConvergeStart, Grow, GrowCheck, GrowAttest, Undo, Drain, Stop, StopAnchor,
       RemoveReplica, Finish
  <2>2. CASE WakingStep
    <3>1. CASE WakeAttest
      <4>1. app' = Woken \/ app' = [app EXCEPT !.st = "error"]
        BY <3>1 DEF WakeAttest, WakeFails
      <4> QED
        BY <4>1
    <3> QED
      BY <2>2, <3>1 DEF WakingStep, Connect, WakerLocks, WakerGivesUp, WakeStart, WakeProbe, WakeFails,
         WakeBegins, RuntimeStart, RuntimeAttest, SweepToSleeping
  <2>3. CASE OperationStep
    BY <2>3 DEF OperationStep, QueueFinalizer, OpStart, OpResume, OpAct, OpFinalize, OpWake, OpWoken,
       OpRemove, OpDetach, OpDelete, WakeBegins
  <2>4. CASE \/ Enqueue \/ RequestWake \/ EditDesired \/ Quiet
             \/ ServerLost \/ ServerReturns \/ ServerMissing \/ ContainerDies \/ Crash
    BY <2>4 DEF Enqueue, RequestWake, EditDesired, SetDesired, WithDesired, Quiet, ServerLost,
       ServerReturns, ServerMissing, ContainerDies, Crash
  <2> QED
    BY <2>1, <2>2, <2>3, <2>4 DEF Next, PanelStep, vars
<1> QED
  BY <1>1 DEF Woken, WithDesired, LifeInv, LockInv, Shaped

(* Wherever its first deployment put it, the replica of an app with a      *)
(* volume is there.                                                        *)
StaysWithVolume == \E s \in Server : app.volume => AtHome(s)

LEMMA InitAtHome == Init => StaysWithVolume
<1> SUFFICES ASSUME Init PROVE StaysWithVolume
  OBVIOUS
<1>1. PICK s \in Server :
        /\ app.desired = 1 /\ app.bed = None
        /\ rows = <<[name |-> 0, on |-> s, st |-> "running", match |-> TRUE, ticks |-> 0]>>
        /\ box = [x \in Server |-> [n \in Name |->
                    IF x = s /\ n = 0 THEN "running" ELSE NoContainer]]
        /\ tick = IdleTick /\ wake = IdleWake
  <2>1. PICK s \in Server, v \in BOOLEAN :
        /\ app = [st |-> "running", desired |-> 1, bed |-> None, volume |-> v,
                  deleted |-> FALSE, recent |-> TRUE, rolled |-> TRUE]
        /\ rows = <<[name |-> 0, on |-> s, st |-> "running", match |-> TRUE, ticks |-> 0]>>
        /\ box = [x \in Server |-> [n \in Name |->
                    IF x = s /\ n = 0 THEN "running" ELSE NoContainer]]
        /\ tick = IdleTick /\ wake = IdleWake
    BY DEF Init
  <2> QED
    BY <2>1
<1>2. RowsAtHome(s)
  <2> DEFINE r == [name |-> 0, on |-> s, st |-> "running", match |-> TRUE, ticks |-> 0]
  <2>1. rows = <<r>> /\ r.name = 0 /\ r.on = s
    BY <1>1
  <2> HIDE DEF r
  <2> QED
    BY <2>1 DEF RowsAtHome
<1>3. BoxAtHome(s)
  BY <1>1 DEF BoxAtHome
<1>4. tick.pc = "idle" /\ wake.pc = "idle"
  BY <1>1 DEF IdleTick, IdleWake
<1>5. AtHome(s)
  BY <1>1, <1>2, <1>3, <1>4 DEF AtHome, TickAtHome, WakeAtHome
<1> QED
  BY <1>5 DEF StaysWithVolume

LEMMA NextAtHome == LifeInv /\ StaysWithVolume /\ [Next]_vars => StaysWithVolume'
<1> SUFFICES ASSUME LifeInv, StaysWithVolume, [Next]_vars PROVE StaysWithVolume'
  OBVIOUS
<1>1. PICK s \in Server : app.volume => AtHome(s)
  BY DEF StaysWithVolume
<1>2. ASSUME app.volume PROVE AtHome(s)'
  <2>1. AtHome(s)
    BY <1>1, <1>2
  <2>2. CASE UNCHANGED vars
    BY <2>1, <2>2, StillAtHome DEF vars
  <2>3. CASE TickStep
    BY <1>2, <2>1, <2>3, HealthAtHome, ScaleAtHome, SleepAtHome DEF TickStep
  <2>4. CASE WakingStep \/ OperationStep
    BY <1>2, <2>1, <2>4, WakingAtHome, OperationAtHome
  <2>5. CASE Next /\ ~PanelStep
    BY <1>2, <2>1, <2>5, WorldAtHome DEF Next
  <2> QED
    BY <2>2, <2>3, <2>4, <2>5 DEF Next, PanelStep
<1>3. app'.volume = app.volume
  BY VolumeStays
<1> QED
  BY <1>2, <1>3 DEF StaysWithVolume

(* A volume has at most one writer: of an app with a volume, at most one   *)
(* container that is not stopped exists, whatever is lost and comes back.  *)
THEOREM OneContainerPerVolume == Spec => []VolumeSingleWriter
<1>1. ASSUME StaysWithVolume PROVE VolumeSingleWriter
  <2> SUFFICES ASSUME app.volume
               PROVE  Cardinality({x \in Server \X Name : box[x[1]][x[2]] \in {"running", "paused"}}) <= 1
    BY DEF VolumeSingleWriter
  <2>1. PICK s \in Server : BoxAtHome(s)
    BY <1>1 DEF StaysWithVolume, AtHome
  <2> DEFINE W == {x \in Server \X Name : box[x[1]][x[2]] \in {"running", "paused"}}
  <2>2. ASSUME NEW x \in W PROVE x = <<s, 0>>
    <3>1. x[1] \in Server /\ x[2] \in Name /\ x = <<x[1], x[2]>>
      OBVIOUS
    <3>2. box[x[1]][x[2]] # NoContainer
      BY DEF NoContainer
    <3> QED
      BY <2>1, <3>1, <3>2 DEF BoxAtHome
  <2>3. W \in SUBSET {<<s, 0>>}
    BY <2>2
  <2>4. IsFiniteSet({<<s, 0>>}) /\ Cardinality({<<s, 0>>}) = 1
    BY FS_Singleton
  <2> HIDE DEF W
  <2>5. Cardinality(W) <= 1
    BY <2>3, <2>4, FS_Subset
  <2> QED
    BY <2>5 DEF W
<1>2. Spec => []StaysWithVolume
  BY InitAtHome, NextAtHome, LifeHolds, PTL DEF Spec
<1> QED
  BY <1>1, <1>2, PTL
=============================================================================
