---------------------------- MODULE BuildProofs ----------------------------
(***************************************************************************)
(* Theorems about builds on shared workers, for every set of operations,   *)
(* workers, targets and digests, and every time to live.                   *)
(***************************************************************************)
EXTENDS BuildProperties, TLAPS, WellFoundedInduction

(* A runner in its place: under a lease, it knows its worker. *)
Sound(x) == x \in Runner /\ (x.pc \in {"working", "saved"} => x.worker \in Worker)
RunnersAreSound == \A o \in Op : Sound(runner[o])

TypeInv == TypeOK /\ RunnersAreSound

(* A lease row carries the newest token of its worker, and nothing was     *)
(* published under it yet; no two workers were granted the same token.     *)
LeasesAreNewest ==
  \A w \in Worker :
    Leased(w) => leases[w].token = newest[w] /\ newest[w] # 0 /\ newest[w] \notin published
TokensDiffer ==
  \A v, w \in Worker : newest[v] = newest[w] /\ newest[v] # 0 => v = w

SlotInv == LeasesAreNewest /\ TokensDiffer

USE DEF Leased, OwnedBy, Expired

-----------------------------------------------------------------------------
(* Types. *)

LEMMA IdleIsSound == Sound(Idle)
  BY DEF Idle, Runner, Sound

LEMMA AskingIsSound ==
  ASSUME NEW task \in {"build", "verify"}, NEW attempt \in 1..2,
         NEW excluded \in SUBSET Worker, NEW ready \in SUBSET Worker
  PROVE  Sound(Asking(task, attempt, excluded, ready))
  BY DEF Asking, Idle, Runner, Sound

LEMMA HoldingIsSound ==
  ASSUME NEW x \in Runner, NEW w \in Worker, NEW token \in Nat
  PROVE  Sound(Holding(x, w, token))
  BY DEF Holding, Runner, Sound

(* One runner moves to a sound place. *)
LEMMA RunnerMoves ==
  ASSUME TypeInv, NEW o \in Op, NEW x, Sound(x), runner' = [runner EXCEPT ![o] = x]
  PROVE  runner' \in [Op -> Runner] /\ RunnersAreSound'
  BY DEF TypeInv, TypeOK, RunnersAreSound, Sound

LEMMA RunnersStay ==
  ASSUME TypeInv, UNCHANGED runner
  PROVE  runner' \in [Op -> Runner] /\ RunnersAreSound'
  BY DEF TypeInv, TypeOK, RunnersAreSound, Sound

LEMMA WithoutKeeps ==
  ASSUME TypeOK, NEW gone
  PROVE  Without(gone) \in [Worker -> Lease \cup {None}]
  BY DEF TypeOK, Without

LEMMA ReleasedKeeps ==
  ASSUME TypeOK, NEW o \in Op
  PROVE  Released(o) \in [Worker -> Lease \cup {None}]
  BY WithoutKeeps DEF Released

LEMMA FallsSoundly ==
  ASSUME TypeInv, NEW o \in Op, FallThrough(o)
  PROVE  runner' \in [Op -> Runner] /\ RunnersAreSound'
<1>1. PICK ready \in SUBSET Worker :
        runner' = [runner EXCEPT ![o] = Asking("build", 1, {}, ready)]
  BY DEF FallThrough
<1>2. Sound(Asking("build", 1, {}, ready))
  BY AskingIsSound
<1> QED
  BY <1>1, <1>2, RunnerMoves

LEMMA LeavesSoundly ==
  ASSUME TypeInv, NEW o \in Op, LeaveFailed(o) \/ LeaveBuilt(o)
  PROVE  /\ runner' \in [Op -> Runner] /\ RunnersAreSound'
         /\ status' \in [Op -> {"live", "built", "over"}]
<1>1. runner' = [runner EXCEPT ![o] = Idle]
  BY DEF LeaveFailed, LeaveBuilt
<1> QED
  BY <1>1, IdleIsSound, RunnerMoves DEF LeaveFailed, LeaveBuilt, TypeInv, TypeOK

LEMMA ThrowsSoundly ==
  ASSUME TypeInv, NEW o \in Op, Throws(o)
  PROVE  /\ runner' \in [Op -> Runner] /\ RunnersAreSound'
         /\ status' \in [Op -> {"live", "built", "over"}]
<1>1. CASE FallThrough(o) /\ UNCHANGED status
  BY <1>1, FallsSoundly DEF TypeInv, TypeOK
<1>2. CASE LeaveFailed(o)
  BY <1>2, LeavesSoundly
<1> QED
  BY <1>1, <1>2 DEF Throws

LEMMA TypeInit == Init => TypeInv
  BY IdleIsSound, BuildAssumption
     DEF BuildAssumption, Init, TypeInv, TypeOK, RunnersAreSound, Sound

LEMMA RunnerStepKeepsTypes ==
  ASSUME TypeInv, LeasesAreNewest, NEW o \in Op, RunnerStep(o)
  PROVE  TypeInv'
<1> USE DEF rows, history
<1>0. TypeOK /\ runner[o] \in Runner /\ Sound(runner[o])
  BY DEF TypeInv, TypeOK, RunnersAreSound
<1>1. CASE Start(o)
  <2>1. \A ready \in SUBSET Worker :
          Sound(Asking(IF Recoverable(o) THEN "verify" ELSE "build", 1, {}, ready))
    BY AskingIsSound
  <2>2. runner' \in [Op -> Runner] /\ RunnersAreSound'
    BY <1>1, <2>1, RunnerMoves DEF Start
  <2> QED
    BY <1>0, <1>1, <2>2 DEF Start, TypeInv, TypeOK
<1>2. CASE StartCancelled(o)
  BY <1>0, <1>2, RunnersStay DEF StartCancelled, TypeInv, TypeOK
<1>3. CASE Refused(o)
  BY <1>0, <1>3, ThrowsSoundly, WithoutKeeps DEF Refused, TypeInv, TypeOK
<1>4. ASSUME NEW w \in Worker, Observe(o, w)
      PROVE  TypeInv'
  <2>1. PICK online, roomy, amd64 \in BOOLEAN :
          /\ workers' = [workers EXCEPT ![w] =
               [online |-> online, roomy |-> roomy, age |-> 0]]
          /\ runner' = [runner EXCEPT ![o].asked = @ \ {w},
               ![o].candidates = IF online /\ amd64 THEN @ \cup {w} ELSE @]
    BY <1>4 DEF Observe
  <2> DEFINE x == [runner[o] EXCEPT !.asked = @ \ {w},
                     !.candidates = IF online /\ amd64 THEN @ \cup {w} ELSE @]
  <2>2. runner' = [runner EXCEPT ![o] = x]
    BY <1>0, <2>1 DEF TypeOK, Runner
  <2>3. Sound(x)
    BY <1>0 DEF Sound, Runner
  <2>4. runner' \in [Op -> Runner] /\ RunnersAreSound'
    BY <2>2, <2>3, RunnerMoves
  <2>5. workers' \in [Worker -> [online: BOOLEAN, roomy: BOOLEAN, age: 0..(MaxAge + 1)]]
    BY <1>0, <2>1, BuildAssumption DEF TypeOK, BuildAssumption
  <2> QED
    BY <1>0, <1>4, <2>4, <2>5 DEF Observe, TypeInv, TypeOK
<1>5. ASSUME NEW w \in Worker, Renew(o, w)
      PROVE  TypeInv'
  <2>1. leases[w] \in Lease
    BY <1>0, <1>5 DEF Renew, Renewable, TypeOK
  <2>2. Sound(Holding(runner[o], w, leases[w].token))
    BY <1>0, <2>1, HoldingIsSound DEF Lease
  <2> DEFINE kept == Without({v \in Worker : Reapable(v)})
  <2>5. kept \in [Worker -> Lease \cup {None}] /\ kept[w] = leases[w]
    BY <1>0, <1>5, WithoutKeeps DEF Renew, Renewable, Without
  <2>6. [kept[w] EXCEPT !.left = Ttl] \in Lease
    <3>1. Ttl \in 0..Ttl
      BY BuildAssumption DEF BuildAssumption
    <3>2. kept[w] \in Lease
      BY <2>1, <2>5
    <3> HIDE DEF kept
    <3> QED
      BY <3>1, <3>2 DEF Lease
  <2>7. leases' = [kept EXCEPT ![w] = [kept[w] EXCEPT !.left = Ttl]]
    BY <1>5 DEF Renew
  <2>3. leases' \in [Worker -> Lease \cup {None}]
    BY <2>5, <2>6, <2>7
  <2>4. runner' \in [Op -> Runner] /\ RunnersAreSound'
    BY <1>5, <2>2, RunnerMoves DEF Renew
  <2> QED
    BY <1>0, <1>5, <2>3, <2>4 DEF Renew, TypeInv, TypeOK
<1>6. ASSUME NEW w \in Worker, Take(o, w)
      PROVE  TypeInv'
  <2>1. Fresh \in Nat /\ issued <= Fresh /\ issued \in Nat
    BY <1>0 DEF Fresh, TypeOK
  <2>2. Sound(Holding(runner[o], w, Fresh))
    BY <1>0, <2>1, HoldingIsSound
  <2>3. [op |-> o, token |-> Fresh, left |-> Ttl] \in Lease
    BY <2>1, BuildAssumption DEF Lease, BuildAssumption
  <2>4. leases' \in [Worker -> Lease \cup {None}]
    BY <1>0, <1>6, <2>3, WithoutKeeps DEF Take
  <2>5. newest' \in [Worker -> 0..issued'] /\ published' \subseteq 1..issued' /\ issued' \in Nat
    BY <1>0, <1>6, <2>1 DEF Take, TypeOK
  <2>6. runner' \in [Op -> Runner] /\ RunnersAreSound'
    BY <1>6, <2>2, RunnerMoves DEF Take
  <2> QED
    BY <1>0, <1>6, <2>4, <2>5, <2>6 DEF Take, TypeInv, TypeOK
<1>7. ASSUME NEW t \in Target, NEW d \in Digest, Push(o, t, d)
      PROVE  TypeInv'
  <2> DEFINE x == [runner[o] EXCEPT !.pushed = @ \cup {t}]
  <2>1. runner[o].worker \in Worker
    BY <1>0, <1>7 DEF Push, InTask, Sound
  <2>2. runner' = [runner EXCEPT ![o] = x]
    BY <1>0, <1>7 DEF Push, TypeOK
  <2>3. Sound(x)
    BY <1>0 DEF Sound, Runner
  <2>4. runner' \in [Op -> Runner] /\ RunnersAreSound'
    BY <2>2, <2>3, RunnerMoves
  <2>5. artifacts' \in [Op -> [Target -> Artifact \cup {None}]]
    BY <1>0, <1>7, <2>1 DEF Push, TypeOK, Artifact
  <2> QED
    BY <1>0, <1>7, <2>4, <2>5 DEF Push, TypeInv, TypeOK
<1>8. ASSUME NEW t \in Target, NEW d \in Digest, PushRefused(o, t, d)
      PROVE  TypeInv'
  BY <1>0, <1>8, LeavesSoundly, ReleasedKeeps DEF PushRefused, TypeInv, TypeOK
<1>9. CASE BuildThrows(o)
  BY <1>0, <1>9, ThrowsSoundly, ReleasedKeeps DEF BuildThrows, TypeInv, TypeOK
<1>10. CASE Unavailable(o)
  <2>1. runner[o].worker \in Worker
    BY <1>0, <1>10 DEF Unavailable, InTask, Sound
  <2>2. \A ready \in SUBSET Worker : Sound(Asking("build", 2, {runner[o].worker}, ready))
    BY <2>1, AskingIsSound
  <2>3. runner' \in [Op -> Runner] /\ RunnersAreSound'
    BY <1>10, <2>2, RunnerMoves DEF Unavailable
  <2> QED
    BY <1>0, <1>10, <2>3, ReleasedKeeps DEF Unavailable, TypeInv, TypeOK
<1>11. CASE SaveCheckpoint(o)
  <2> DEFINE x == [runner[o] EXCEPT !.pc = "saved"]
  <2>1. runner[o].worker \in Worker
    BY <1>0, <1>11 DEF SaveCheckpoint, InTask, Sound
  <2>2. runner' = [runner EXCEPT ![o] = x]
    BY <1>0, <1>11 DEF SaveCheckpoint, TypeOK
  <2>3. Sound(x)
    BY <1>0, <2>1 DEF Sound, Runner
  <2>4. runner' \in [Op -> Runner] /\ RunnersAreSound'
    BY <2>2, <2>3, RunnerMoves
  <2> QED
    BY <1>0, <1>11, <2>1, <2>4 DEF SaveCheckpoint, TypeInv, TypeOK
<1>12. ASSUME Fence(o), Publishes(o), leases' = Released(o),
              UNCHANGED <<cancel, artifacts, checkpoint, workers, crashes>>
       PROVE  TypeInv'
  <2>1. PICK w \in Worker : Mine(o, w)
    BY <1>12 DEF Fence, Holds
  <2>2. runner[o].token \in 1..issued
    BY <1>0, <2>1 DEF Mine, LeasesAreNewest, TypeOK
  <2>3. published' \subseteq 1..issued'
    BY <1>0, <1>12, <2>2 DEF Publishes, TypeOK
  <2> QED
    BY <1>0, <1>12, <2>3, LeavesSoundly, ReleasedKeeps DEF Publishes, TypeInv, TypeOK
<1>13. CASE BuildReturns(o)
  <2>1. CASE Fence(o) /\ Publishes(o)
    BY <1>12, <1>13, <2>1 DEF BuildReturns
  <2>2. CASE LeaveFailed(o) /\ UNCHANGED history
    BY <1>0, <1>13, <2>2, LeavesSoundly, ReleasedKeeps DEF BuildReturns, TypeInv, TypeOK
  <2> QED
    BY <1>13, <2>1, <2>2 DEF BuildReturns
<1>14. CASE Verified(o)
  <2>1. CASE Fence(o) /\ Publishes(o)
    BY <1>12, <1>14, <2>1 DEF Verified
  <2>2. CASE FallThrough(o) /\ UNCHANGED <<status, history>>
    BY <1>0, <1>14, <2>2, FallsSoundly, ReleasedKeeps DEF Verified, TypeInv, TypeOK
  <2> QED
    BY <1>14, <2>1, <2>2 DEF Verified
<1> QED
  BY <1>1, <1>2, <1>3, <1>4, <1>5, <1>6, <1>7, <1>8, <1>9, <1>10, <1>11, <1>13, <1>14
     DEF RunnerStep

LEMMA HeartbeatKeepsTypes ==
  ASSUME TypeInv, NEW o \in Op, Heartbeat(o)
  PROVE  TypeInv'
<1> USE DEF rows, history
<1>0. TypeOK /\ runner[o] \in Runner /\ Sound(runner[o])
  BY DEF TypeInv, TypeOK, RunnersAreSound
<1>1. CASE Holds(o)
  <2>1. \A w \in Worker : Mine(o, w) => [leases[w] EXCEPT !.left = Ttl] \in Lease
    BY <1>0, BuildAssumption DEF Mine, TypeOK, Lease, BuildAssumption
  <2>2. leases' \in [Worker -> Lease \cup {None}]
    BY <1>0, <1>1, <2>1 DEF Heartbeat, TypeOK
  <2> QED
    BY <1>0, <1>1, <2>2, RunnersStay DEF Heartbeat, TypeInv, TypeOK
<1>2. CASE ~Holds(o)
  <2> DEFINE x == [runner[o] EXCEPT !.lost = TRUE]
  <2>1. runner' = [runner EXCEPT ![o] = x]
    BY <1>0, <1>2 DEF Heartbeat, TypeOK
  <2>2. Sound(x)
    BY <1>0 DEF Sound, Runner
  <2>3. runner' \in [Op -> Runner] /\ RunnersAreSound'
    BY <2>1, <2>2, RunnerMoves
  <2> QED
    BY <1>0, <1>2, <2>3 DEF Heartbeat, TypeInv, TypeOK
<1> QED
  BY <1>1, <1>2

LEMMA TickKeepsTypes ==
  ASSUME TypeInv, Tick
  PROVE  TypeInv'
<1> USE DEF rows, history
<1>0. TypeOK
  BY DEF TypeInv
<1>1. ASSUME NEW w \in Worker, Elapses(w)
      PROVE  [leases[w] EXCEPT !.left = @ - 1] \in Lease
  <2>1. leases[w] \in Lease
    BY <1>0, <1>1 DEF Elapses, TypeOK
  <2>2. leases[w].left - 1 \in 0..Ttl
    BY <1>1, <2>1, BuildAssumption DEF Elapses, Lease, BuildAssumption
  <2> QED
    BY <2>1, <2>2 DEF Lease
<1>2. leases' \in [Worker -> Lease \cup {None}]
  BY <1>0, <1>1 DEF Tick, TypeOK
<1>3. \A w \in Worker : workers[w].age <= MaxAge =>
        [workers[w] EXCEPT !.age = @ + 1]
          \in [online: BOOLEAN, roomy: BOOLEAN, age: 0..(MaxAge + 1)]
  BY <1>0, BuildAssumption DEF TypeOK, BuildAssumption
<1>4. workers' \in [Worker -> [online: BOOLEAN, roomy: BOOLEAN, age: 0..(MaxAge + 1)]]
  BY <1>0, <1>3 DEF Tick, TypeOK
<1> QED
  BY <1>0, <1>2, <1>4, RunnersStay DEF Tick, TypeInv, TypeOK

LEMMA NextKeepsTypes ==
  ASSUME TypeInv, LeasesAreNewest, [Next]_vars
  PROVE  TypeInv'
<1> USE DEF rows, history
<1>0. TypeOK
  BY DEF TypeInv
<1>1. ASSUME NEW o \in Op, RunnerStep(o)
      PROVE  TypeInv'
  BY <1>1, RunnerStepKeepsTypes
<1>2. ASSUME NEW o \in Op, Heartbeat(o)
      PROVE  TypeInv'
  BY <1>2, HeartbeatKeepsTypes
<1>3. ASSUME NEW o \in Op, Cancel(o)
      PROVE  TypeInv'
  BY <1>0, <1>3, RunnersStay DEF Cancel, TypeInv, TypeOK
<1>4. ASSUME NEW o \in Op, Finalize(o)
      PROVE  TypeInv'
  BY <1>0, <1>4, RunnersStay DEF Finalize, TypeInv, TypeOK
<1>5. ASSUME NEW w \in Worker, FleetView(w)
      PROVE  TypeInv'
  <2>1. PICK online \in BOOLEAN :
          workers' = [workers EXCEPT ![w].online = online, ![w].age = 0]
    BY <1>5 DEF FleetView
  <2>3. 0 \in 0..(MaxAge + 1)
    BY BuildAssumption DEF BuildAssumption
  <2>4. [workers[w] EXCEPT !.online = online, !.age = 0]
          \in [online: BOOLEAN, roomy: BOOLEAN, age: 0..(MaxAge + 1)]
    BY <1>0, <2>3 DEF TypeOK
  <2>5. workers' = [workers EXCEPT ![w] = [workers[w] EXCEPT !.online = online, !.age = 0]]
    BY <1>0, <2>1 DEF TypeOK
  <2>2. workers' \in [Worker -> [online: BOOLEAN, roomy: BOOLEAN, age: 0..(MaxAge + 1)]]
    BY <1>0, <2>4, <2>5 DEF TypeOK
  <2> QED
    BY <1>0, <1>5, <2>2, RunnersStay DEF FleetView, TypeInv, TypeOK
<1>6. CASE Tick
  BY <1>6, TickKeepsTypes
<1>7. CASE Crash
  <2>1. crashes' \in 0..MaxCrashes
    BY <1>0, <1>7, BuildAssumption DEF Crash, TypeOK, BuildAssumption
  <2> QED
    BY <1>0, <1>7, <2>1, IdleIsSound DEF Crash, TypeInv, TypeOK, RunnersAreSound, Sound
<1>8. CASE UNCHANGED vars
  BY <1>0, <1>8, RunnersStay DEF vars, TypeInv, TypeOK
<1> QED
  BY <1>1, <1>2, <1>3, <1>4, <1>5, <1>6, <1>7, <1>8 DEF Next

-----------------------------------------------------------------------------
(* What a step does to the lease rows and to the history. *)

(* No row appears or changes hands. *)
RowsKept ==
  \A w \in Worker :
    leases'[w] # None =>
      /\ leases[w] # None
      /\ leases'[w].op = leases[w].op
      /\ leases'[w].token = leases[w].token

Quiet == RowsKept /\ UNCHANGED <<newest, published>>

(* A result is published under a row of o, which goes. *)
PublishesFor(o) == leases' = Released(o) /\ Fence(o) /\ Publishes(o)

LEMMA WithoutKeepsRows ==
  ASSUME NEW gone, leases' = Without(gone)
  PROVE  RowsKept
  BY DEF RowsKept, Without

LEMMA ReleasedKeepsRows ==
  ASSUME NEW o \in Op, leases' = Released(o)
  PROVE  RowsKept
  BY WithoutKeepsRows DEF Released

LEMMA StepKinds ==
  ASSUME TypeInv, [Next]_vars
  PROVE  \/ Quiet
         \/ \E o \in Op, w \in Worker : Take(o, w)
         \/ \E o \in Op : PublishesFor(o)
<1> USE DEF rows, history
<1>0. TypeOK
  BY DEF TypeInv
<1>1. CASE UNCHANGED <<leases, history>>
  BY <1>1 DEF Quiet, RowsKept
<1>2. ASSUME NEW o \in Op, RunnerStep(o), ~UNCHANGED <<leases, history>>
      PROVE  \/ Quiet
             \/ \E w \in Worker : Take(o, w)
             \/ PublishesFor(o)
  <2>1. CASE Start(o) \/ StartCancelled(o) \/ SaveCheckpoint(o)
    BY <1>2, <2>1 DEF Start, StartCancelled, SaveCheckpoint
  <2>2. CASE Refused(o)
    BY <2>2, WithoutKeepsRows DEF Refused, Quiet
  <2>3. CASE \E w \in Worker : Observe(o, w)
    BY <1>2, <2>3 DEF Observe
  <2>4. ASSUME NEW w \in Worker, Renew(o, w)
        PROVE  Quiet
    <3> DEFINE kept == Without({v \in Worker : Reapable(v)})
    <3>1. leases' = [kept EXCEPT ![w].left = Ttl]
      BY <2>4 DEF Renew
    <3>2. kept \in [Worker -> Lease \cup {None}] /\ kept[w] = leases[w] /\ leases[w] \in Lease
      BY <1>0, <2>4, WithoutKeeps DEF Renew, Renewable, Without, TypeOK
    <3>3. leases'[w].op = leases[w].op /\ leases'[w].token = leases[w].token
      BY <3>1, <3>2 DEF Lease
    <3>4. leases[w] # None
      BY <2>4 DEF Renew, Renewable
    <3>5. \A v \in Worker : v # w => leases'[v] \in {None, leases[v]}
      BY <3>1, <3>2 DEF Without
    <3> QED
      BY <2>4, <3>3, <3>4, <3>5 DEF Renew, Quiet, RowsKept
  <2>5. CASE \E t \in Target, d \in Digest : Push(o, t, d)
    BY <1>2, <2>5 DEF Push
  <2>6. CASE \/ \E t \in Target, d \in Digest : PushRefused(o, t, d)
             \/ BuildThrows(o)
             \/ Unavailable(o)
    BY <2>6, ReleasedKeepsRows DEF PushRefused, BuildThrows, Unavailable, Quiet
  <2>7. CASE BuildReturns(o)
    BY <2>7, ReleasedKeepsRows DEF BuildReturns, PublishesFor, Quiet
  <2>8. CASE Verified(o)
    BY <2>8, ReleasedKeepsRows DEF Verified, PublishesFor, Quiet
  <2> QED
    BY <1>2, <2>1, <2>2, <2>3, <2>4, <2>5, <2>6, <2>7, <2>8 DEF RunnerStep
<1>3. ASSUME NEW o \in Op, Heartbeat(o)
      PROVE  Quiet
  <2>1. \A w \in Worker : Mine(o, w) =>
          /\ leases[w] # None
          /\ [leases[w] EXCEPT !.left = Ttl].op = leases[w].op
          /\ [leases[w] EXCEPT !.left = Ttl].token = leases[w].token
    BY <1>0 DEF Mine, TypeOK, Lease
  <2> QED
    BY <1>3, <2>1 DEF Heartbeat, Quiet, RowsKept
<1>4. ASSUME NEW o \in Op, Cancel(o) \/ Finalize(o)
      PROVE  UNCHANGED <<leases, history>>
  BY <1>4 DEF Cancel, Finalize
<1>5. ASSUME NEW w \in Worker, FleetView(w)
      PROVE  UNCHANGED <<leases, history>>
  BY <1>5 DEF FleetView
<1>6. CASE Tick
  <2>1. \A w \in Worker : Elapses(w) =>
          /\ leases[w] # None
          /\ [leases[w] EXCEPT !.left = @ - 1].op = leases[w].op
          /\ [leases[w] EXCEPT !.left = @ - 1].token = leases[w].token
    BY <1>0 DEF Elapses, TypeOK, Lease
  <2> QED
    BY <1>6, <2>1 DEF Tick, Quiet, RowsKept
<1>7. CASE Crash \/ UNCHANGED vars
  BY <1>1, <1>7 DEF Crash, vars
<1> QED
  BY <1>1, <1>2, <1>3, <1>4, <1>5, <1>6, <1>7 DEF Next

(* The rows a taken slot leaves: the new one, and those of the others. *)
LEMMA TakenRows ==
  ASSUME TypeInv, NEW o \in Op, NEW w \in Worker, Take(o, w)
  PROVE  /\ leases'[w].op = o /\ leases'[w].token = Fresh
         /\ \A v \in Worker :
              v # w /\ leases'[v] # None => leases'[v] = leases[v] /\ leases[v].op # o
<1> DEFINE kept == Without({v \in Worker : Stale(v, o)})
<1>1. kept \in [Worker -> Lease \cup {None}]
  BY WithoutKeeps DEF TypeInv
<1>2. leases' = [kept EXCEPT ![w] = [op |-> o, token |-> Fresh, left |-> Ttl]]
  BY DEF Take
<1>3. leases'[w].op = o /\ leases'[w].token = Fresh
  BY <1>1, <1>2
<1>4. \A v \in Worker : v # w => leases'[v] = kept[v]
  BY <1>1, <1>2
<1>5. \A v \in Worker : kept[v] # None => kept[v] = leases[v] /\ ~Stale(v, o)
  BY DEF Without
<1> QED
  BY <1>3, <1>4, <1>5 DEF Stale

(* What is published is the newest token of the worker whose row goes. *)
LEMMA PublishedRow ==
  ASSUME TypeInv, SlotInv, NEW o \in Op, PublishesFor(o)
  PROVE  \E w \in Worker :
           /\ newest[w] # 0 /\ newest[w] \notin published
           /\ published' = published \cup {newest[w]}
           /\ UNCHANGED newest
           /\ leases'[w] = None
<1>1. PICK w \in Worker : Mine(o, w)
  BY DEF PublishesFor, Fence, Holds
<1>2. newest[w] = runner[o].token /\ newest[w] # 0 /\ newest[w] \notin published
  BY <1>1 DEF Mine, SlotInv, LeasesAreNewest
<1>3. leases'[w] = None
  BY <1>1 DEF PublishesFor, Released, Without
<1> QED
  BY <1>2, <1>3 DEF PublishesFor, Publishes

-----------------------------------------------------------------------------
(* The lease rows and the history belong together. *)

LEMMA SlotInit == Init => SlotInv
  BY DEF Init, SlotInv, LeasesAreNewest, TokensDiffer

LEMMA StepKeepsSlots ==
  ASSUME TypeInv, SlotInv, [Next]_vars
  PROVE  SlotInv'
<1>0. TypeOK /\ LeasesAreNewest /\ TokensDiffer
  BY DEF TypeInv, SlotInv
<1>1. CASE Quiet
  BY <1>0, <1>1 DEF Quiet, RowsKept, SlotInv, LeasesAreNewest, TokensDiffer
<1>2. ASSUME NEW o \in Op, NEW w \in Worker, Take(o, w)
      PROVE  SlotInv'
  <2>1. /\ \A v \in Worker : newest[v] \in Nat /\ newest[v] < Fresh
        /\ Fresh \notin published /\ Fresh # 0
    BY <1>0 DEF Fresh, TypeOK
  <2>2. newest' = [newest EXCEPT ![w] = Fresh] /\ published' = published
    BY <1>2 DEF Take
  <2>3. newest'[w] = Fresh /\ \A v \in Worker : v # w => newest'[v] = newest[v]
    BY <1>0, <2>2 DEF TypeOK
  <2>4. LeasesAreNewest'
    BY <1>0, <1>2, <2>1, <2>2, <2>3, TakenRows DEF LeasesAreNewest
  <2>5. TokensDiffer'
    BY <1>0, <2>1, <2>3 DEF TokensDiffer
  <2> QED
    BY <2>4, <2>5 DEF SlotInv
<1>3. ASSUME NEW o \in Op, PublishesFor(o)
      PROVE  SlotInv'
  <2>1. PICK w \in Worker :
          /\ newest[w] # 0 /\ published' = published \cup {newest[w]}
          /\ UNCHANGED newest /\ leases'[w] = None
    BY <1>3, PublishedRow
  <2>2. RowsKept
    BY <1>3, ReleasedKeepsRows DEF PublishesFor
  <2>3. LeasesAreNewest'
    BY <1>0, <2>1, <2>2 DEF RowsKept, LeasesAreNewest, TokensDiffer
  <2>4. TokensDiffer'
    BY <1>0, <2>1 DEF TokensDiffer
  <2> QED
    BY <2>3, <2>4 DEF SlotInv
<1> QED
  BY <1>1, <1>2, <1>3, StepKinds

(* The lease, runner, artifact and checkpoint tables keep their types, and *)
(* every row of build_worker_leases carries the newest, still unpublished  *)
(* token of its worker: expiry, reaping, renewal and restarts included.    *)
THEOREM LeasesTyped == Spec => [](TypeOK /\ SlotInv)
<1>1. Init => TypeInv /\ SlotInv
  BY TypeInit, SlotInit
<1>2. TypeInv /\ SlotInv /\ [Next]_vars => TypeInv' /\ SlotInv'
  BY NextKeepsTypes, StepKeepsSlots DEF SlotInv
<1>3. TypeInv => TypeOK
  BY DEF TypeInv
<1> QED
  BY <1>1, <1>2, <1>3, PTL DEF Spec

-----------------------------------------------------------------------------
(* One slot for one operation. *)

(* tryAcquireBuildWorkerLease never leaves an operation with two slots.    *)
THEOREM OneSlotAlways == Spec => []OneSlotPerOperation
<1> DEFINE Inv == TypeInv /\ SlotInv /\ OneSlotPerOperation
<1>1. Init => Inv
  BY TypeInit, SlotInit DEF Init, OneSlotPerOperation
<1>2. Inv /\ [Next]_vars => Inv'
  <2> SUFFICES ASSUME Inv, [Next]_vars
               PROVE  Inv'
    OBVIOUS
  <2>1. TypeInv' /\ SlotInv'
    BY NextKeepsTypes, StepKeepsSlots DEF SlotInv
  <2>2. ASSUME RowsKept
        PROVE  OneSlotPerOperation'
    BY <2>2 DEF RowsKept, OneSlotPerOperation
  <2>3. ASSUME NEW o \in Op, NEW w \in Worker, Take(o, w)
        PROVE  OneSlotPerOperation'
    BY <2>3, TakenRows DEF OneSlotPerOperation
  <2>4. OneSlotPerOperation'
    BY <2>2, <2>3, StepKinds, ReleasedKeepsRows DEF Quiet, PublishesFor
  <2> QED
    BY <2>1, <2>4
<1> QED
  BY <1>1, <1>2, PTL DEF Spec

-----------------------------------------------------------------------------
(* The fence. *)

LEMMA StepIsFenced ==
  ASSUME TypeInv, SlotInv, [Next]_vars
  PROVE  [Slots!Next]_<<newest, published>>
<1>0. TypeOK
  BY DEF TypeInv
<1>1. CASE Quiet
  BY <1>1 DEF Quiet
<1>2. ASSUME NEW o \in Op, NEW w \in Worker, Take(o, w)
      PROVE  Slots!Grant(w)
  <2>1. Fresh \in Nat /\ \A v \in Worker : newest[v] < Fresh
    BY <1>0 DEF Fresh, TypeOK
  <2>2. newest' = [newest EXCEPT ![w] = Fresh] /\ published' = published
    BY <1>2 DEF Take
  <2>3. newest'[w] = Fresh
    BY <1>0, <2>2 DEF TypeOK
  <2> QED
    BY <1>0, <2>1, <2>2, <2>3 DEF Slots!Grant, TypeOK
<1>3. ASSUME NEW o \in Op, PublishesFor(o)
      PROVE  \E w \in Worker : Slots!Publish(w)
  BY <1>3, PublishedRow DEF Slots!Publish
<1> QED
  BY <1>1, <1>2, <1>3, StepKinds DEF Slots!Next

(* The leases, heartbeats and fence of withWorker implement FencedSlots: a *)
(* build result is returned only under the newest token of its worker, and *)
(* once.                                                                   *)
THEOREM PublicationIsFenced == Spec => FencedPublication
<1>1. Init => Slots!Init
  BY DEF Init, Slots!Init
<1>2. Init => TypeInv /\ SlotInv
  BY TypeInit, SlotInit
<1>3. TypeInv /\ SlotInv /\ [Next]_vars => TypeInv' /\ SlotInv'
  BY NextKeepsTypes, StepKeepsSlots DEF SlotInv
<1>4. TypeInv /\ SlotInv /\ [Next]_vars => [Slots!Next]_(Slots!vars)
  BY StepIsFenced DEF Slots!vars
<1> QED
  BY <1>1, <1>2, <1>3, <1>4, PTL DEF Spec, FencedPublication, Slots!Spec

-----------------------------------------------------------------------------
(* What is recorded. *)

(* A record is only added by a push, and never replaced by one. *)
ArtifactsStay ==
  \A o \in Op : \A t \in Recorded(o) : artifacts'[o][t] = artifacts[o][t]

PushesSome == \E o \in Op, t \in Target, d \in Digest : Push(o, t, d)

LEMMA OnlyPushesRecord ==
  ASSUME [Next]_vars, ~PushesSome
  PROVE  UNCHANGED artifacts
  BY DEF PushesSome, Next, RunnerStep, vars, rows, Start, StartCancelled, Refused, Observe,
         Renew, Take, PushRefused, BuildThrows, Unavailable, SaveCheckpoint, BuildReturns,
         Verified, Heartbeat, Cancel, Finalize, FleetView, Tick, Crash

(* The row a push leaves. *)
LEMMA PushedRow ==
  ASSUME TypeOK, NEW o \in Op, NEW t \in Target, NEW d \in Digest, Push(o, t, d)
  PROVE  /\ artifacts'[o][t] = [worker |-> runner[o].worker, digest |-> d]
         /\ artifacts[o][t] \in {None, artifacts'[o][t]}
         /\ \A p \in Op : \A u \in Target :
              p # o \/ u # t => artifacts'[p][u] = artifacts[p][u]
  BY DEF TypeOK, Push, Recordable

LEMMA StepKeepsArtifacts ==
  ASSUME TypeOK, [Next]_vars
  PROVE  ArtifactsStay
<1>1. CASE ~PushesSome
  BY <1>1, OnlyPushesRecord DEF ArtifactsStay
<1>2. ASSUME NEW o \in Op, NEW t \in Target, NEW d \in Digest, Push(o, t, d)
      PROVE  ArtifactsStay
  <2>1. /\ artifacts[o][t] # None => artifacts'[o][t] = artifacts[o][t]
        /\ \A p \in Op : \A u \in Target :
             p # o \/ u # t => artifacts'[p][u] = artifacts[p][u]
    BY <1>2, PushedRow
  <2>2. \A p \in Op : \A u \in Target :
          artifacts[p][u] # None => artifacts'[p][u] = artifacts[p][u]
    BY <2>1
  <2> QED
    BY <2>2 DEF ArtifactsStay, Recorded
<1> QED
  BY <1>1, <1>2 DEF PushesSome

(* recordBuildArtifact never replaces a digest, whoever runs the build     *)
(* again.                                                                  *)
THEOREM DigestsStayFinal == Spec => DigestsAreFinal
<1>1. TypeOK /\ [Next]_vars => [ArtifactsStay]_vars
  BY StepKeepsArtifacts
<1>2. Spec => []TypeOK
  BY LeasesTyped, PTL
<1>3. Spec => [][ArtifactsStay]_vars
  BY <1>1, <1>2, PTL DEF Spec
<1> QED
  BY <1>3, PTL DEF DigestsAreFinal, ArtifactsStay

-----------------------------------------------------------------------------
(* What a build step that succeeds has recorded. *)

(* Where a build step is, what it relies on is among the recorded.         *)
Whole(recorded, x) ==
  /\ x.pushed \subseteq recorded
  /\ x.task = "verify" => recorded = Target
  /\ x.pc = "saved" => x.pushed = Target
RunnersAreWhole == \A o \in Op : Whole(Recorded(o), runner[o])

LEMMA RecordedGrows ==
  ASSUME ArtifactsStay, NEW o \in Op
  PROVE  Recorded(o) \subseteq Recorded(o)' /\ Recorded(o)' \subseteq Target
  BY DEF ArtifactsStay, Recorded

LEMMA WholeStays ==
  ASSUME ArtifactsStay, NEW o \in Op, NEW x, Whole(Recorded(o), x)
  PROVE  Whole(Recorded(o)', x)
  BY RecordedGrows DEF Whole, Recorded

LEMMA IdleIsWhole == \A recorded : Whole(recorded, Idle)
  BY DEF Whole, Idle

LEMMA AskingIsWhole ==
  \A recorded, attempt, excluded, ready :
    Whole(recorded, Asking("build", attempt, excluded, ready))
  BY DEF Whole, Idle, Asking

(* One runner moves to a place that is whole. *)
LEMMA WholeMoves ==
  ASSUME TypeInv, RunnersAreWhole, ArtifactsStay, NEW o \in Op, NEW x,
         Whole(Recorded(o)', x), runner' = [runner EXCEPT ![o] = x]
  PROVE  RunnersAreWhole'
<1>1. runner'[o] = x /\ \A p \in Op : p # o => runner'[p] = runner[p]
  BY DEF TypeInv, TypeOK
<1>2. \A p \in Op : Whole(Recorded(p)', runner[p])
  BY WholeStays DEF RunnersAreWhole
<1> QED
  BY <1>1, <1>2 DEF RunnersAreWhole

LEMMA WholeRest ==
  ASSUME RunnersAreWhole, ArtifactsStay, UNCHANGED runner
  PROVE  RunnersAreWhole'
  BY WholeStays DEF RunnersAreWhole

LEMMA WholeFalls ==
  ASSUME TypeInv, RunnersAreWhole, ArtifactsStay, NEW o \in Op, FallThrough(o)
  PROVE  RunnersAreWhole'
<1>1. PICK ready \in SUBSET Worker :
        runner' = [runner EXCEPT ![o] = Asking("build", 1, {}, ready)]
  BY DEF FallThrough
<1>2. Whole(Recorded(o)', Asking("build", 1, {}, ready))
  BY AskingIsWhole
<1> QED
  BY <1>1, <1>2, WholeMoves

LEMMA WholeLeaves ==
  ASSUME TypeInv, RunnersAreWhole, ArtifactsStay, NEW o \in Op,
         LeaveFailed(o) \/ LeaveBuilt(o)
  PROVE  RunnersAreWhole'
<1>1. runner' = [runner EXCEPT ![o] = Idle]
  BY DEF LeaveFailed, LeaveBuilt
<1>2. Whole(Recorded(o)', Idle)
  BY IdleIsWhole
<1> QED
  BY <1>1, <1>2, WholeMoves

LEMMA RunnerStepKeepsWhole ==
  ASSUME TypeInv, RunnersAreWhole, ArtifactsStay, NEW o \in Op, RunnerStep(o)
  PROVE  RunnersAreWhole'
<1>0. TypeOK /\ runner[o] \in Runner /\ Whole(Recorded(o)', runner[o])
  BY WholeStays DEF TypeInv, TypeOK, RunnersAreWhole
<1>1. CASE Start(o)
  <2>1. PICK ready \in SUBSET Worker :
          runner' = [runner EXCEPT ![o] =
            Asking(IF Recoverable(o) THEN "verify" ELSE "build", 1, {}, ready)]
    BY <1>1 DEF Start
  <2>2. Recoverable(o) => Recorded(o)' = Target
    BY RecordedGrows DEF Recoverable
  <2>3. Whole(Recorded(o)', Asking(IF Recoverable(o) THEN "verify" ELSE "build", 1, {}, ready))
    BY <2>2 DEF Whole, Asking, Idle
  <2> QED
    BY <2>1, <2>3, WholeMoves
<1>2. CASE StartCancelled(o)
  BY <1>2, WholeRest DEF StartCancelled
<1>3. CASE Refused(o) \/ BuildThrows(o)
  BY <1>3, WholeFalls, WholeLeaves DEF Refused, BuildThrows, Throws
<1>4. ASSUME NEW w \in Worker, Observe(o, w)
      PROVE  RunnersAreWhole'
  <2>1. PICK online, amd64 \in BOOLEAN :
          runner' = [runner EXCEPT ![o].asked = @ \ {w},
            ![o].candidates = IF online /\ amd64 THEN @ \cup {w} ELSE @]
    BY <1>4 DEF Observe
  <2> DEFINE x == [runner[o] EXCEPT !.asked = @ \ {w},
                     !.candidates = IF online /\ amd64 THEN @ \cup {w} ELSE @]
  <2>2. runner' = [runner EXCEPT ![o] = x]
    BY <1>0, <2>1 DEF TypeOK, Runner
  <2>3. Whole(Recorded(o)', x)
    BY <1>0 DEF Whole, Runner
  <2> QED
    BY <2>2, <2>3, WholeMoves
<1>5. ASSUME NEW w \in Worker, NEW token, runner' = [runner EXCEPT ![o] = Holding(@, w, token)]
      PROVE  RunnersAreWhole'
  <2>1. Whole(Recorded(o)', Holding(runner[o], w, token))
    BY <1>0 DEF Whole, Holding, Runner
  <2>2. runner' = [runner EXCEPT ![o] = Holding(runner[o], w, token)]
    BY <1>5
  <2> QED
    BY <2>1, <2>2, WholeMoves
<1>6. CASE \E w \in Worker : Renew(o, w) \/ Take(o, w)
  BY <1>5, <1>6 DEF Renew, Take
<1>7. ASSUME NEW t \in Target, NEW d \in Digest, Push(o, t, d)
      PROVE  RunnersAreWhole'
  <2> DEFINE x == [runner[o] EXCEPT !.pushed = @ \cup {t}]
  <2>1. runner' = [runner EXCEPT ![o] = x]
    BY <1>0, <1>7 DEF Push, TypeOK
  <2>2. runner[o].worker \in Worker
    BY <1>7 DEF Push, InTask, TypeInv, RunnersAreSound, Sound
  <2>5. artifacts'[o][t] = [worker |-> runner[o].worker, digest |-> d]
    BY <1>0, <1>7, PushedRow
  <2>6. [worker |-> runner[o].worker, digest |-> d] # None
    BY <2>2, BuildAssumption DEF BuildAssumption
  <2>3. t \in Recorded(o)'
    BY <2>5, <2>6 DEF Recorded
  <2>4. Whole(Recorded(o)', x)
    BY <1>0, <1>7, <2>3 DEF Whole, Runner, Push, InTask
  <2> QED
    BY <2>1, <2>4, WholeMoves
<1>8. CASE \E t \in Target, d \in Digest : PushRefused(o, t, d)
  BY <1>8, WholeLeaves DEF PushRefused
<1>9. CASE Unavailable(o)
  <2>1. PICK ready \in SUBSET Worker :
          runner' = [runner EXCEPT ![o] = Asking("build", 2, {runner[o].worker}, ready)]
    BY <1>9 DEF Unavailable
  <2>2. Whole(Recorded(o)', Asking("build", 2, {runner[o].worker}, ready))
    BY AskingIsWhole
  <2> QED
    BY <2>1, <2>2, WholeMoves
<1>10. CASE SaveCheckpoint(o)
  <2> DEFINE x == [runner[o] EXCEPT !.pc = "saved"]
  <2>1. runner' = [runner EXCEPT ![o] = x]
    BY <1>0, <1>10 DEF SaveCheckpoint, TypeOK
  <2>2. Whole(Recorded(o)', x)
    BY <1>0, <1>10 DEF Whole, Runner, SaveCheckpoint
  <2> QED
    BY <2>1, <2>2, WholeMoves
<1>11. CASE BuildReturns(o) \/ Verified(o)
  BY <1>11, WholeFalls, WholeLeaves DEF BuildReturns, Verified, Publishes
<1> QED
  BY <1>1, <1>2, <1>3, <1>4, <1>6, <1>7, <1>8, <1>9, <1>10, <1>11 DEF RunnerStep

LEMMA StepKeepsWhole ==
  ASSUME TypeInv, RunnersAreWhole, [Next]_vars
  PROVE  RunnersAreWhole'
<1>0. ArtifactsStay
  BY StepKeepsArtifacts DEF TypeInv
<1>1. ASSUME NEW o \in Op, RunnerStep(o)
      PROVE  RunnersAreWhole'
  BY <1>0, <1>1, RunnerStepKeepsWhole
<1>2. ASSUME NEW o \in Op, Heartbeat(o)
      PROVE  RunnersAreWhole'
  <2> DEFINE x == [runner[o] EXCEPT !.lost = TRUE]
  <2>1. CASE UNCHANGED runner
    BY <1>0, <2>1, WholeRest
  <2>2. CASE runner' = [runner EXCEPT ![o].lost = TRUE]
    <3>1. runner' = [runner EXCEPT ![o] = x]
      BY <2>2 DEF TypeInv, TypeOK
    <3>2. Whole(Recorded(o)', runner[o])
      BY <1>0, WholeStays DEF RunnersAreWhole
    <3>3. Whole(Recorded(o)', x)
      BY <3>2 DEF Whole, TypeInv, TypeOK, Runner
    <3> QED
      BY <1>0, <3>1, <3>3, WholeMoves
  <2> QED
    BY <1>2, <2>1, <2>2 DEF Heartbeat
<1>3. CASE Crash
  BY <1>3, IdleIsWhole DEF Crash, RunnersAreWhole
<1>4. CASE UNCHANGED runner
  BY <1>0, <1>4, WholeRest
<1> QED
  BY <1>1, <1>2, <1>3, <1>4 DEF Next, Cancel, Finalize, FleetView, Tick, vars

(* A step is only recorded by an operation that has everything recorded. *)
LEMMA StepBuildsWhole ==
  ASSUME TypeInv, RunnersAreWhole, BuiltIsWhole, [Next]_vars
  PROVE  BuiltIsWhole'
<1> USE DEF rows
<1>0. ArtifactsStay /\ TypeOK
  BY StepKeepsArtifacts DEF TypeInv
<1>1. ASSUME \A o \in Op : status'[o] = "built" => status[o] = "built"
      PROVE  BuiltIsWhole'
  BY <1>0, <1>1, RecordedGrows DEF BuiltIsWhole
<1>2. ASSUME NEW o \in Op, LeaveBuilt(o), Recorded(o) = Target
      PROVE  BuiltIsWhole'
  BY <1>0, <1>2, RecordedGrows DEF BuiltIsWhole, LeaveBuilt, TypeOK
<1>3. ASSUME NEW o \in Op, LeaveFailed(o) \/ UNCHANGED status
      PROVE  \A p \in Op : status'[p] = "built" => status[p] = "built"
  BY <1>0, <1>3 DEF LeaveFailed, TypeOK
<1>4. ASSUME NEW o \in Op, BuildReturns(o) \/ Verified(o)
      PROVE  BuiltIsWhole'
  <2>1. Recorded(o) \subseteq Target
    BY DEF Recorded
  <2>2. Recorded(o) = Target
    BY <1>4, <2>1 DEF BuildReturns, Verified, InTask, RunnersAreWhole, Whole
  <2> QED
    BY <1>1, <1>2, <1>3, <1>4, <2>2 DEF BuildReturns, Verified, Publishes
<1>5. ASSUME NEW o \in Op, RunnerStep(o), ~BuildReturns(o), ~Verified(o)
      PROVE  \A p \in Op : status'[p] = "built" => status[p] = "built"
  BY <1>0, <1>3, <1>5 DEF RunnerStep, Start, StartCancelled, Refused, Throws, Observe, Renew,
     Take, Push, PushRefused, BuildThrows, Unavailable, SaveCheckpoint, TypeOK
<1>6. ASSUME NEW o \in Op, Finalize(o)
      PROVE  \A p \in Op : status'[p] = "built" => status[p] = "built"
  BY <1>0, <1>6 DEF Finalize, TypeOK
<1>7. CASE UNCHANGED status
  BY <1>1, <1>7
<1> QED
  BY <1>1, <1>4, <1>5, <1>6, <1>7
     DEF Next, Heartbeat, Cancel, FleetView, Tick, Crash, vars

(* A build step succeeds, by building or by recovering, only with a digest *)
(* recorded for every target, whatever was pushed before a restart.        *)
THEOREM BuiltAlwaysWhole == Spec => []BuiltIsWhole
<1> DEFINE Inv == RunnersAreWhole /\ BuiltIsWhole
<1>1. Init => TypeInv /\ SlotInv /\ Inv
  BY TypeInit, SlotInit, IdleIsWhole DEF Init, RunnersAreWhole, BuiltIsWhole
<1>2. TypeInv /\ SlotInv /\ Inv /\ [Next]_vars => TypeInv' /\ SlotInv' /\ Inv'
  BY NextKeepsTypes, StepKeepsSlots, StepKeepsWhole, StepBuildsWhole DEF SlotInv
<1> QED
  BY <1>1, <1>2, PTL DEF Spec

-----------------------------------------------------------------------------
(* What is recorded for an operation is one build, fail-over starts clean, *)
(* and a run that ends gives its lease back.                               *)

USE DEF Leased, OwnedBy, Expired

-----------------------------------------------------------------------------
(* One build per operation. *)

(* The operation has a first recorded target as soon as it has one: the    *)
(* targets are numbered.                                                   *)
LEMMA FirstIsRecorded ==
  ASSUME NEW o \in Op, Recorded(o) # {}
  PROVE  First(o) \in Recorded(o)
<1>1. Recorded(o) \subseteq Nat
  BY BuildAssumption DEF BuildAssumption, Recorded
<1>2. PICK t \in Recorded(o) : \A u \in Recorded(o) : ~ (<<u, t>> \in OpToRel(<, Nat))
  BY <1>1, NatLessThanWellFounded, WFMin
<1>3. \A u, v \in Nat : u < v => <<u, v>> \in OpToRel(<, Nat)
  BY Zenon DEF OpToRel
<1>4. \A u \in Recorded(o) : ~ (u < t)
  BY <1>1, <1>2, <1>3
<1>5. \A u \in Recorded(o) : t <= u
  BY <1>1, <1>4
<1> QED
  BY <1>5 DEF First

(* A build that passes assertMatchingIdentity runs on the worker of all    *)
(* that is recorded.                                                       *)
LEMMA SameBuildMeansOneWorker ==
  ASSUME OneBuildPerOperation, NEW o \in Op, SameBuild(o), NEW t \in Recorded(o)
  PROVE  artifacts[o][t].worker = runner[o].worker
  BY FirstIsRecorded DEF OneBuildPerOperation, SameBuild

LEMMA StepKeepsOneBuild ==
  ASSUME TypeInv, RunnersAreWhole, OneBuildPerOperation, [Next]_vars
  PROVE  OneBuildPerOperation'
<1> USE DEF rows
<1>0. TypeOK
  BY DEF TypeInv
<1>1. ASSUME NEW o \in Op, NEW t \in Target, NEW d \in Digest, Push(o, t, d)
      PROVE  OneBuildPerOperation'
  <2>1. /\ SameBuild(o)
        /\ UNCHANGED checkpoint
    BY <1>1 DEF Push, Recordable
  <2>2. /\ artifacts'[o][t] = [worker |-> runner[o].worker, digest |-> d]
        /\ \A p \in Op : \A u \in Target :
             p # o \/ u # t => artifacts'[p][u] = artifacts[p][u]
    BY <1>0, <1>1, PushedRow
  <2>3. /\ artifacts'[o][t].worker = runner[o].worker
        /\ \A p \in Op : \A u \in Target :
             p # o \/ u # t => artifacts'[p][u] = artifacts[p][u]
    BY <2>2
  <2>4. \A u \in Recorded(o)' : artifacts'[o][u].worker = runner[o].worker
    BY <2>1, <2>3, SameBuildMeansOneWorker DEF Recorded
  <2>5. \A u \in Target : artifacts[o][u] # None => artifacts'[o][u] # None
    <3>1. ArtifactsStay
      BY <1>0, StepKeepsArtifacts
    <3> QED
      BY <3>1 DEF ArtifactsStay, Recorded
  <2>6. checkpoint'[o] # None =>
          \A u \in Target : artifacts'[o][u] # None /\ artifacts'[o][u].worker = checkpoint'[o]
    BY <2>1, <2>4, <2>5 DEF OneBuildPerOperation, SameBuild, Recorded
  <2>7. ASSUME NEW p \in Op, p # o
        PROVE  Recorded(p)' = Recorded(p)
    BY <2>3, <2>7 DEF Recorded
  <2> QED
    BY <2>1, <2>4, <2>6, <2>7, <2>3 DEF OneBuildPerOperation, Recorded
<1>2. ASSUME NEW o \in Op, SaveCheckpoint(o)
      PROVE  OneBuildPerOperation'
  <2>1. Recorded(o) = Target
    BY <1>2 DEF SaveCheckpoint, RunnersAreWhole, Whole, Recorded
  <2>2. \A t \in Target : artifacts[o][t] # None /\ artifacts[o][t].worker = runner[o].worker
    BY <1>2, <2>1, SameBuildMeansOneWorker DEF SaveCheckpoint, Recorded
  <2>3. checkpoint'[o] = runner[o].worker /\ \A p \in Op : p # o => checkpoint'[p] = checkpoint[p]
    BY <1>0, <1>2 DEF SaveCheckpoint, TypeOK
  <2>4. UNCHANGED artifacts
    BY <1>2 DEF SaveCheckpoint
  <2> QED
    BY <2>2, <2>3, <2>4 DEF OneBuildPerOperation, Recorded
<1>3. CASE UNCHANGED <<artifacts, checkpoint>>
  BY <1>3 DEF OneBuildPerOperation, Recorded
<1>4. ASSUME NEW o \in Op, RunnerStep(o), ~SaveCheckpoint(o), ~PushesSome
      PROVE  UNCHANGED <<artifacts, checkpoint>>
  BY <1>4 DEF RunnerStep, PushesSome, Start, StartCancelled, Refused, Observe, Renew, Take,
     PushRefused, BuildThrows, Unavailable, BuildReturns, Verified
<1> QED
  BY <1>1, <1>2, <1>3, <1>4
     DEF PushesSome, Next, Heartbeat, Cancel, Finalize, FleetView, Tick, Crash, vars

(* What is recorded for an operation is one build, on one worker, whatever *)
(* crashed, was lost or ran again in between; and the checkpoint vouches   *)
(* for every target.                                                       *)
THEOREM OneBuildAlways == Spec => []OneBuildPerOperation
<1> DEFINE Inv == TypeInv /\ SlotInv /\ RunnersAreWhole /\ OneBuildPerOperation
<1>1. Init => Inv
  BY TypeInit, SlotInit, IdleIsWhole
     DEF Init, RunnersAreWhole, OneBuildPerOperation, Recorded
<1>2. Inv /\ [Next]_vars => Inv'
  BY NextKeepsTypes, StepKeepsSlots, StepKeepsWhole, StepKeepsOneBuild DEF SlotInv
<1> QED
  BY <1>1, <1>2, PTL DEF Spec
-----------------------------------------------------------------------------
(* Where the runner of an operation can be after a step. *)

UnderLease(x) == x.pc \in {"working", "saved"}

(* What one step does to a runner: it stays, starts over on other workers, *)
(* hears an answer, gets a lease, or goes on with its work.                *)
Restarts(o, x) ==
  /\ x.pc = "probing" /\ x.worker = None /\ x.candidates = {}
  /\ \/ x.attempt = 1
     \/ /\ x.attempt = 2 /\ Recorded(o) = {} /\ UNCHANGED artifacts
        /\ x.asked \cap x.excluded = {}
Hears(o, x) ==
  /\ runner[o].pc = "probing" /\ x.pc = "probing"
  /\ x.attempt = runner[o].attempt /\ x.excluded = runner[o].excluded
  /\ x.worker = runner[o].worker /\ UNCHANGED artifacts
  /\ x.asked \cup x.candidates \subseteq runner[o].asked \cup runner[o].candidates
Gets(o, x) ==
  /\ x.pc = "working" /\ x.worker \in runner[o].candidates
  /\ x.attempt = runner[o].attempt /\ x.excluded = runner[o].excluded
  /\ x.asked = runner[o].asked /\ x.candidates = runner[o].candidates
  /\ \E w \in Worker : Renew(o, w) \/ Take(o, w)
WorksOn(o, x) ==
  /\ UnderLease(runner[o]) /\ UnderLease(x)
  /\ x.attempt = runner[o].attempt /\ x.excluded = runner[o].excluded
  /\ x.worker = runner[o].worker /\ x.token = runner[o].token
  /\ x.asked = runner[o].asked /\ x.candidates = runner[o].candidates

Moves(o) ==
  \/ runner'[o] = Idle
  \/ Restarts(o, runner'[o]) \/ Hears(o, runner'[o]) \/ Gets(o, runner'[o]) \/ WorksOn(o, runner'[o])
Rests(o) == runner'[o] = runner[o] /\ artifacts'[o] = artifacts[o]

LEMMA FallsMove ==
  ASSUME TypeInv, NEW o \in Op, FallThrough(o)
  PROVE  Moves(o)
  BY DEF TypeInv, TypeOK, FallThrough, Moves, Restarts, Asking, Idle

LEMMA LeavesMove ==
  ASSUME TypeInv, NEW o \in Op, LeaveFailed(o) \/ LeaveBuilt(o)
  PROVE  Moves(o)
  BY DEF TypeInv, TypeOK, LeaveFailed, LeaveBuilt, Moves

LEMMA RunnerStepMoves ==
  ASSUME TypeInv, NEW o \in Op, RunnerStep(o)
  PROVE  Moves(o) \/ Rests(o)
<1> USE DEF rows
<1>0. TypeOK /\ runner[o] \in Runner /\ Sound(runner[o])
  BY DEF TypeInv, TypeOK, RunnersAreSound
<1>1. CASE Start(o)
  BY <1>0, <1>1 DEF Start, Asking, Idle, Moves, Restarts, TypeOK
<1>2. CASE StartCancelled(o)
  BY <1>2 DEF StartCancelled, Rests
<1>3. CASE Refused(o) \/ BuildThrows(o)
  BY <1>3, FallsMove, LeavesMove DEF Refused, BuildThrows, Throws
<1>4. ASSUME NEW w \in Worker, Observe(o, w)
      PROVE  Moves(o)
  <2>1. PICK online, amd64 \in BOOLEAN :
          runner' = [runner EXCEPT ![o].asked = @ \ {w},
            ![o].candidates = IF online /\ amd64 THEN @ \cup {w} ELSE @]
    BY <1>4 DEF Observe
  <2>2. runner'[o] = [runner[o] EXCEPT !.asked = @ \ {w},
                        !.candidates = IF online /\ amd64 THEN @ \cup {w} ELSE @]
    BY <1>0, <2>1 DEF TypeOK, Runner
  <2>3. /\ runner[o].pc = "probing" /\ w \in runner[o].asked /\ UNCHANGED artifacts
        /\ runner'[o].pc = runner[o].pc /\ runner'[o].attempt = runner[o].attempt
        /\ runner'[o].excluded = runner[o].excluded /\ runner'[o].worker = runner[o].worker
        /\ runner'[o].asked = runner[o].asked \ {w}
        /\ runner'[o].candidates \in {runner[o].candidates, runner[o].candidates \cup {w}}
    BY <1>0, <1>4, <2>2 DEF Observe, Runner
  <2>4. runner'[o].asked \cup runner'[o].candidates
          \subseteq runner[o].asked \cup runner[o].candidates
    BY <2>3
  <2> QED
    BY <2>3, <2>4 DEF Moves, Hears
<1>5. ASSUME NEW w \in Worker, Renew(o, w) \/ Take(o, w)
      PROVE  Moves(o)
  <2>1. PICK token : runner' = [runner EXCEPT ![o] = Holding(@, w, token)]
    BY <1>5 DEF Renew, Take
  <2>2. runner'[o] = Holding(runner[o], w, token)
    BY <1>0, <2>1 DEF TypeOK
  <2>3. w \in runner[o].candidates
    BY <1>5 DEF Renew, Renewable, Take, Takeable
  <2>4. Gets(o, runner'[o])
    BY <1>0, <1>5, <2>2, <2>3 DEF Gets, Holding, Runner
  <2> QED
    BY <2>4 DEF Moves
<1>6. ASSUME NEW t \in Target, NEW d \in Digest, Push(o, t, d)
      PROVE  Moves(o)
  <2>1. runner'[o] = [runner[o] EXCEPT !.pushed = @ \cup {t}]
    BY <1>0, <1>6 DEF Push, TypeOK
  <2>2. WorksOn(o, runner'[o])
    BY <1>0, <1>6, <2>1 DEF Push, InTask, WorksOn, UnderLease, Runner
  <2> QED
    BY <2>2 DEF Moves
<1>7. CASE \E t \in Target, d \in Digest : PushRefused(o, t, d)
  BY <1>7, LeavesMove DEF PushRefused
<1>8. CASE Unavailable(o)
  <2>1. PICK ready \in SUBSET Worker :
          runner'[o] = Asking("build", 2, {runner[o].worker}, ready)
    BY <1>0, <1>8 DEF Unavailable, TypeOK
  <2>2. Restarts(o, runner'[o])
    BY <1>8, <2>1 DEF Unavailable, FailsOver, Asking, Idle, Restarts
  <2> QED
    BY <2>2 DEF Moves
<1>9. CASE SaveCheckpoint(o)
  <2>1. runner'[o] = [runner[o] EXCEPT !.pc = "saved"]
    BY <1>0, <1>9 DEF SaveCheckpoint, TypeOK
  <2>2. WorksOn(o, runner'[o])
    BY <1>0, <1>9, <2>1 DEF SaveCheckpoint, InTask, WorksOn, UnderLease, Runner
  <2> QED
    BY <2>2 DEF Moves
<1>10. CASE BuildReturns(o) \/ Verified(o)
  BY <1>10, FallsMove, LeavesMove DEF BuildReturns, Verified, Publishes
<1> QED
  BY <1>1, <1>2, <1>3, <1>4, <1>5, <1>6, <1>7, <1>8, <1>9, <1>10 DEF RunnerStep
LEMMA OthersRest ==
  ASSUME TypeOK, NEW p \in Op, RunnerStep(p), NEW o \in Op, o # p
  PROVE  Rests(o)
<1> USE DEF rows, Rests
<1>1. ASSUME FallThrough(p) \/ LeaveFailed(p) \/ LeaveBuilt(p)
      PROVE  runner'[o] = runner[o]
  BY <1>1 DEF FallThrough, LeaveFailed, LeaveBuilt, TypeOK
<1>2. CASE Start(p) \/ StartCancelled(p) \/ Unavailable(p) \/ SaveCheckpoint(p)
  BY <1>2 DEF Start, StartCancelled, Unavailable, SaveCheckpoint, TypeOK
<1>3. CASE \E w \in Worker : Observe(p, w) \/ Renew(p, w) \/ Take(p, w)
  BY <1>3 DEF Observe, Renew, Take, TypeOK
<1>4. CASE \E t \in Target, d \in Digest : Push(p, t, d)
  BY <1>4 DEF Push, TypeOK
<1>5. CASE \/ \E t \in Target, d \in Digest : PushRefused(p, t, d)
           \/ Refused(p) \/ BuildThrows(p) \/ BuildReturns(p) \/ Verified(p)
  BY <1>1, <1>5 DEF PushRefused, Refused, BuildThrows, Throws, BuildReturns, Verified, Publishes
<1> QED
  BY <1>2, <1>3, <1>4, <1>5 DEF RunnerStep

LEMMA StepMoves ==
  ASSUME TypeInv, [Next]_vars, NEW o \in Op
  PROVE  Moves(o) \/ Rests(o)
<1> USE DEF rows
<1>0. TypeOK /\ runner[o] \in Runner
  BY DEF TypeInv, TypeOK
<1>1. ASSUME NEW p \in Op, RunnerStep(p)
      PROVE  Moves(o) \/ Rests(o)
  BY <1>0, <1>1, RunnerStepMoves, OthersRest
<1>2. ASSUME NEW p \in Op, Heartbeat(p)
      PROVE  Moves(o) \/ Rests(o)
  <2>1. UNCHANGED artifacts
    BY <1>2 DEF Heartbeat
  <2>2. CASE UNCHANGED runner \/ p # o
    BY <1>0, <1>2, <2>1, <2>2 DEF Heartbeat, Rests, TypeOK
  <2>3. CASE runner' = [runner EXCEPT ![p].lost = TRUE] /\ p = o
    <3>1. runner'[o] = [runner[o] EXCEPT !.lost = TRUE]
      BY <1>0, <2>3 DEF TypeOK
    <3>2. WorksOn(o, runner'[o])
      BY <1>0, <1>2, <2>3, <3>1 DEF Heartbeat, WorksOn, UnderLease, Runner
    <3> QED
      BY <3>2 DEF Moves
  <2> QED
    BY <1>2, <2>2, <2>3 DEF Heartbeat
<1>3. CASE Crash
  BY <1>3 DEF Crash, Moves
<1>4. CASE UNCHANGED <<runner, artifacts>>
  BY <1>4 DEF Rests
<1> QED
  BY <1>1, <1>2, <1>3, <1>4 DEF Next, Cancel, Finalize, FleetView, Tick, vars

-----------------------------------------------------------------------------
(* Fail-over. *)

(* On its second attempt an operation has nothing recorded until it has a  *)
(* lease, and asks nobody that it excludes.                                *)
Clean(recorded, x) ==
  x.attempt = 2 =>
    /\ x.pc = "probing" => recorded = {}
    /\ x.worker \notin x.excluded
    /\ (x.asked \cup x.candidates) \cap x.excluded = {}
RunnersAreClean == \A o \in Op : Clean(Recorded(o), runner[o])

LEMMA StepKeepsClean ==
  ASSUME TypeInv, TypeInv', RunnersAreClean, [Next]_vars
  PROVE  RunnersAreClean'
<1> SUFFICES ASSUME NEW o \in Op
             PROVE  Clean(Recorded(o)', runner'[o])
  BY DEF RunnersAreClean
<1>0. /\ runner[o] \in Runner /\ runner'[o] \in Runner
      /\ Clean(Recorded(o), runner[o])
  BY DEF TypeInv, TypeOK, RunnersAreClean
<1>1. runner'[o].excluded \subseteq Worker /\ None \notin Worker
  BY <1>0, BuildAssumption DEF Runner, BuildAssumption
<1>2. UNCHANGED artifacts \/ artifacts'[o] = artifacts[o] => Recorded(o)' = Recorded(o)
  BY DEF Recorded
<1>3. CASE Rests(o)
  BY <1>0, <1>2, <1>3 DEF Rests, Clean
<1>4. CASE runner'[o] = Idle
  BY <1>4 DEF Idle, Clean
<1>5. CASE Restarts(o, runner'[o])
  BY <1>1, <1>2, <1>5 DEF Restarts, Clean
<1>6. CASE Hears(o, runner'[o])
  BY <1>0, <1>2, <1>6 DEF Hears, Clean
<1>7. CASE Gets(o, runner'[o])
  BY <1>0, <1>7 DEF Gets, Clean
<1>8. CASE WorksOn(o, runner'[o])
  BY <1>0, <1>8 DEF WorksOn, UnderLease, Clean
<1> QED
  BY <1>3, <1>4, <1>5, <1>6, <1>7, <1>8, StepMoves DEF Moves

(* A fail-over never goes back to the worker that failed, and never starts *)
(* with something recorded, whatever workers come and go meanwhile.        *)
THEOREM FailoverStaysClean == Spec => []FailoverIsClean
<1>1. Init => TypeInv /\ SlotInv /\ RunnersAreClean
  BY TypeInit, SlotInit DEF Init, RunnersAreClean, Clean, Idle
<1>2. TypeInv /\ SlotInv /\ RunnersAreClean /\ [Next]_vars
        => TypeInv' /\ SlotInv' /\ RunnersAreClean'
  BY NextKeepsTypes, StepKeepsSlots, StepKeepsClean DEF SlotInv
<1>3. RunnersAreClean => FailoverIsClean
  BY DEF RunnersAreClean, Clean, FailoverIsClean
<1> QED
  BY <1>1, <1>2, <1>3, PTL DEF Spec

-----------------------------------------------------------------------------
(* The end of a lease. *)

(* A row with the token of a runner is its own operation's. *)
Owns(o) ==
  /\ runner[o].token <= issued
  /\ \A w \in Worker : Leased(w) /\ leases[w].token = runner[o].token => leases[w].op = o
TokensAreOwn == \A o \in Op : UnderLease(runner[o]) => Owns(o)

LEMMA LeaseIsNewest ==
  ASSUME TypeInv, SlotInv, NEW w \in Worker, leases[w] # None
  PROVE  /\ leases[w] \in Lease /\ leases[w].token = newest[w]
         /\ newest[w] # 0 /\ newest[w] \in Nat /\ newest[w] <= issued /\ issued \in Nat
<1>1. leases[w] \in Lease /\ newest[w] \in 0 .. issued /\ issued \in Nat
  BY DEF TypeInv, TypeOK
<1> QED
  BY <1>1 DEF SlotInv, LeasesAreNewest

LEMMA OnlyTakesIssue ==
  ASSUME [Next]_vars, ~ \E o \in Op, w \in Worker : Take(o, w)
  PROVE  UNCHANGED issued
<1>1. ASSUME NEW o \in Op, RunnerStep(o)
      PROVE  UNCHANGED issued
  <2>1. CASE Start(o) \/ StartCancelled(o) \/ Refused(o)
    BY <2>1 DEF Start, StartCancelled, Refused, history
  <2>2. ASSUME NEW w \in Worker, Observe(o, w) \/ Renew(o, w)
        PROVE  UNCHANGED issued
    BY <2>2 DEF Observe, Renew, history
  <2>3. ASSUME NEW t \in Target, NEW d \in Digest, Push(o, t, d) \/ PushRefused(o, t, d)
        PROVE  UNCHANGED issued
    BY <2>3 DEF Push, PushRefused, Publishes, history
  <2>4. CASE BuildThrows(o) \/ Unavailable(o)
    BY <2>4 DEF BuildThrows, Unavailable, history
  <2>5. CASE SaveCheckpoint(o) \/ BuildReturns(o) \/ Verified(o)
    BY <2>5 DEF SaveCheckpoint, BuildReturns, Verified, Publishes, history
  <2> QED
    BY <1>1, <2>1, <2>2, <2>3, <2>4, <2>5 DEF RunnerStep
<1>2. ASSUME NEW o \in Op, Heartbeat(o) \/ Cancel(o) \/ Finalize(o)
      PROVE  UNCHANGED issued
  BY <1>2 DEF Heartbeat, Cancel, Finalize, history
<1>3. CASE (\E w \in Worker : FleetView(w)) \/ Tick \/ Crash \/ UNCHANGED vars
  BY <1>3 DEF FleetView, Tick, Crash, vars, history
<1> QED
  BY <1>1, <1>2, <1>3 DEF Next

LEMMA StepKeepsRows ==
  ASSUME TypeInv, [Next]_vars, ~ \E o \in Op, w \in Worker : Take(o, w)
  PROVE  RowsKept
  BY StepKinds, ReleasedKeepsRows DEF Quiet, PublishesFor

(* What a runner owns it goes on to own, whatever the others take.         *)
LEMMA OwnedStays ==
  ASSUME TypeInv, SlotInv, [Next]_vars, NEW o \in Op, Owns(o),
         runner'[o].token = runner[o].token
  PROVE  Owns(o)'
<1>0. runner[o].token \in Nat /\ issued \in Nat
  BY DEF TypeInv, TypeOK, Runner
<1>1. CASE ~ \E p \in Op, w \in Worker : Take(p, w)
  BY <1>1, StepKeepsRows, OnlyTakesIssue DEF RowsKept, Owns
<1>2. ASSUME NEW p \in Op, NEW w \in Worker, Take(p, w)
      PROVE  Owns(o)'
  <2>1. issued' = issued + 1 /\ Fresh = issued + 1
    BY <1>2 DEF Take, Fresh
  <2>2. leases'[w].token # runner[o].token
    BY <1>0, <1>2, <2>1, TakenRows DEF Owns
  <2>3. \A v \in Worker : v # w /\ leases'[v] # None => leases'[v] = leases[v]
    BY <1>2, TakenRows
  <2>4. runner'[o].token <= issued'
    BY <1>0, <2>1 DEF Owns
  <2> QED
    BY <2>2, <2>3, <2>4 DEF Owns
<1> QED
  BY <1>1, <1>2

LEMMA RenewedIsOwn ==
  ASSUME TypeInv, SlotInv, [Next]_vars, NEW o \in Op, NEW w \in Worker, Renew(o, w)
  PROVE  Owns(o)'
<1>1. runner'[o].token = leases[w].token /\ leases[w] # None /\ leases[w].op = o
  <2>1. runner[o] \in Runner /\ runner'[o] = Holding(runner[o], w, leases[w].token)
    BY DEF Renew, TypeInv, TypeOK
  <2> QED
    BY <2>1 DEF Renew, Renewable, Holding, Runner
<1>2. UNCHANGED issued /\ issued \in Nat
  BY DEF Renew, history, TypeInv, TypeOK
<1>3. ~ \E p \in Op, v \in Worker : Take(p, v)
  <2>1. issued' # issued + 1
    BY <1>2
  <2> QED
    BY <2>1 DEF Take, Fresh
<1>4. RowsKept
  BY <1>3, StepKeepsRows
<1>5. leases[w].token = newest[w] /\ newest[w] # 0 /\ newest[w] <= issued
  BY <1>1, LeaseIsNewest
<1>6. \A v \in Worker : leases'[v] # None /\ leases'[v].token = leases[w].token => v = w
  BY <1>4, <1>5 DEF RowsKept, SlotInv, LeasesAreNewest, TokensDiffer
<1> QED
  BY <1>1, <1>2, <1>4, <1>5, <1>6 DEF Owns, RowsKept

LEMMA TakenIsOwn ==
  ASSUME TypeInv, SlotInv, NEW o \in Op, NEW w \in Worker, Take(o, w)
  PROVE  Owns(o)'
<1>1. runner'[o].token = Fresh
  <2>1. runner[o] \in Runner /\ runner'[o] = Holding(runner[o], w, Fresh)
    BY DEF Take, TypeInv, TypeOK
  <2> QED
    BY <2>1 DEF Holding, Runner
<1>2. issued' = Fresh /\ Fresh = issued + 1 /\ issued \in Nat
  BY DEF Take, Fresh, TypeInv, TypeOK
<1>3. \A v \in Worker : leases[v] # None => leases[v].token \in Nat /\ leases[v].token <= issued
  BY LeaseIsNewest
<1>4. \A v \in Worker : v # w /\ leases'[v] # None => leases'[v].token # Fresh
  BY <1>2, <1>3, TakenRows
<1> QED
  BY <1>1, <1>2, <1>4, TakenRows DEF Owns

LEMMA StepKeepsTokens ==
  ASSUME TypeInv, SlotInv, TokensAreOwn, [Next]_vars
  PROVE  TokensAreOwn'
<1> SUFFICES ASSUME NEW o \in Op, UnderLease(runner'[o])
             PROVE  Owns(o)'
  BY DEF TokensAreOwn, UnderLease
<1>1. CASE Rests(o) \/ WorksOn(o, runner'[o])
  <2>1. UnderLease(runner[o]) /\ runner'[o].token = runner[o].token
    BY <1>1 DEF Rests, WorksOn
  <2> QED
    BY <2>1, OwnedStays DEF TokensAreOwn
<1>2. CASE Gets(o, runner'[o])
  BY <1>2, RenewedIsOwn, TakenIsOwn DEF Gets
<1>3. CASE runner'[o] = Idle \/ Restarts(o, runner'[o]) \/ Hears(o, runner'[o])
  BY <1>3 DEF Idle, Restarts, Hears, UnderLease
<1> QED
  BY <1>1, <1>2, <1>3, StepMoves DEF Moves

(* A runner that leaves its lease, and was not killed, released it. *)
LEMMA LeavingReleases ==
  ASSUME TypeInv, [Next]_vars, ~Crash, NEW o \in Op,
         UnderLease(runner[o]), ~UnderLease(runner'[o])
  PROVE  leases' = Released(o)
<1>0. TypeOK /\ runner[o] \in Runner
  BY DEF TypeInv, TypeOK
<1>1. CASE RunnerStep(o)
  <2>1. CASE Start(o) \/ StartCancelled(o) \/ Refused(o)
    BY <2>1 DEF Start, StartCancelled, Refused, Answered, UnderLease
  <2>2. CASE \E w \in Worker : Observe(o, w) \/ Renew(o, w) \/ Take(o, w)
    BY <2>2 DEF Observe, Renew, Take, Answered, UnderLease
  <2>3. CASE SaveCheckpoint(o) \/ \E t \in Target, d \in Digest : Push(o, t, d)
    <3>1. ASSUME SaveCheckpoint(o)
          PROVE  runner'[o].pc = "saved"
      <4>1. runner'[o] = [runner[o] EXCEPT !.pc = "saved"]
        BY <1>0, <3>1 DEF SaveCheckpoint, TypeOK
      <4> QED
        BY <1>0, <4>1 DEF Runner
    <3>2. ASSUME NEW t \in Target, NEW d \in Digest, Push(o, t, d)
          PROVE  runner'[o].pc = runner[o].pc
      <4>1. runner'[o] = [runner[o] EXCEPT !.pushed = @ \cup {t}]
        BY <1>0, <3>2 DEF Push, TypeOK
      <4> QED
        BY <1>0, <4>1 DEF Runner
    <3> QED
      BY <2>3, <3>1, <3>2 DEF UnderLease
  <2>4. CASE \/ \E t \in Target, d \in Digest : PushRefused(o, t, d)
             \/ BuildThrows(o) \/ Unavailable(o) \/ BuildReturns(o) \/ Verified(o)
    BY <2>4 DEF PushRefused, BuildThrows, Unavailable, BuildReturns, Verified
  <2> QED
    BY <1>1, <2>1, <2>2, <2>3, <2>4 DEF RunnerStep
<1>2. ASSUME NEW p \in Op, p # o, RunnerStep(p)
      PROVE  FALSE
  BY <1>0, <1>2, OthersRest DEF Rests
<1>3. ASSUME NEW p \in Op, Heartbeat(p)
      PROVE  FALSE
  <2>1. runner'[o] \in {runner[o], [runner[o] EXCEPT !.lost = TRUE]}
    BY <1>0, <1>3 DEF Heartbeat, TypeOK
  <2>2. runner'[o].pc = runner[o].pc
    BY <1>0, <2>1 DEF Runner
  <2> QED
    BY <2>2 DEF UnderLease
<1>4. CASE UNCHANGED runner
  BY <1>4
<1> QED
  BY <1>1, <1>2, <1>3, <1>4 DEF Next, Cancel, Finalize, FleetView, Tick, vars

(* However a run of withWorker ends, short of a crash, its slot is free:   *)
(* no row carries its token any more.                                      *)
THEOREM LeasesAreLeft == Spec => LeavesNoLease
<1> DEFINE Left ==
      \A o \in Op :
        /\ runner[o].pc \in {"working", "saved"}
        /\ runner'[o].pc \in {"idle", "probing"}
        /\ ~Crash
        => \A w \in Worker : leases'[w] # None => leases'[w].token # runner[o].token
<1>1. Init => TypeInv /\ SlotInv /\ TokensAreOwn
  BY TypeInit, SlotInit DEF Init, TokensAreOwn, UnderLease, Idle
<1>2. TypeInv /\ SlotInv /\ TokensAreOwn /\ [Next]_vars
        => TypeInv' /\ SlotInv' /\ TokensAreOwn'
  BY NextKeepsTypes, StepKeepsSlots, StepKeepsTokens DEF SlotInv
<1>3. TypeInv /\ SlotInv /\ TokensAreOwn /\ [Next]_vars => [Left]_vars
  <2> SUFFICES ASSUME TypeInv, TokensAreOwn, [Next]_vars, NEW o \in Op, ~Crash,
                      UnderLease(runner[o]), ~UnderLease(runner'[o]),
                      NEW w \in Worker, leases'[w] # None
               PROVE  leases'[w].token # runner[o].token
    BY DEF UnderLease
  <2>1. leases'[w] = leases[w] /\ ~Mine(o, w)
    BY LeavingReleases DEF Released, Without
  <2> QED
    BY <2>1 DEF Mine, TokensAreOwn, Owns
<1>4. Spec => [][Left]_vars
  BY <1>1, <1>2, <1>3, PTL DEF Spec
<1> QED
  BY <1>4, PTL DEF LeavesNoLease

-----------------------------------------------------------------------------
(* Refusals. *)

(* An operation all of whose workers answered goes on only by a lease, or  *)
(* because there is none to be had.                                        *)
LEMMA AnsweredMoves ==
  ASSUME TypeInv, [Next]_vars, ~Crash, NEW o \in Op, Answered(o),
         runner'[o] # runner[o], runner'[o].pc # "working"
  PROVE  Refused(o)
<1>0. TypeOK /\ runner[o] \in Runner /\ runner[o].pc = "probing" /\ runner[o].asked = {}
  BY DEF TypeInv, TypeOK, Answered
<1>1. CASE RunnerStep(o)
  <2>1. CASE Start(o) \/ StartCancelled(o) \/ \E w \in Worker : Observe(o, w)
    BY <1>0, <2>1 DEF Start, StartCancelled, Observe
  <2>2. ASSUME NEW w \in Worker, Renew(o, w) \/ Take(o, w)
        PROVE  FALSE
    <3>1. PICK token : runner' = [runner EXCEPT ![o] = Holding(@, w, token)]
      BY <2>2 DEF Renew, Take
    <3>2. runner'[o] = Holding(runner[o], w, token)
      BY <1>0, <3>1 DEF TypeOK
    <3> QED
      BY <1>0, <3>2 DEF Holding, Runner
  <2>3. CASE \/ \E t \in Target, d \in Digest : Push(o, t, d) \/ PushRefused(o, t, d)
             \/ BuildThrows(o) \/ Unavailable(o) \/ SaveCheckpoint(o)
             \/ BuildReturns(o) \/ Verified(o)
    BY <1>0, <2>3 DEF Push, PushRefused, BuildThrows, Unavailable, SaveCheckpoint,
       BuildReturns, Verified, InTask
  <2> QED
    BY <1>1, <2>1, <2>2, <2>3 DEF RunnerStep
<1>2. ASSUME NEW p \in Op, p # o, RunnerStep(p)
      PROVE  FALSE
  BY <1>0, <1>2, OthersRest DEF Rests
<1>3. ASSUME NEW p \in Op, Heartbeat(p)
      PROVE  FALSE
  BY <1>0, <1>3 DEF Heartbeat, TypeOK
<1>4. CASE UNCHANGED runner
  BY <1>4
<1> QED
  BY <1>1, <1>2, <1>3, <1>4 DEF Next, Cancel, Finalize, FleetView, Tick, vars

(* A build is told that there is no capacity only when every healthy       *)
(* candidate is held, by an operation that lives and keeps its lease.      *)
THEOREM RefusalStaysHonest == Spec => RefusalIsHonest
<1> DEFINE Honest ==
      \A o \in Op :
        Answered(o) /\ runner'[o] # runner[o] /\ runner'[o].pc # "working" /\ ~Crash
          => \A w \in runner[o].candidates :
               Eligible(w) => /\ Leased(w)
                              /\ leases[w].op # o
                              /\ status[leases[w].op] # "over"
                              /\ leases[w].left > 0
<1>1. Init => TypeInv /\ SlotInv
  BY TypeInit, SlotInit
<1>2. TypeInv /\ SlotInv /\ [Next]_vars => TypeInv' /\ SlotInv'
  BY NextKeepsTypes, StepKeepsSlots DEF SlotInv
<1>3. TypeInv /\ SlotInv /\ [Next]_vars => [Honest]_vars
  <2> SUFFICES ASSUME TypeInv, SlotInv, [Next]_vars, ~Crash, NEW o \in Op, Answered(o),
                      runner'[o] # runner[o], runner'[o].pc # "working",
                      NEW w \in runner[o].candidates, Eligible(w)
               PROVE  /\ Leased(w) /\ leases[w].op # o
                      /\ status[leases[w].op] # "over" /\ leases[w].left > 0
    OBVIOUS
  <2>1. w \in Worker /\ w \notin Takeable(o)
    BY AnsweredMoves DEF Refused, TypeInv, TypeOK, Runner
  <2>2. Leased(w) /\ ~Stale(w, o)
    BY <2>1 DEF Takeable
  <2>3. leases[w] \in Lease
    BY <2>1, <2>2 DEF TypeInv, TypeOK
  <2>4. leases[w].left # 0 /\ leases[w].left \in Nat
    BY <2>2, <2>3, BuildAssumption DEF Stale, Lease, BuildAssumption
  <2> QED
    BY <2>2, <2>4 DEF Stale, Reapable, Terminal
<1>4. Spec => [][Honest]_vars
  BY <1>1, <1>2, <1>3, PTL DEF Spec
<1> QED
  BY <1>4, PTL DEF RefusalIsHonest
=============================================================================
