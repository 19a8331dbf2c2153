----------------------------- MODULE FleetProofs -----------------------------
(***************************************************************************)
(* Of the fleet, for any number of servers, apps, requests and faults: no  *)
(* server is created twice, none is forgotten while its machine runs, no   *)
(* container comes to listen on a port that a migration has claimed, a     *)
(* deployment that is compensated leaves nothing behind, and a migration   *)
(* moves the replica and its volume or leaves them where they were.        *)
(*                                                                         *)
(* All of them rest on FleetInv.  A step of operation s may change the     *)
(* jobs, rows, machines, replicas and claims only as StepTo(s) says; every *)
(* action is shown to be such a step, and such steps keep FleetInv.        *)
(***************************************************************************)
EXTENDS FleetProperties, FiniteSetTheorems, WellFoundedInduction, TLAPS

(* ProvisionedOnce counts machines; it is inductive once the counts are    *)
(* known to be numbers, since a machine is ordered only under a name the   *)
(* provider has none for.                                                  *)
MachineInv == machine \in [Server -> {0, 1}]

(* What a step may do to the machines. *)
Kept == machine' = machine
Gone(s) == machine' = [machine EXCEPT ![s] = 0]
Ordered(s) == machine[s] = 0 /\ machine' = [machine EXCEPT ![s] = @ + 1]
MachineStep == Kept \/ \E s \in Server : Gone(s) \/ Ordered(s)

LEMMA InitMachine == ASSUME FleetInit PROVE MachineInv
BY DEF FleetInit, MachineInv

LEMMA StepKeepsMachines == ASSUME MachineInv, MachineStep PROVE MachineInv'
BY DEF MachineInv, MachineStep, Kept, Gone, Ordered


-----------------------------------------------------------------------------
(***************************************************************************)
(* What a server may still become.                                         *)
(*                                                                         *)
(* The provisioning of a server is over, for good, when its operation is   *)
(* done or the deployment that needed it has picked it.  Only such a       *)
(* server is ready, has replicas and claims, is marked for the collector   *)
(* or collected; only another has its machine or its row made.  So a       *)
(* machine that was deleted stays away (ForgetsNoMachine), and so does a   *)
(* row, and with it the claims on its ports (ClaimedPortIsFree).           *)
(***************************************************************************)
Built(n) ==
  \/ n \in Old
  \/ n \in Server /\ job[<<"provision", n>>].st = "done"
  \/ \E a \in App : Own[a] = n /\ job[<<"deploy", a>>].at \notin {"none", "pick"}

Making(n) ==
  \/ n \in Server /\ job[<<"provision", n>>].st = "running"
  \/ \E a \in App : Own[a] = n /\ job[<<"deploy", a>>].st = "running" /\ job[<<"deploy", a>>].at = "pick"

Alike(r, q) == DOMAIN r = DOMAIN q

RowsOk ==
  /\ row = [n \in Server |-> row[n]]
  /\ \A n \in Server :
       /\ Alike(row[n], NoRow)
       /\ row[n].known => Here(n)
       /\ Usable(n) \/ row[n].gc => Built(n)

CollectorOk ==
  /\ gc = [n \in Server |-> gc[n]]
  /\ \A n \in Server : gc[n] # "idle" => Built(n)
  /\ \A n \in Server : gc[n] = "deleted" => machine[n] = 0

PlacesOk ==
  /\ \A r \in reps : Built(r.srv)
  /\ \A h \in held : Built(h.srv) /\ Here(h.srv)
  /\ \A h, k \in held : h.srv = k.srv /\ h.port = k.port => h = k

(* An operation has its claim, unless its server was forgotten.            *)
Claims(s) == Claim(s, job[s].to, job[s].port) \in held \/ ~Here(job[s].to)

ProvisionOk(n) ==
  LET s == <<"provision", n>>
  IN  /\ job[s].st # "idle" => n \notin Old /\ \A a \in App : Own[a] # n
      /\ job[s].st = "undoing" =>
           /\ job[s].left \in {<<"row">>, <<"create", "row">>}
           /\ Head(job[s].left) = "row" => machine[n] = 0 \/ ~row[n].known

DestroyOk(n) ==
  job[<<"destroy", n>>].at = "rows" /\ n \in Old => machine[n] = 0 \/ ~row[n].known

DeployOk(a) ==
  LET d == <<"deploy", a>>
  IN  /\ job[d].at \notin {"none", "pick"} => Built(job[d].srv)
      /\ At(d, "pick", "create") => ~row[Own[a]].known
      /\ job[d].st = "undoing" => job[d].at \notin {"none", "pick"}
      /\ At(d, "scale", "place") \/ At(d, "scale", "probe") => Built(job[d].to)
      /\ At(d, "scale", "place") => Claims(d)

Claimed == {"preflight", "stop", "detach", "attach", "place"}
MigrateOk(a) ==
  LET m == <<"migrate", a>>
  IN  /\ job[m].st # "idle" => Built(job[m].srv) /\ job[m].to \in Server
      /\ job[m].at \in {"perform", "verify"} => Built(job[m].to)
      /\ job[m].st = "running" /\ job[m].at = "perform" /\ job[m].pc \in Claimed => Claims(m)

JobsOk ==
  /\ job = [s \in Slot |-> job[s]]
  /\ \A s \in Slot : Alike(job[s], NoJob) /\ (job[s].st = "idle" => job[s] = NoJob)

FleetInv ==
  /\ JobsOk /\ RowsOk /\ CollectorOk /\ PlacesOk /\ MachineInv
  /\ \A n \in Server : ProvisionOk(n) /\ DestroyOk(n)
  /\ \A a \in App : DeployOk(a) /\ MigrateOk(a)
-----------------------------------------------------------------------------
(* What a step may do, operation by operation.                             *)

(* An operation moves on: it is never idle again, a deployment never picks *)
(* another server, and what is done is done.                               *)
Grows(r, q) ==
  /\ Alike(q, NoJob) /\ q.st # "idle"
  /\ r.st = "done" => q.st = "done"
  /\ r.at \notin {"none", "pick"} => q.at \notin {"none", "pick"}
Moved(s) == \E q : Grows(job[s], q) /\ job' = [job EXCEPT ![s] = q]
Restarted ==
  job' = [s \in Slot |-> IF InFlight(s) THEN [job[s] EXCEPT !.pc = "start", !.sure = FALSE] ELSE job[s]]
JobsTo(s) == job' = job \/ Restarted \/ Moved(s)

(* The others are where they were, or at the start of their step.          *)
Still(s) ==
  /\ job'[s].st = job[s].st /\ job'[s].at = job[s].at /\ job'[s].left = job[s].left
  /\ job'[s].srv = job[s].srv /\ job'[s].to = job[s].to /\ job'[s].port = job[s].port
  /\ job'[s].new = job[s].new
  /\ job'[s].pc \in {job[s].pc, "start"}

RowTo(n) ==
  /\ Alike(row'[n], NoRow)
  /\ row'[n].known => Here(n)'
  /\ Usable(n)' \/ row'[n].gc => Built(n)'
  /\ Built(n) /\ Here(n)' => Here(n)
  /\ row'[n].known /\ ~row[n].known =>
       Making(n) /\ \A b \in App : Own[b] = n => ~At(<<"deploy", b>>, "pick", "create")'
  /\ row[n].known /\ ~Here(n)' =>
       machine'[n] = 0 \/ (n \notin Old /\ At(<<"destroy", n>>, "rows", "start"))
RowsTo == row' = [n \in Server |-> row'[n]] /\ \A n \in Server : RowTo(n)

MachinesTo == Kept \/ \E n \in Server : Gone(n) \/ (Making(n) /\ Ordered(n))

CollectorTo ==
  /\ gc' = [n \in Server |-> gc'[n]]
  /\ \A n \in Server :
       \/ gc'[n] \in {gc[n], "idle"}
       \/ Built(n) /\ (gc'[n] = "deleted" => machine'[n] = 0)

Claiming(s) ==
  \/ s[1] = "deploy" /\ At(s, "scale", "place")
  \/ s[1] = "migrate" /\ job[s].st = "running" /\ job[s].at = "perform" /\ job[s].pc \in Claimed

RepsTo == \A r \in reps' : r \in reps \/ Built(r.srv)
HeldTo ==
  /\ \A h \in held' : Here(h.srv)' /\ (h \in held \/ Built(h.srv))
  /\ \A h, k \in held' : h \notin held /\ k.srv = h.srv /\ k.port = h.port => h = k
  /\ \A h \in held : h \in held' \/ ~Here(h.srv)' \/ ~Claiming(h.by)'

StepTo(s) == JobsTo(s) /\ RowsTo /\ MachinesTo /\ CollectorTo /\ RepsTo /\ HeldTo

(* What FleetInv says of one operation.                                    *)
OwnOk(s) ==
  /\ \A n \in Server : (s = <<"provision", n>> => ProvisionOk(n)) /\ (s = <<"destroy", n>> => DestroyOk(n))
  /\ \A a \in App : (s = <<"deploy", a>> => DeployOk(a)) /\ (s = <<"migrate", a>> => MigrateOk(a))

LEMMA Slots ==
  /\ \A n \in Server : <<"provision", n>> \in Slot /\ <<"destroy", n>> \in Slot
  /\ \A a \in App : <<"deploy", a>> \in Slot /\ <<"migrate", a>> \in Slot
BY DEF Slot

LEMMA BuiltIsServer == ASSUME NEW n, Built(n) PROVE n \in Server
<1>1. Old \subseteq Server /\ \A a \in App : Own[a] \in Server
  BY FleetAssumption
<1> QED
  BY <1>1 DEF Built

LEMMA MakingIsNotBuilt ==
  ASSUME FleetInv, NEW n, Making(n) PROVE n \in Server /\ ~Built(n)
<1>1. CASE n \in Server /\ job[<<"provision", n>>].st = "running"
  BY <1>1 DEF FleetInv, ProvisionOk, Built
<1>2. ASSUME NEW a \in App, Own[a] = n, job[<<"deploy", a>>].at = "pick"
      PROVE  n \in Server /\ ~Built(n)
  <2>1. n \in Server /\ n \notin Old /\ \A b \in App : Own[b] = n => b = a
    BY <1>2, FleetAssumption
  <2>2. job[<<"provision", n>>].st = "idle"
    BY <1>2, <2>1 DEF FleetInv, ProvisionOk
  <2> QED
    BY <1>2, <2>1, <2>2 DEF Built
<1> QED
  BY <1>1, <1>2 DEF Making

LEMMA JobsKept ==
  ASSUME JobsOk, NEW s \in Slot, JobsTo(s)
  PROVE  /\ JobsOk'
         /\ \A n : Built(n) => Built(n)'
         /\ \A t \in Slot : t # s => Still(t)
         /\ job' = job \/ Restarted => Still(s)
<1>1. ASSUME job' = job PROVE JobsOk' /\ (\A n : Built(n) => Built(n)') /\ \A t \in Slot : Still(t)
  <2>1. \A t \in Slot : Still(t)
    BY <1>1 DEF Still
  <2>2. JobsOk' /\ \A n : Built(n) => Built(n)'
    BY <1>1 DEF JobsOk, Alike, NoJob, Built
  <2> QED
    BY <2>1, <2>2
<1>2. ASSUME Restarted PROVE JobsOk' /\ (\A n : Built(n) => Built(n)') /\ \A t \in Slot : Still(t)
  <2>1. ASSUME NEW t \in Slot
        PROVE  Still(t) /\ Alike(job'[t], NoJob) /\ (job'[t].st = "idle" => job'[t] = NoJob)
    <3>1. Alike(job[t], NoJob) /\ (job[t].st = "idle" => job[t] = NoJob)
      BY DEF JobsOk
    <3>2. CASE InFlight(t)
      <4>1. job'[t] = [job[t] EXCEPT !.pc = "start", !.sure = FALSE]
        BY <1>2, <3>2 DEF Restarted
      <4> QED
        BY <3>1, <3>2, <4>1 DEF Alike, NoJob, InFlight, Still
    <3>3. CASE ~InFlight(t)
      BY <1>2, <3>1, <3>3 DEF Restarted, Still
    <3> QED
      BY <3>2, <3>3
  <2>2. JobsOk'
    BY <1>2, <2>1 DEF JobsOk, Restarted
  <2>3. ASSUME NEW n, Built(n) PROVE Built(n)'
    BY <2>1, <2>3, Slots DEF Built, Still
  <2> QED
    BY <2>1, <2>2, <2>3
<1>3. ASSUME Moved(s)
      PROVE  JobsOk' /\ (\A n : Built(n) => Built(n)') /\ \A t \in Slot : t # s => Still(t)
  <2>1. PICK q : Grows(job[s], q) /\ job' = [job EXCEPT ![s] = q]
    BY <1>3 DEF Moved
  <2>2. job'[s] = q /\ \A t \in Slot : t # s => job'[t] = job[t]
    BY <2>1 DEF JobsOk
  <2>3. JobsOk'
    BY <2>1, <2>2 DEF JobsOk, Grows
  <2>4. \A t \in Slot : t # s => Still(t)
    BY <2>2 DEF Still
  <2>5. ASSUME NEW n, Built(n) PROVE Built(n)'
    <3>1. CASE n \in Old
      BY <3>1 DEF Built
    <3>2. CASE n \in Server /\ job[<<"provision", n>>].st = "done"
      <4>1. job'[<<"provision", n>>].st = "done"
        BY <2>1, <2>2, <3>2, Slots DEF Grows
      <4> QED
        BY <3>2, <4>1 DEF Built
    <3>3. ASSUME NEW a \in App, Own[a] = n, job[<<"deploy", a>>].at \notin {"none", "pick"}
          PROVE  Built(n)'
      <4>1. job'[<<"deploy", a>>].at \notin {"none", "pick"}
        BY <2>1, <2>2, <3>3, Slots DEF Grows
      <4> QED
        BY <3>3, <4>1 DEF Built
    <3> QED
      BY <2>5, <3>1, <3>2, <3>3 DEF Built
  <2> QED
    BY <2>3, <2>4, <2>5
<1> QED
  BY <1>1, <1>2, <1>3 DEF JobsTo

(* What is said of an operation that does not move stays true.             *)
LEMMA StillOk ==
  ASSUME FleetInv, NEW s \in Slot, StepTo(s), NEW t \in Slot, Still(t)
  PROVE  OwnOk(t)'
<1>1. \A n : Built(n) => Built(n)'
  BY JobsKept DEF FleetInv, StepTo
<1>2. ASSUME NEW n \in Server, machine[n] = 0 \/ ~row[n].known, ~Making(n)
      PROVE  machine'[n] = 0 \/ ~row'[n].known
  <2>1. machine[n] = 0 => machine'[n] = 0
    BY <1>2 DEF StepTo, MachinesTo, Kept, Gone, Ordered, FleetInv, MachineInv
  <2>2. ~row[n].known => ~row'[n].known
    BY <1>2 DEF StepTo, RowsTo, RowTo
  <2> QED
    BY <1>2, <2>1, <2>2
<1>3. ASSUME NEW n \in Server, t = <<"provision", n>> PROVE ProvisionOk(n)'
  <2>1. ProvisionOk(n)
    BY DEF FleetInv
  <2>2. job[t].st = "undoing" => ~Making(n)
    BY <1>3, <2>1 DEF ProvisionOk, Making
  <2> QED
    BY <1>2, <1>3, <2>1, <2>2 DEF ProvisionOk, Still
<1>4. ASSUME NEW n \in Server, t = <<"destroy", n>> PROVE DestroyOk(n)'
  <2>1. DestroyOk(n)
    BY DEF FleetInv
  <2>2. n \in Old => ~Making(n)
    BY MakingIsNotBuilt DEF Built
  <2> QED
    BY <1>2, <1>4, <2>1, <2>2 DEF DestroyOk, Still
<1>5. ASSUME Claiming(t), Claims(t), Claiming(t)', Built(job[t].to) PROVE Claims(t)'
  <2> DEFINE n == job[t].to
             h == Claim(t, job[t].to, job[t].port)
  <2>1. Claim(t, job'[t].to, job'[t].port) = h /\ h.by = t /\ h.srv = n /\ job'[t].to = n
    BY DEF Claim, Still
  <2>2. CASE h \in held
    <3>1. \A g \in held : g \in held' \/ ~Here(g.srv)' \/ ~Claiming(g.by)'
      BY DEF StepTo, HeldTo
    <3>2. h \in held' \/ ~Here(n)'
      BY <1>5, <2>1, <2>2, <3>1
    <3> QED
      BY <2>1, <3>2 DEF Claims, Here
  <2>3. CASE ~Here(n)
    <3>1. n \in Server
      BY <1>5, BuiltIsServer
    <3>2. RowTo(n)
      BY <3>1 DEF StepTo, RowsTo
    <3>3. ~Here(n)'
      BY <1>5, <2>3, <3>2 DEF RowTo
    <3> QED
      BY <2>1, <3>3 DEF Claims, Here
  <2> QED
    BY <1>5, <2>2, <2>3 DEF Claims
<1>6. ASSUME NEW a \in App, t = <<"deploy", a>> PROVE DeployOk(a)'
  <2>1. DeployOk(a)
    BY DEF FleetInv
  <2>2. (job[t].at \notin {"none", "pick"} => Built(job[t].srv))'
    BY <1>1, <1>6, <2>1 DEF DeployOk, Still
  <2>3. At(t, "pick", "create")' => ~row'[Own[a]].known
    <3>1. Own[a] \in Server
      BY FleetAssumption
    <3>2. At(t, "pick", "create")' => At(t, "pick", "create")
      BY DEF At, Still
    <3>3. RowTo(Own[a])
      BY <3>1 DEF StepTo, RowsTo
    <3> QED
      BY <1>6, <2>1, <3>1, <3>2, <3>3 DEF DeployOk, RowTo
  <2>4. (job[t].st = "undoing" => job[t].at \notin {"none", "pick"})'
    BY <1>6, <2>1 DEF DeployOk, Still
  <2>5. (At(t, "scale", "place") \/ At(t, "scale", "probe") => Built(job[t].to))'
    <3>1. (At(t, "scale", "place") \/ At(t, "scale", "probe"))' => At(t, "scale", "place") \/ At(t, "scale", "probe")
      BY DEF At, Still
    <3>2. job'[t].to = job[t].to
      BY DEF Still
    <3> QED
      BY <1>1, <1>6, <2>1, <3>1, <3>2 DEF DeployOk
  <2>6. (At(t, "scale", "place") => Claims(t))'
    <3>1. At(t, "scale", "place")' => At(t, "scale", "place")
      BY DEF At, Still
    <3>2. At(t, "scale", "place") => Claiming(t) /\ Claims(t) /\ Built(job[t].to)
      BY <1>6, <2>1 DEF DeployOk, Claiming
    <3>3. At(t, "scale", "place")' => Claiming(t)'
      BY <1>6 DEF Claiming
    <3> QED
      BY <1>5, <3>1, <3>2, <3>3
  <2> QED
    BY <1>6, <2>2, <2>3, <2>4, <2>5, <2>6 DEF DeployOk
<1>7. ASSUME NEW a \in App, t = <<"migrate", a>> PROVE MigrateOk(a)'
  <2>1. MigrateOk(a)
    BY DEF FleetInv
  <2>2. (job[t].st # "idle" => Built(job[t].srv) /\ job[t].to \in Server)' /\ (job[t].at \in {"perform", "verify"} => Built(job[t].to))'
    BY <1>1, <1>7, <2>1 DEF MigrateOk, Still
  <2>3. Claiming(t)' => Claiming(t)
    <3>1. "start" \notin Claimed
      BY DEF Claimed
    <3> QED
      BY <1>7, <3>1 DEF Claiming, Still
  <2>4. Claiming(t) => Claims(t) /\ Built(job[t].to)
    BY <1>7, <2>1 DEF MigrateOk, Claiming
  <2>5. Claiming(t)' => Claims(t)'
    BY <1>5, <2>3, <2>4
  <2>6. (job[t].st = "running" /\ job[t].at = "perform" /\ job[t].pc \in Claimed)' => Claiming(t)'
    BY <1>7 DEF Claiming
  <2> QED
    BY <1>7, <2>2, <2>5, <2>6 DEF MigrateOk
<1> QED
  BY <1>3, <1>4, <1>6, <1>7 DEF OwnOk

LEMMA StepKeeps ==
  ASSUME FleetInv, NEW s \in Slot, StepTo(s), Still(s) \/ OwnOk(s)'
  PROVE  FleetInv'
<1>1. JobsOk' /\ \A n : Built(n) => Built(n)'
  BY JobsKept DEF FleetInv, StepTo
<1>2. \A t \in Slot : OwnOk(t)'
  BY StillOk, JobsKept DEF FleetInv, StepTo
<1>3. /\ \A n \in Server : ProvisionOk(n)' /\ DestroyOk(n)'
      /\ \A a \in App : DeployOk(a)' /\ MigrateOk(a)'
  BY <1>2, Slots DEF OwnOk
<1>4. RowsOk'
  BY DEF StepTo, RowsTo, RowTo, RowsOk
<1>5. MachineInv'
  BY StepKeepsMachines DEF FleetInv, StepTo, MachinesTo, MachineStep
<1>6. CollectorOk'
  <2>1. ASSUME NEW n \in Server, gc'[n] # "idle" PROVE Built(n)'
    BY <1>1, <2>1 DEF StepTo, CollectorTo, FleetInv, CollectorOk
  <2>2. ASSUME NEW n \in Server, gc'[n] = "deleted" PROVE machine'[n] = 0
    <3>1. CASE gc'[n] \notin {gc[n], "idle"}
      BY <2>2, <3>1 DEF StepTo, CollectorTo
    <3>2. CASE gc'[n] \in {gc[n], "idle"}
      <4>1. machine[n] = 0 /\ Built(n)
        BY <2>2, <3>2 DEF FleetInv, CollectorOk
      <4>2. ~Making(n)
        BY <4>1, MakingIsNotBuilt
      <4> QED
        BY <4>1, <4>2 DEF StepTo, MachinesTo, Kept, Gone, Ordered, FleetInv, MachineInv
    <3> QED
      BY <3>1, <3>2
  <2> QED
    BY <2>1, <2>2 DEF StepTo, CollectorTo, CollectorOk
<1>7. PlacesOk'
  <2>1. \A r \in reps' : Built(r.srv)'
    BY <1>1 DEF StepTo, RepsTo, FleetInv, PlacesOk
  <2>2. \A h \in held' : Built(h.srv)' /\ Here(h.srv)'
    BY <1>1 DEF StepTo, HeldTo, FleetInv, PlacesOk
  <2>3. \A h, k \in held' : h.srv = k.srv /\ h.port = k.port => h = k
    BY DEF StepTo, HeldTo, FleetInv, PlacesOk
  <2> QED
    BY <2>1, <2>2, <2>3 DEF PlacesOk
<1> QED
  BY <1>1, <1>3, <1>4, <1>5, <1>6, <1>7 DEF FleetInv

-----------------------------------------------------------------------------
(* What the steps of operations have in common.                            *)

(* The fields of the operation that moves.                                 *)
Becomes(s, q) == Moved(s) /\ job'[s] = q

LEMMA Turns ==
  ASSUME JobsOk, NEW s \in Slot, InFlight(s), NEW q, job' = [job EXCEPT ![s] = q],
         Alike(q, NoJob), q.st # "idle", q.at = job[s].at \/ q.at \notin {"none", "pick"}
  PROVE  Becomes(s, q)
<1>1. Grows(job[s], q)
  BY DEF Grows, InFlight
<1>2. job'[s] = q
  BY DEF JobsOk
<1> QED
  BY <1>1, <1>2 DEF Moved, Becomes

LEMMA Turnings ==
  ASSUME JobsOk, NEW s \in Slot, InFlight(s)
  PROVE  /\ \A pc : Goto(s, pc) => Becomes(s, [job[s] EXCEPT !.pc = pc])
         /\ \A at : Step(s, at) /\ at \notin {"none", "pick"} =>
                      Becomes(s, [job[s] EXCEPT !.at = at, !.pc = "start"])
         /\ \A st : End(s, st) /\ st # "idle" => Becomes(s, [job[s] EXCEPT !.st = st, !.lock = {}])
<1>1. Alike(job[s], NoJob) /\ job = [t \in Slot |-> job[t]]
  BY DEF JobsOk
<1>2. ASSUME NEW pc, Goto(s, pc) PROVE Becomes(s, [job[s] EXCEPT !.pc = pc])
  <2> DEFINE q == [job[s] EXCEPT !.pc = pc]
  <2>1. job' = [job EXCEPT ![s] = q]
    BY <1>1, <1>2 DEF Goto
  <2>2. Alike(q, NoJob) /\ q.st = job[s].st /\ q.at = job[s].at
    BY <1>1 DEF Alike, NoJob
  <2> QED
    BY <2>1, <2>2, Turns DEF InFlight
<1>3. ASSUME NEW at, Step(s, at), at \notin {"none", "pick"}
      PROVE  Becomes(s, [job[s] EXCEPT !.at = at, !.pc = "start"])
  <2> DEFINE q == [job[s] EXCEPT !.at = at, !.pc = "start"]
  <2>1. job' = [job EXCEPT ![s] = q]
    BY <1>1, <1>3 DEF Step
  <2>2. Alike(q, NoJob) /\ q.st = job[s].st /\ q.at = at
    BY <1>1 DEF Alike, NoJob
  <2> QED
    BY <1>3, <2>1, <2>2, Turns DEF InFlight
<1>4. ASSUME NEW st, End(s, st), st # "idle" PROVE Becomes(s, [job[s] EXCEPT !.st = st, !.lock = {}])
  <2> DEFINE q == [job[s] EXCEPT !.st = st, !.lock = {}]
  <2>1. job' = [job EXCEPT ![s] = q]
    BY <1>1, <1>4 DEF End
  <2>2. Alike(q, NoJob) /\ q.st = st /\ q.at = job[s].at
    BY <1>1 DEF Alike, NoJob
  <2> QED
    BY <1>4, <2>1, <2>2, Turns
<1> QED
  BY <1>2, <1>3, <1>4

LEMMA Throwing ==
  ASSUME JobsOk, NEW s \in Slot, InFlight(s), Throw(s)
  PROVE  \/ Becomes(s, [job[s] EXCEPT !.st = "failed", !.lock = {}])
         \/ Completed(s) # <<>> /\ Becomes(s, [job[s] EXCEPT !.st = "undoing", !.left = Completed(s)])
<1>1. CASE Completed(s) = <<>>
  BY <1>1, Turnings DEF Throw
<1>2. CASE Completed(s) # <<>>
  <2> DEFINE q == [job[s] EXCEPT !.st = "undoing", !.left = Completed(s)]
  <2>1. Alike(job[s], NoJob) /\ job = [t \in Slot |-> job[t]]
    BY DEF JobsOk
  <2>2. job' = [job EXCEPT ![s] = q]
    BY <1>2, <2>1 DEF Throw
  <2>3. Alike(q, NoJob) /\ q.st = "undoing" /\ q.at = job[s].at
    BY <2>1 DEF Alike, NoJob
  <2> QED
    BY <1>2, <2>2, <2>3, Turns
<1> QED
  BY <1>1, <1>2

LEMMA Undoing ==
  ASSUME JobsOk, NEW s \in Slot, InFlight(s), Undone(s)
  PROVE  \/ Len(job[s].left) = 1 /\ Becomes(s, [job[s] EXCEPT !.st = "compensated", !.lock = {}])
         \/ Len(job[s].left) # 1 /\ Becomes(s, [job[s] EXCEPT !.left = Tail(job[s].left)])
<1>1. CASE Len(job[s].left) = 1
  BY <1>1, Turnings DEF Undone
<1>2. CASE Len(job[s].left) # 1
  <2> DEFINE q == [job[s] EXCEPT !.left = Tail(job[s].left)]
  <2>1. Alike(job[s], NoJob) /\ job = [t \in Slot |-> job[t]]
    BY DEF JobsOk
  <2>2. job' = [job EXCEPT ![s] = q]
    BY <1>2, <2>1 DEF Undone
  <2>3. Alike(q, NoJob) /\ q.st = job[s].st /\ q.at = job[s].at
    BY <2>1 DEF Alike, NoJob
  <2> QED
    BY <1>2, <2>2, <2>3, Turns DEF InFlight
<1> QED
  BY <1>1, <1>2

(* A request, and what an operation that begins looks like.                *)
LEMMA Requested ==
  ASSUME JobsOk, NEW s \in Slot, NEW q, job[s].st = "idle", job' = [job EXCEPT ![s] = q],
         Alike(q, NoJob), q.st = "running"
  PROVE  Becomes(s, q)
<1>1. job[s] = NoJob
  BY DEF JobsOk
<1>2. Grows(job[s], q)
  BY <1>1 DEF Grows, NoJob
<1>3. job'[s] = q
  BY DEF JobsOk
<1> QED
  BY <1>2, <1>3 DEF Moved, Becomes

(* What a step leaves alone.                                               *)
Alive == \A n \in Server : Built(n) /\ Here(n) => Here(n)'

LEMMA Quiet ==
  ASSUME FleetInv, NEW s \in Slot, JobsTo(s)
  PROVE  /\ row' = row => RowsTo /\ Alive
         /\ machine' = machine => MachinesTo
         /\ gc' = gc \/ gc' = [n \in Server |-> "idle"] => CollectorTo
         /\ reps' \subseteq reps => RepsTo
         /\ held' = held /\ Alive => HeldTo
<1>1. \A n : Built(n) => Built(n)'
  BY JobsKept DEF FleetInv
<1>2. ASSUME row' = row PROVE RowsTo /\ Alive
  <2>1. \A n \in Server : RowTo(n)
    BY <1>1, <1>2 DEF FleetInv, RowsOk, RowTo, Usable, Here
  <2>2. row' = [n \in Server |-> row'[n]]
    BY <1>2 DEF FleetInv, RowsOk
  <2> QED
    BY <1>2, <2>1, <2>2 DEF RowsTo, Alive, Here
<1>3. ASSUME machine' = machine PROVE MachinesTo
  BY <1>3 DEF MachinesTo, Kept
<1>4. ASSUME gc' = gc \/ gc' = [n \in Server |-> "idle"] PROVE CollectorTo
  <2>1. gc = [n \in Server |-> gc[n]]
    BY DEF FleetInv, CollectorOk
  <2> QED
    BY <1>4, <2>1 DEF CollectorTo
<1>5. ASSUME held' = held, Alive PROVE HeldTo
  <2>1. \A h \in held : Here(h.srv)'
    BY <1>5, BuiltIsServer DEF FleetInv, PlacesOk, Alive
  <2> QED
    BY <1>5, <2>1 DEF HeldTo, FleetInv, PlacesOk
<1> QED
  BY <1>2, <1>3, <1>4, <1>5 DEF RepsTo

LEMMA Left == ASSUME FleetInv, NEW s \in Slot, JobsTo(s), UNCHANGED <<row, reps, held>>
              PROVE  RowsTo /\ RepsTo /\ HeldTo
BY Quiet

(* The row of one server changes.                                          *)
OneRow(n) == row' = [m \in Server |-> row'[m]] /\ \A m \in Server \ {n} : row'[m] = row[m]

LEMMA RowOne ==
  ASSUME FleetInv, NEW s \in Slot, JobsTo(s), NEW n \in Server, OneRow(n), RowTo(n),
         Built(n) /\ Here(n) => Here(n)'
  PROVE  RowsTo /\ Alive
<1>1. \A m : Built(m) => Built(m)'
  BY JobsKept DEF FleetInv
<1>2. ASSUME NEW m \in Server, m # n PROVE RowTo(m) /\ (Here(m) => Here(m)')
  <2>1. row'[m] = row[m]
    BY <1>2 DEF OneRow
  <2> QED
    BY <1>1, <2>1 DEF FleetInv, RowsOk, RowTo, Usable, Here
<1> QED
  BY <1>2 DEF RowsTo, Alive, OneRow

LEMMA RowChanges ==
  ASSUME FleetInv, NEW n \in Server, NEW v, row' = [row EXCEPT ![n] = v]
  PROVE  OneRow(n) /\ row'[n] = v
<1>1. row = [m \in Server |-> row[m]]
  BY DEF FleetInv, RowsOk
<1> QED
  BY <1>1 DEF OneRow

(* gcServerIfEmpty marks only servers that are built.                      *)
LEMMA GcRow ==
  ASSUME FleetInv, NEW s \in Slot, JobsTo(s), NEW n, Built(n), NEW left, row' = GcIfEmpty(row, left, n)
  PROVE  RowsTo /\ Alive
<1>1. n \in Server /\ Alike(row[n], NoRow) /\ row = [m \in Server |-> row[m]] /\ (row[n].known => Here(n))
  BY BuiltIsServer DEF FleetInv, RowsOk
<1> DEFINE v == [row[n] EXCEPT !.gc = Here(n) /\ {r \in left : r.srv = n} = {}]
<1>2. row' = [row EXCEPT ![n] = v]
  BY <1>1 DEF GcIfEmpty
<1>3. OneRow(n) /\ row'[n] = v
  BY <1>1, <1>2, RowChanges
<1>4. Alike(v, NoRow) /\ v.st = row[n].st /\ v.known = row[n].known
  BY <1>1 DEF Alike, NoRow
<1>5. Built(n)'
  BY JobsKept DEF FleetInv
<1>6. RowTo(n) /\ (Here(n) => Here(n)')
  BY <1>1, <1>3, <1>4, <1>5 DEF RowTo, Here
<1> QED
  BY <1>1, <1>3, <1>6, RowOne

(* A claim is given up by the operation that has it.                       *)
LEMMA Released ==
  ASSUME FleetInv, NEW s \in Slot, JobsTo(s), Alive, Release(s), ~Claiming(s)'
  PROVE  HeldTo
<1> DEFINE c == Claim(s, job[s].to, job[s].port)
<1>1. held' = held \ {c} /\ c.by = s
  BY DEF Release, Claim
<1>2. \A h \in held : Here(h.srv)'
  BY BuiltIsServer DEF FleetInv, PlacesOk, Alive
<1>3. \A h \in held : h \in held' \/ ~Claiming(h.by)'
  BY <1>1
<1> QED
  BY <1>1, <1>2, <1>3 DEF HeldTo, FleetInv, PlacesOk

(* A claim is made: the port was free, and the server is ready.            *)
LEMMA Taken ==
  ASSUME FleetInv, NEW s \in Slot, JobsTo(s), Alive, NEW n \in Server, NEW p, Usable(n), PortFree(n, p),
         held' = held \cup {Claim(s, n, p)}
  PROVE  HeldTo
<1> DEFINE c == Claim(s, n, p)
<1>1. c.srv = n /\ c.port = p
  BY DEF Claim
<1>2. Built(n) /\ Here(n)'
  BY DEF FleetInv, RowsOk, Alive, Usable, Here
<1>3. \A h \in held : Here(h.srv)'
  BY BuiltIsServer DEF FleetInv, PlacesOk, Alive
<1>4. \A h \in held : h.srv = n => h.port # p
  BY DEF PortFree
<1> QED
  BY <1>1, <1>2, <1>3, <1>4 DEF HeldTo

(* What is forgotten with a server.                                        *)
LEMMA Forgotten ==
  ASSUME FleetInv, NEW s \in Slot, JobsTo(s), NEW n \in Server, Forget(n),
         row[n].known => machine'[n] = 0 \/ (n \notin Old /\ At(<<"destroy", n>>, "rows", "start"))
  PROVE  RowsTo /\ RepsTo /\ HeldTo
<1>1. OneRow(n) /\ row'[n] = NoRow
  BY RowChanges DEF Forget
<1>2. ~Here(n)' /\ ~Usable(n)' /\ Alike(row'[n], NoRow) /\ ~row'[n].known /\ ~row'[n].gc
  BY <1>1 DEF Here, Usable, Alike, NoRow
<1>3. \A m : Built(m) => Built(m)'
  BY JobsKept DEF FleetInv
<1>4. RowTo(n)
  BY <1>2 DEF RowTo
<1>5. ASSUME NEW m \in Server, m # n PROVE RowTo(m) /\ (Here(m) => Here(m)')
  <2>1. row'[m] = row[m]
    BY <1>1, <1>5 DEF OneRow
  <2> QED
    BY <1>3, <2>1 DEF FleetInv, RowsOk, RowTo, Usable, Here
<1>6. RowsTo
  BY <1>1, <1>4, <1>5 DEF RowsTo, OneRow
<1>7. RepsTo
  BY DEF Forget, RepsTo
<1>8. HeldTo
  <2>1. \A h \in held : h.srv \in Server /\ Here(h.srv)
    BY BuiltIsServer DEF FleetInv, PlacesOk
  <2>2. \A h \in held' : h \in held /\ h.srv # n
    BY DEF Forget
  <2>3. \A h \in held' : Here(h.srv)'
    BY <1>5, <2>1, <2>2
  <2>4. \A h \in held : h \in held' \/ ~Here(h.srv)'
    BY <1>2 DEF Forget
  <2> QED
    BY <2>2, <2>3, <2>4 DEF HeldTo, FleetInv, PlacesOk
<1> QED
  BY <1>6, <1>7, <1>8

(* One obligation suffices for the operation itself.                       *)
LEMMA OwnOne ==
  /\ \A n \in Server : (ProvisionOk(n)' => OwnOk(<<"provision", n>>)') /\ (DestroyOk(n)' => OwnOk(<<"destroy", n>>)')
  /\ \A a \in App : (DeployOk(a)' => OwnOk(<<"deploy", a>>)') /\ (MigrateOk(a)' => OwnOk(<<"migrate", a>>)')
BY DEF OwnOk
(* The panel dies: every operation is at the start of its step.            *)
LEMMA Died ==
  ASSUME FleetInv, NEW s \in Slot, Dies PROVE JobsTo(s) /\ Still(s) /\ CollectorTo
<1>1. Restarted /\ gc' = [n \in Server |-> "idle"]
  BY DEF Dies, Restarted
<1>2. JobsTo(s) /\ Still(s)
  BY <1>1, JobsKept DEF JobsTo, FleetInv
<1> QED
  BY <1>1, <1>2, Quiet

(* The provider's answer is written into the row of a server in the making. *)
LEMMA Answered ==
  ASSUME FleetInv, NEW s \in Slot, JobsTo(s), NEW n, Making(n),
         \A b \in App : Own[b] = n => ~At(<<"deploy", b>>, "pick", "create")',
         row' = IF Here(n) THEN [row EXCEPT ![n].st = "provisioning", ![n].known = TRUE] ELSE row
  PROVE  RowsTo /\ Alive
<1>1. n \in Server /\ ~Built(n)
  BY MakingIsNotBuilt
<1>2. CASE ~Here(n)
  BY <1>2, Quiet
<1>3. CASE Here(n)
  <2> DEFINE v == [row[n] EXCEPT !.st = "provisioning", !.known = TRUE]
  <2>1. Alike(row[n], NoRow) /\ row = [m \in Server |-> row[m]] /\ ~row[n].gc
    BY <1>1 DEF FleetInv, RowsOk
  <2>2. row' = [row EXCEPT ![n] = v]
    BY <1>1, <1>3, <2>1
  <2>3. OneRow(n) /\ row'[n] = v
    BY <1>1, <2>2, RowChanges
  <2>4. Alike(v, NoRow) /\ v.st = "provisioning" /\ v.known /\ v.gc = row[n].gc
    BY <2>1 DEF Alike, NoRow
  <2>5. RowTo(n)
    BY <1>1, <1>3, <2>1, <2>3, <2>4 DEF RowTo, Here, Usable
  <2> QED
    BY <1>1, <2>3, <2>5, RowOne
<1> QED
  BY <1>2, <1>3

(* A step of operation s keeps the invariant.                              *)
Keeps(s) == StepTo(s) /\ (Still(s) \/ OwnOk(s)')

-----------------------------------------------------------------------------
(* Provisioning.                                                           *)
LEMMA ProvisionBegins ==
  ASSUME FleetInv, NEW n \in Server, ProvisionServer(n) PROVE Keeps(<<"provision", n>>)
<1> DEFINE s == <<"provision", n>>
           q == [NoJob EXCEPT !.st = "running", !.at = "row", !.lock = {"create-server"}]
<1>1. s \in Slot
  BY Slots
<1>2. job[s].st = "idle" /\ job' = [job EXCEPT ![s] = q] /\ UNCHANGED <<row, reps, held, machine, gc>>
  BY DEF ProvisionServer, Request, tables, world
<1>3. Alike(q, NoJob) /\ q.st = "running"
  BY DEF Alike, NoJob
<1>4. Becomes(s, q)
  BY <1>1, <1>2, <1>3, Requested DEF FleetInv
<1>5. StepTo(s)
  BY <1>1, <1>2, <1>4, Quiet, Left DEF StepTo, JobsTo, Becomes
<1>6. ProvisionOk(n)'
  BY <1>3, <1>4 DEF ProvisionServer, Becomes, ProvisionOk
<1> QED
  BY <1>5, <1>6, OwnOne DEF Keeps

(* What is known while a server is provisioned.                            *)
LEMMA WhileProvisioned ==
  ASSUME FleetInv, NEW n \in Server, job[<<"provision", n>>].st # "idle"
  PROVE  /\ n \notin Old /\ \A b \in App : Own[b] # n
         /\ job[<<"provision", n>>].st = "running" => Making(n) /\ ~Built(n)
         /\ job[<<"provision", n>>].st = "undoing" =>
              /\ job[<<"provision", n>>].left \in {<<"row">>, <<"create", "row">>}
              /\ Head(job[<<"provision", n>>].left) = "row" => machine[n] = 0 \/ ~row[n].known
         /\ <<"provision", n>> \in Slot /\ Alike(job[<<"provision", n>>], NoJob)
<1>1. ProvisionOk(n)
  BY DEF FleetInv
<1>2. <<"provision", n>> \in Slot
  BY Slots
<1>3. job[<<"provision", n>>].st = "running" => Making(n)
  BY DEF Making
<1> QED
  BY <1>1, <1>2, <1>3, MakingIsNotBuilt DEF ProvisionOk, FleetInv, JobsOk

(* Nothing is asked of an operation but that it is not undone too far.     *)
LEMMA ProvisionGoesOn ==
  ASSUME FleetInv, NEW n \in Server, job[<<"provision", n>>].st # "idle",
         job'[<<"provision", n>>].st # "undoing"
  PROVE  OwnOk(<<"provision", n>>)'
<1>1. ProvisionOk(n)'
  BY WhileProvisioned DEF ProvisionOk
<1> QED
  BY <1>1, OwnOne

LEMMA RowIsInserted ==
  ASSUME FleetInv, NEW n \in Server, InsertServerRow(n) PROVE Keeps(<<"provision", n>>)
<1> DEFINE s == <<"provision", n>>
           v == IF Here(n) THEN row[n] ELSE [NoRow EXCEPT !.st = "creating"]
<1>1. s \in Slot /\ InFlight(s) /\ job[s].st = "running" /\ Making(n) /\ ~Built(n) /\ Alike(job[s], NoJob)
  BY WhileProvisioned DEF InsertServerRow, At, InFlight
<1>2. row' = [row EXCEPT ![n] = v] /\ UNCHANGED <<reps, held, machine>> /\ Records(s, "create")
  BY DEF InsertServerRow, world
<1>3. /\ JobsTo(s) /\ CollectorTo
      /\ Still(s) \/ job'[s].st # "undoing"
  <2>1. CASE Dies
    BY <1>1, <2>1, Died
  <2>2. CASE Step(s, "create") /\ gc' = gc
    <3>1. Becomes(s, [job[s] EXCEPT !.at = "create", !.pc = "start"])
      BY <1>1, <2>2, Turnings DEF FleetInv
    <3> QED
      BY <1>1, <2>2, <3>1, Quiet DEF Becomes, JobsTo, Alike, NoJob
  <2> QED
    BY <1>2, <2>1, <2>2 DEF Records
<1>4. RowsTo /\ Alive
  <2>1. OneRow(n) /\ row'[n] = v
    BY <1>2, RowChanges
  <2>2. Alike(v, NoRow) /\ (v.known => row[n].known /\ v.st # "none") /\ (v.gc => row[n].gc)
        /\ (v.st = "ready" => row[n].st = "ready") /\ (row[n].known => v = row[n])
    BY DEF Alike, NoRow, FleetInv, RowsOk, Here
  <2>3. RowTo(n)
    BY <1>1, <2>1, <2>2 DEF RowTo, Here, Usable, FleetInv, RowsOk
  <2> QED
    BY <1>1, <1>3, <2>1, <2>3, RowOne
<1>5. StepTo(s)
  BY <1>1, <1>2, <1>3, <1>4, Quiet DEF StepTo
<1> QED
  BY <1>1, <1>3, <1>5, ProvisionGoesOn DEF Keeps

LEMMA ServerIsCreated ==
  ASSUME FleetInv, NEW n \in Server, CreateCloudServer(n) PROVE Keeps(<<"provision", n>>)
<1> DEFINE s == <<"provision", n>>
<1>1. /\ s \in Slot /\ InFlight(s) /\ job[s].st = "running" /\ Making(n) /\ ~Built(n) /\ Alike(job[s], NoJob)
      /\ n \notin Old /\ \A b \in App : Own[b] # n
  BY WhileProvisioned DEF CreateCloudServer, At, InFlight
<1>2. UNCHANGED <<reps, held>> /\ job[s].at = "create"
  BY DEF CreateCloudServer, At
<1>3. ASSUME Step(s, "boot") PROVE JobsTo(s) /\ OwnOk(s)'
  <2>1. Becomes(s, [job[s] EXCEPT !.at = "boot", !.pc = "start"])
    BY <1>1, <1>3, Turnings DEF FleetInv
  <2>2. job'[s].st # "undoing"
    BY <1>1, <2>1 DEF Becomes, Alike, NoJob
  <2> QED
    BY <1>1, <2>1, <2>2, ProvisionGoesOn DEF JobsTo, Becomes
<1>4. ASSUME Throw(s), machine'[n] = 0 \/ ~row'[n].known PROVE JobsTo(s) /\ OwnOk(s)'
  <2>1. Completed(s) = <<"row">>
    BY <1>2 DEF Completed
  <2>2. Becomes(s, [job[s] EXCEPT !.st = "undoing", !.left = <<"row">>]) \/ Becomes(s, [job[s] EXCEPT !.st = "failed", !.lock = {}])
    BY <1>1, <1>4, <2>1, Throwing DEF FleetInv
  <2>3. job'[s].st = "undoing" => job'[s].left = <<"row">>
    BY <1>1, <2>2 DEF Becomes, Alike, NoJob
  <2>4. ProvisionOk(n)'
    BY <1>1, <1>4, <2>3 DEF ProvisionOk
  <2> QED
    BY <2>2, <2>4, OwnOne DEF JobsTo, Becomes
<1>5. ASSUME JobsTo(s), row' = IF Here(n) THEN [row EXCEPT ![n].st = "provisioning", ![n].known = TRUE] ELSE row
      PROVE  RowsTo /\ Alive
  BY <1>1, <1>5, Answered
<1>6. CASE row[n].known \/ FoundByName(n)
  <2>1. /\ row' = IF Here(n) THEN [row EXCEPT ![n].st = "provisioning", ![n].known = TRUE] ELSE row
        /\ Step(s, "boot") /\ UNCHANGED <<machine, gc>>
    BY <1>6 DEF CreateCloudServer
  <2> QED
    BY <1>1, <1>2, <1>3, <1>5, <2>1, Quiet DEF Keeps, StepTo
<1>7. CASE ~(row[n].known \/ FoundByName(n))
  <2>1. CreateMachine(s, n, Step(s, "boot"))
    BY <1>7 DEF CreateCloudServer
  <2>2. machine[n] = 0
    BY <1>7 DEF FoundByName, FleetInv, MachineInv
  <2>3. machine' = [machine EXCEPT ![n] = @ + 1] => MachinesTo
    BY <1>1, <2>2 DEF MachinesTo, Ordered
  <2>4. CASE /\ machine' = [machine EXCEPT ![n] = @ + 1]
             /\ row' = IF Here(n) THEN [row EXCEPT ![n].st = "provisioning", ![n].known = TRUE] ELSE row
             /\ Step(s, "boot") /\ gc' = gc
    BY <1>1, <1>2, <1>3, <1>5, <2>3, <2>4, Quiet DEF Keeps, StepTo
  <2>5. CASE machine' = [machine EXCEPT ![n] = @ + 1] /\ Dies /\ row' = row
    BY <1>1, <1>2, <2>3, <2>5, Died, Quiet DEF Keeps, StepTo
  <2>6. CASE (machine' = [machine EXCEPT ![n] = @ + 1] \/ machine' = machine) /\ Throw(s) /\ row' = row /\ gc' = gc
    <3>1. JobsTo(s) /\ OwnOk(s)'
      BY <1>4, <1>7, <2>6
    <3> QED
      BY <1>1, <1>2, <2>3, <2>6, <3>1, Quiet DEF Keeps, StepTo
  <2> QED
    BY <2>1, <2>4, <2>5, <2>6 DEF CreateMachine
<1> QED
  BY <1>6, <1>7

LEMMA ServerBoots ==
  ASSUME FleetInv, NEW n \in Server, BootServer(n) \/ BootFails(n) PROVE Keeps(<<"provision", n>>)
<1> DEFINE s == <<"provision", n>>
<1>1. s \in Slot /\ InFlight(s) /\ job[s].st = "running" /\ job[s].at = "boot" /\ Alike(job[s], NoJob)
      /\ n \notin Old /\ \A b \in App : Own[b] # n
  BY WhileProvisioned DEF BootServer, BootFails, At, InFlight
<1>2. UNCHANGED <<row, reps, held, machine, gc>> /\ (Step(s, "ready") \/ Throw(s))
  BY DEF BootServer, BootFails, tables, world
<1>3. JobsTo(s) /\ (job'[s].st = "undoing" => job'[s].left = <<"create", "row">>)
  <2>1. CASE Step(s, "ready")
    <3>1. Becomes(s, [job[s] EXCEPT !.at = "ready", !.pc = "start"])
      BY <1>1, <2>1, Turnings DEF FleetInv
    <3> QED
      BY <1>1, <3>1 DEF Becomes, JobsTo, Alike, NoJob
  <2>2. CASE Throw(s)
    <3>1. Completed(s) = <<"create", "row">>
      BY <1>1 DEF Completed
    <3>2. Becomes(s, [job[s] EXCEPT !.st = "undoing", !.left = <<"create", "row">>])
          \/ Becomes(s, [job[s] EXCEPT !.st = "failed", !.lock = {}])
      BY <1>1, <2>2, <3>1, Throwing DEF FleetInv
    <3> QED
      BY <1>1, <3>2 DEF Becomes, JobsTo, Alike, NoJob
  <2> QED
    BY <1>2, <2>1, <2>2
<1>4. ProvisionOk(n)'
  BY <1>1, <1>3 DEF ProvisionOk
<1> QED
  BY <1>1, <1>2, <1>3, <1>4, Quiet, OwnOne DEF Keeps, StepTo

LEMMA ServerIsReady ==
  ASSUME FleetInv, NEW n \in Server, MarkReady(n) PROVE Keeps(<<"provision", n>>)
<1> DEFINE s == <<"provision", n>>
<1>1. s \in Slot /\ InFlight(s) /\ job[s].st = "running" /\ Making(n) /\ ~Built(n) /\ Alike(job[s], NoJob)
  BY WhileProvisioned DEF MarkReady, At, InFlight
<1>2. UNCHANGED <<reps, held, machine, gc>> /\ End(s, "done")
  BY DEF MarkReady, world
<1>3. Becomes(s, [job[s] EXCEPT !.st = "done", !.lock = {}])
  BY <1>1, <1>2, Turnings DEF FleetInv
<1>4. JobsTo(s) /\ job'[s].st = "done"
  BY <1>1, <1>3 DEF Becomes, JobsTo, Alike, NoJob
<1>5. Built(n)'
  BY <1>4 DEF Built
<1>6. RowsTo /\ Alive
  <2>1. CASE ~Here(n)
    BY <1>1, <1>4, <2>1, Quiet DEF MarkReady
  <2>2. CASE Here(n)
    <3> DEFINE v == [row[n] EXCEPT !.st = "ready"]
    <3>1. Alike(row[n], NoRow) /\ row = [m \in Server |-> row[m]]
      BY DEF FleetInv, RowsOk
    <3>2. row' = [row EXCEPT ![n] = v]
      BY <2>2, <3>1 DEF MarkReady
    <3>3. OneRow(n) /\ row'[n] = v
      BY <3>2, RowChanges
    <3>4. Alike(v, NoRow) /\ v.st = "ready" /\ v.known = row[n].known /\ v.gc = row[n].gc
      BY <3>1 DEF Alike, NoRow
    <3>5. RowTo(n)
      BY <1>1, <1>5, <2>2, <3>3, <3>4 DEF RowTo, Here
    <3> QED
      BY <1>1, <1>4, <3>3, <3>5, RowOne
  <2> QED
    BY <2>1, <2>2
<1> QED
  BY <1>1, <1>2, <1>4, <1>6, Quiet, ProvisionGoesOn DEF Keeps, StepTo

LEMMA CreationIsUndone ==
  ASSUME FleetInv, NEW n \in Server, UndoCreate(n) \/ UndoCreateFails(n) \/ UndoRow(n)
  PROVE  Keeps(<<"provision", n>>)
<1> DEFINE s == <<"provision", n>>
<1>1. /\ s \in Slot /\ InFlight(s) /\ Alike(job[s], NoJob) /\ n \notin Old /\ \A b \in App : Own[b] # n
      /\ job[s].left \in {<<"row">>, <<"create", "row">>}
      /\ Head(job[s].left) = "row" => machine[n] = 0 \/ ~row[n].known
  BY WhileProvisioned DEF UndoCreate, UndoCreateFails, UndoRow, Undoes, InFlight
<1>2. CASE UndoCreate(n)
  <2>1. job[s].left = <<"create", "row">>
    BY <1>1, <1>2 DEF UndoCreate, Undoes
  <2>2. Becomes(s, [job[s] EXCEPT !.left = Tail(job[s].left)])
    <3>1. Undone(s) /\ JobsOk
      BY <1>2 DEF UndoCreate, FleetInv
    <3>2. Len(job[s].left) # 1
      BY <2>1
    <3> QED
      BY <1>1, <3>1, <3>2, Undoing
  <2>3. JobsTo(s) /\ job'[s].left = <<"row">>
    BY <1>1, <2>1, <2>2 DEF Becomes, JobsTo, Alike, NoJob
  <2>4. Gone(n) /\ UNCHANGED <<row, reps, held, gc>>
    BY <1>2 DEF UndoCreate, Demolish, Gone, tables
  <2>5. machine'[n] = 0 /\ MachinesTo
    BY <2>4 DEF Gone, MachinesTo, FleetInv, MachineInv
  <2>6. ProvisionOk(n)'
    BY <1>1, <2>3, <2>5 DEF ProvisionOk
  <2> QED
    BY <1>1, <2>3, <2>4, <2>5, <2>6, Quiet, OwnOne DEF Keeps, StepTo
<1>3. CASE UndoCreateFails(n)
  <2>1. Becomes(s, [job[s] EXCEPT !.st = "compensation_failed", !.lock = {}])
    BY <1>1, <1>3, Turnings DEF FleetInv, UndoCreateFails
  <2>2. JobsTo(s) /\ job'[s].st # "undoing"
    BY <1>1, <2>1 DEF Becomes, JobsTo, Alike, NoJob
  <2>3. UNCHANGED <<row, reps, held, gc, machine>>
    BY <1>3 DEF UndoCreateFails, tables, world
  <2>4. ProvisionOk(n)'
    BY <1>1, <2>2 DEF ProvisionOk
  <2> QED
    BY <1>1, <2>2, <2>3, <2>4, Quiet, OwnOne DEF Keeps, StepTo
<1>4. CASE UndoRow(n)
  <2>1. job[s].left = <<"row">> /\ (machine[n] = 0 \/ ~row[n].known)
    BY <1>1, <1>4 DEF UndoRow, Undoes
  <2>2. Becomes(s, [job[s] EXCEPT !.st = "compensated", !.lock = {}])
    BY <1>1, <1>4, <2>1, Undoing DEF FleetInv, UndoRow
  <2>3. JobsTo(s) /\ job'[s].st # "undoing"
    BY <1>1, <2>2 DEF Becomes, JobsTo, Alike, NoJob
  <2>4. Forget(n) /\ UNCHANGED <<machine, gc>>
    BY <1>4 DEF UndoRow, world
  <2>5. RowsTo /\ RepsTo /\ HeldTo
    BY <1>1, <2>1, <2>3, <2>4, Forgotten
  <2>6. ProvisionOk(n)'
    BY <1>1, <2>3 DEF ProvisionOk
  <2> QED
    BY <1>1, <2>3, <2>4, <2>5, <2>6, Quiet, OwnOne DEF Keeps, StepTo
<1> QED
  BY <1>2, <1>3, <1>4

LEMMA ProvisionsKeep ==
  ASSUME FleetInv, NEW n \in Server, Provisions(n) PROVE Keeps(<<"provision", n>>)
BY ProvisionBegins, RowIsInserted, ServerIsCreated, ServerBoots, ServerIsReady, CreationIsUndone DEF Provisions
-----------------------------------------------------------------------------
(* Destruction and collection.                                             *)

(* An app goes: its replicas go, and their servers may be marked.          *)
LEMMA AppGoes ==
  ASSUME FleetInv, NEW s \in Slot, JobsTo(s), NEW a, DestroyApp(a)
  PROVE  RowsTo /\ MachinesTo /\ CollectorTo /\ RepsTo /\ HeldTo
<1>1. /\ reps' = reps \ RepsOf(a) /\ UNCHANGED <<held, machine, gc>>
      /\ row' = [n \in Server |-> IF \E r \in RepsOf(a) : r.srv = n
                                  THEN GcIfEmpty(row, reps \ RepsOf(a), n)[n] ELSE row[n]]
  BY DEF DestroyApp
<1>2. \A n : Built(n) => Built(n)'
  BY JobsKept DEF FleetInv
<1>3. ASSUME NEW n \in Server PROVE RowTo(n) /\ (Here(n) => Here(n)')
  <2> DEFINE v == [row[n] EXCEPT !.gc = Here(n) /\ {r \in reps \ RepsOf(a) : r.srv = n} = {}]
  <2>1. Alike(row[n], NoRow) /\ row = [m \in Server |-> row[m]] /\ (row[n].known => Here(n))
    BY DEF FleetInv, RowsOk
  <2>2. CASE \E r \in RepsOf(a) : r.srv = n
    <3>1. Built(n) /\ Built(n)'
      BY <1>2, <2>2 DEF FleetInv, PlacesOk, RepsOf
    <3>2. row'[n] = v
      BY <1>1, <2>1, <2>2 DEF GcIfEmpty
    <3>3. Alike(v, NoRow) /\ v.st = row[n].st /\ v.known = row[n].known
      BY <2>1 DEF Alike, NoRow
    <3> QED
      BY <2>1, <3>1, <3>2, <3>3 DEF RowTo, Here
  <2>3. CASE ~\E r \in RepsOf(a) : r.srv = n
    <3>1. row'[n] = row[n]
      BY <1>1, <2>3
    <3> QED
      BY <1>2, <2>1, <3>1 DEF FleetInv, RowsOk, RowTo, Here, Usable
  <2> QED
    BY <2>2, <2>3
<1>4. RowsTo /\ Alive
  BY <1>1, <1>3 DEF RowsTo, Alive
<1> QED
  BY <1>1, <1>4, Quiet

(* What is asked of a destruction.                                         *)
LEMMA DestroyGoesOn ==
  ASSUME NEW n \in Server, job'[<<"destroy", n>>].at # "rows" \/ n \notin Old PROVE OwnOk(<<"destroy", n>>)'
<1>1. DestroyOk(n)'
  BY DEF DestroyOk
<1> QED
  BY <1>1, OwnOne

LEMMA DestructionBegins ==
  ASSUME FleetInv, NEW n \in Server, DestroyServer(n) PROVE Keeps(<<"destroy", n>>)
<1> DEFINE s == <<"destroy", n>>
           q == [NoJob EXCEPT !.st = "running", !.at = "list", !.lock = {n} \cup {r.app : r \in RepsOn(n)}]
<1>1. s \in Slot
  BY Slots
<1>2. job[s].st = "idle" /\ job' = [job EXCEPT ![s] = q] /\ UNCHANGED <<row, reps, held, machine, gc>>
  BY DEF DestroyServer, Request, tables, world
<1>3. Alike(q, NoJob) /\ q.st = "running" /\ q.at = "list"
  BY DEF Alike, NoJob
<1>4. Becomes(s, q)
  BY <1>1, <1>2, <1>3, Requested DEF FleetInv
<1> QED
  BY <1>1, <1>2, <1>3, <1>4, Quiet, DestroyGoesOn DEF Keeps, StepTo, JobsTo, Becomes

LEMMA AppsAreListed ==
  ASSUME FleetInv, NEW n \in Server, ListApps(n) \/ ChildrenOver(n) PROVE Keeps(<<"destroy", n>>)
<1> DEFINE s == <<"destroy", n>>
<1>1. s \in Slot /\ InFlight(s) /\ Alike(job[s], NoJob) /\ job = [t \in Slot |-> job[t]] /\ JobsOk
  BY Slots DEF ListApps, ChildrenOver, At, InFlight, FleetInv, JobsOk
<1>2. UNCHANGED <<row, reps, held, machine, gc>>
  BY DEF ListApps, ChildrenOver, tables, world
<1>3. JobsTo(s) /\ job'[s].at # "rows"
  <2>1. CASE ListApps(n)
    <3> DEFINE q == [job[s] EXCEPT !.at = "children", !.kids = {r.app : r \in RepsOn(n)}]
    <3>1. job' = [job EXCEPT ![s] = q]
      BY <1>1, <2>1 DEF ListApps
    <3>2. Alike(q, NoJob) /\ q.st = job[s].st /\ q.at = "children"
      BY <1>1 DEF Alike, NoJob
    <3>3. Becomes(s, q)
      BY <1>1, <3>1, <3>2, Turns DEF InFlight
    <3> QED
      BY <3>2, <3>3 DEF Becomes, JobsTo
  <2>2. CASE ChildrenOver(n)
    <3>1. Becomes(s, [job[s] EXCEPT !.at = "cloud", !.pc = "start"])
      BY <1>1, <2>2, Turnings DEF ChildrenOver
    <3> QED
      BY <1>1, <3>1 DEF Becomes, JobsTo, Alike, NoJob
  <2> QED
    BY <2>1, <2>2
<1> QED
  BY <1>1, <1>2, <1>3, Quiet, DestroyGoesOn DEF Keeps, StepTo

LEMMA ChildIsOver ==
  ASSUME FleetInv, NEW n \in Server, NEW a, ChildDestroys(n, a) \/ ChildEnds(n, a) PROVE Keeps(<<"destroy", n>>)
<1> DEFINE s == <<"destroy", n>>
           q == [job[s] EXCEPT !.kids = @ \ {a}]
<1>1. s \in Slot /\ InFlight(s) /\ Alike(job[s], NoJob) /\ job = [t \in Slot |-> job[t]] /\ JobsOk /\ job[s].at = "children"
  BY Slots DEF ChildDestroys, ChildEnds, At, InFlight, FleetInv, JobsOk
<1>2. ASSUME job' = [job EXCEPT ![s].kids = @ \ {a}] PROVE JobsTo(s) /\ job'[s].at # "rows"
  <2>1. job' = [job EXCEPT ![s] = q]
    BY <1>1, <1>2
  <2>2. Alike(q, NoJob) /\ q.st = job[s].st /\ q.at = job[s].at
    BY <1>1 DEF Alike, NoJob
  <2>3. Becomes(s, q)
    BY <1>1, <2>1, <2>2, Turns DEF InFlight
  <2> QED
    BY <1>1, <2>2, <2>3 DEF Becomes, JobsTo
<1>3. CASE ChildDestroys(n, a)
  <2>1. JobsTo(s) /\ job'[s].at # "rows" /\ DestroyApp(a)
    BY <1>2, <1>3 DEF ChildDestroys
  <2> QED
    BY <1>1, <2>1, AppGoes, DestroyGoesOn DEF Keeps, StepTo
<1>4. CASE ChildEnds(n, a)
  <2>1. UNCHANGED <<reps, held, machine, gc>>
    BY <1>4 DEF ChildEnds, world
  <2>2. CASE job' = [job EXCEPT ![s].kids = @ \ {a}] /\ row' = row
    BY <1>1, <1>2, <2>1, <2>2, Quiet, DestroyGoesOn DEF Keeps, StepTo
  <2>3. CASE row' = [row EXCEPT ![n].st = IF Here(n) THEN "cleanup_failed" ELSE @] /\ End(s, "failed")
    <3>1. Becomes(s, [job[s] EXCEPT !.st = "failed", !.lock = {}])
      BY <1>1, <2>3, Turnings
    <3>2. JobsTo(s) /\ job'[s].at # "rows"
      BY <1>1, <3>1 DEF Becomes, JobsTo, Alike, NoJob
    <3> DEFINE v == [row[n] EXCEPT !.st = IF Here(n) THEN "cleanup_failed" ELSE @]
    <3>3. Alike(row[n], NoRow) /\ row = [m \in Server |-> row[m]] /\ (row[n].known => Here(n)) /\ (row[n].gc => Built(n))
      BY DEF FleetInv, RowsOk
    <3>4. row' = [row EXCEPT ![n] = v]
      BY <2>3, <3>3
    <3>5. OneRow(n) /\ row'[n] = v
      BY <3>4, RowChanges
    <3>6. Alike(v, NoRow) /\ v.st = (IF Here(n) THEN "cleanup_failed" ELSE row[n].st)
          /\ v.known = row[n].known /\ v.gc = row[n].gc
      BY <3>3 DEF Alike, NoRow
    <3>7. \A m : Built(m) => Built(m)'
      BY <1>1, <3>2, JobsKept DEF FleetInv
    <3>8. RowTo(n) /\ (Here(n) => Here(n)')
      BY <3>3, <3>5, <3>6, <3>7 DEF RowTo, Here, Usable
    <3>9. RowsTo /\ Alive
      BY <1>1, <3>2, <3>5, <3>8, RowOne
    <3> QED
      BY <1>1, <2>1, <3>2, <3>9, Quiet, DestroyGoesOn DEF Keeps, StepTo
  <2> QED
    BY <1>4, <2>2, <2>3 DEF ChildEnds
<1> QED
  BY <1>3, <1>4

LEMMA CloudServerGoes ==
  ASSUME FleetInv, NEW n \in Server, DeleteCloudServer(n) PROVE Keeps(<<"destroy", n>>)
<1> DEFINE s == <<"destroy", n>>
<1>1. s \in Slot /\ InFlight(s) /\ Alike(job[s], NoJob) /\ JobsOk
  BY Slots DEF DeleteCloudServer, At, InFlight, FleetInv, JobsOk
<1>2. UNCHANGED <<row, reps, held>> /\ Records(s, "rows")
  BY DEF DeleteCloudServer, tables
<1>3. MachinesTo /\ (machine'[n] = 0 \/ ~row'[n].known)
  <2>1. CASE row[n].known
    <3>1. Gone(n)
      BY <2>1 DEF DeleteCloudServer, Demolish, Gone
    <3> QED
      BY <3>1 DEF Gone, MachinesTo, FleetInv, MachineInv
  <2>2. CASE ~row[n].known
    BY <1>2, <2>2 DEF DeleteCloudServer, world, MachinesTo, Kept
  <2> QED
    BY <2>1, <2>2
<1>4. CASE Dies
  <2>1. JobsTo(s) /\ Still(s) /\ CollectorTo
    BY <1>1, <1>4, Died
  <2> QED
    BY <1>1, <1>2, <1>3, <2>1, Quiet DEF Keeps, StepTo
<1>5. CASE Step(s, "rows") /\ gc' = gc
  <2>1. Becomes(s, [job[s] EXCEPT !.at = "rows", !.pc = "start"])
    BY <1>1, <1>5, Turnings
  <2>2. JobsTo(s)
    BY <2>1 DEF Becomes, JobsTo
  <2>3. DestroyOk(n)'
    BY <1>3 DEF DestroyOk
  <2> QED
    BY <1>1, <1>2, <1>3, <1>5, <2>2, <2>3, Quiet, OwnOne DEF Keeps, StepTo
<1> QED
  BY <1>2, <1>4, <1>5 DEF Records

LEMMA CloudServerStays ==
  ASSUME FleetInv, NEW n \in Server, DeleteCloudServerFails(n) PROVE Keeps(<<"destroy", n>>)
<1> DEFINE s == <<"destroy", n>>
           v == [row[n] EXCEPT !.st = "cleanup_failed"]
<1>1. s \in Slot /\ InFlight(s) /\ Alike(job[s], NoJob) /\ JobsOk /\ job[s].at = "cloud"
  BY Slots DEF DeleteCloudServerFails, At, InFlight, FleetInv, JobsOk
<1>2. UNCHANGED <<reps, held, machine, gc>> /\ row[n].known
  BY DEF DeleteCloudServerFails, world
<1>3. Becomes(s, [job[s] EXCEPT !.st = "failed", !.lock = {}])
  BY <1>1, Turnings DEF DeleteCloudServerFails
<1>4. JobsTo(s) /\ job'[s].at # "rows"
  BY <1>1, <1>3 DEF Becomes, JobsTo, Alike, NoJob
<1>5. Alike(row[n], NoRow) /\ row = [m \in Server |-> row[m]] /\ Here(n) /\ (row[n].gc => Built(n))
  BY <1>2 DEF FleetInv, RowsOk
<1>6. OneRow(n) /\ row'[n] = v
  <2>1. row' = [row EXCEPT ![n] = v]
    BY <1>5 DEF DeleteCloudServerFails
  <2> QED
    BY <2>1, RowChanges
<1>7. Alike(v, NoRow) /\ v.st = "cleanup_failed" /\ v.known = row[n].known /\ v.gc = row[n].gc
  BY <1>5 DEF Alike, NoRow
<1>8. RowTo(n) /\ Here(n)'
  <2>1. \A m : Built(m) => Built(m)'
    BY <1>1, <1>4, JobsKept DEF FleetInv
  <2> QED
    BY <1>5, <1>6, <1>7, <2>1 DEF RowTo, Here, Usable
<1>9. RowsTo /\ Alive
  BY <1>1, <1>4, <1>6, <1>8, RowOne
<1> QED
  BY <1>1, <1>2, <1>4, <1>9, Quiet, DestroyGoesOn DEF Keeps, StepTo

LEMMA ServerRowsGo ==
  ASSUME FleetInv, NEW n \in Server, DeleteServerRows(n) PROVE Keeps(<<"destroy", n>>)
<1> DEFINE s == <<"destroy", n>>
<1>1. s \in Slot /\ InFlight(s) /\ Alike(job[s], NoJob) /\ JobsOk /\ At(s, "rows", "start") /\ job[s].at = "rows"
  BY Slots DEF DeleteServerRows, At, InFlight, FleetInv, JobsOk
<1>2. UNCHANGED <<machine, gc>> /\ Forget(n) /\ End(s, "done")
  BY DEF DeleteServerRows, world
<1>3. Becomes(s, [job[s] EXCEPT !.st = "done", !.lock = {}])
  BY <1>1, <1>2, Turnings
<1>4. JobsTo(s)
  BY <1>3 DEF Becomes, JobsTo
<1>5. row[n].known => machine'[n] = 0 \/ (n \notin Old /\ At(s, "rows", "start"))
  BY <1>1, <1>2 DEF FleetInv, DestroyOk
<1>6. RowsTo /\ RepsTo /\ HeldTo
  BY <1>1, <1>2, <1>4, <1>5, Forgotten
<1>7. DestroyOk(n)'
  <2>1. row'[n] = NoRow
    BY <1>2, RowChanges DEF Forget
  <2> QED
    BY <2>1 DEF DestroyOk, NoRow
<1> QED
  BY <1>1, <1>2, <1>4, <1>6, <1>7, Quiet, OwnOne DEF Keeps, StepTo

LEMMA DestroysKeep ==
  ASSUME FleetInv, NEW n \in Server, Destroys(n) PROVE Keeps(<<"destroy", n>>)
BY DestructionBegins, AppsAreListed, ChildIsOver, CloudServerGoes, CloudServerStays, ServerRowsGo DEF Destroys

(* A step that no operation takes part in.                                 *)
LEMMA Aside ==
  ASSUME FleetInv, NEW s \in Slot, job' = job PROVE JobsTo(s) /\ Still(s)
BY JobsKept DEF JobsTo, FleetInv

LEMMA CollectsKeep ==
  ASSUME FleetInv, NEW n \in Server, Collects(n) PROVE Keeps(<<"destroy", n>>)
<1> DEFINE s == <<"destroy", n>>
<1>1. s \in Slot /\ job' = job
  BY Slots DEF Collects, GcChecks, GcDeletes, GcFails, GcForgets
<1>2. JobsTo(s) /\ Still(s)
  BY <1>1, Aside
<1>3. gc = [m \in Server |-> gc[m]]
  BY DEF FleetInv, CollectorOk
<1>4. CASE GcChecks(n)
  <2>1. Built(n) /\ UNCHANGED <<reps, held, machine>>
    BY <1>4 DEF GcChecks, world, FleetInv, RowsOk
  <2>2. CASE gc' = [gc EXCEPT ![n] = "deleting"] /\ row' = row
    <3>1. CollectorTo
      BY <1>3, <2>1, <2>2 DEF CollectorTo
    <3> QED
      BY <1>1, <1>2, <2>1, <2>2, <3>1, Quiet DEF Keeps, StepTo
  <2>3. CASE row' = [row EXCEPT ![n].gc = FALSE] /\ gc' = gc
    <3> DEFINE v == [row[n] EXCEPT !.gc = FALSE]
    <3>1. Alike(row[n], NoRow) /\ row = [m \in Server |-> row[m]] /\ (row[n].known => Here(n))
      BY DEF FleetInv, RowsOk
    <3>2. row' = [row EXCEPT ![n] = v]
      BY <2>3, <3>1
    <3>3. OneRow(n) /\ row'[n] = v
      BY <3>2, RowChanges
    <3>4. Alike(v, NoRow) /\ v.st = row[n].st /\ v.known = row[n].known /\ ~v.gc
      BY <3>1 DEF Alike, NoRow
    <3>5. Built(n)'
      BY <1>1, <1>2, <2>1, JobsKept DEF FleetInv
    <3>6. RowTo(n) /\ (Here(n) => Here(n)')
      BY <3>1, <3>3, <3>4, <3>5 DEF RowTo, Here, Usable
    <3>7. RowsTo /\ Alive
      BY <1>1, <1>2, <3>3, <3>6, RowOne
    <3> QED
      BY <1>1, <1>2, <2>1, <2>3, <3>7, Quiet DEF Keeps, StepTo
  <2> QED
    BY <1>4, <2>2, <2>3 DEF GcChecks
<1>5. CASE GcDeletes(n)
  <2>1. Built(n) /\ Gone(n) /\ UNCHANGED <<row, reps, held>> /\ gc' = [gc EXCEPT ![n] = "deleted"]
    BY <1>5 DEF GcDeletes, Demolish, Gone, tables, FleetInv, CollectorOk
  <2>2. MachinesTo /\ machine'[n] = 0
    BY <2>1 DEF Gone, MachinesTo, FleetInv, MachineInv
  <2>3. CollectorTo
    BY <1>3, <2>1, <2>2 DEF CollectorTo
  <2> QED
    BY <1>1, <1>2, <2>1, <2>2, <2>3, Quiet DEF Keeps, StepTo
<1>6. CASE GcFails(n)
  <2>1. UNCHANGED <<row, reps, held, machine>> /\ gc' = [gc EXCEPT ![n] = "idle"]
    BY <1>6 DEF GcFails, tables, world
  <2>2. CollectorTo
    BY <1>3, <2>1 DEF CollectorTo
  <2> QED
    BY <1>1, <1>2, <2>1, <2>2, Quiet DEF Keeps, StepTo
<1>7. CASE GcForgets(n)
  <2>1. Forget(n) /\ UNCHANGED machine /\ gc' = [gc EXCEPT ![n] = "idle"] /\ gc[n] = "deleted"
    BY <1>7 DEF GcForgets, GcMayForget, world
  <2>2. machine'[n] = 0
    BY <2>1 DEF FleetInv, CollectorOk
  <2>3. RowsTo /\ RepsTo /\ HeldTo
    BY <1>1, <1>2, <2>1, <2>2, Forgotten
  <2>4. CollectorTo
    BY <1>3, <2>1 DEF CollectorTo
  <2> QED
    BY <1>1, <1>2, <2>1, <2>3, <2>4, Quiet DEF Keeps, StepTo
<1> QED
  BY <1>4, <1>5, <1>6, <1>7 DEF Collects

LEMMA RequestedDestructionKeeps ==
  ASSUME FleetInv, NEW a \in App, DestroyRequested(a) PROVE Keeps(<<"deploy", a>>)
<1>1. <<"deploy", a>> \in Slot /\ job' = job /\ DestroyApp(a)
  BY Slots DEF DestroyRequested
<1>2. JobsTo(<<"deploy", a>>) /\ Still(<<"deploy", a>>)
  BY <1>1, Aside
<1> QED
  BY <1>1, <1>2, AppGoes DEF Keeps, StepTo

LEMMA CrashKeeps ==
  ASSUME FleetInv, NEW s \in Slot, Crash PROVE Keeps(s)
<1>1. Dies /\ UNCHANGED <<row, reps, held, machine>>
  BY DEF Crash, tables, world
<1>2. JobsTo(s) /\ Still(s) /\ CollectorTo
  BY <1>1, Died
<1> QED
  BY <1>1, <1>2, Quiet DEF Keeps, StepTo
-----------------------------------------------------------------------------
(* Deployments.                                                            *)
LEMMA WhileDeployed ==
  ASSUME FleetInv, NEW a \in App, InFlight(<<"deploy", a>>)
  PROVE  /\ <<"deploy", a>> \in Slot /\ Alike(job[<<"deploy", a>>], NoJob) /\ JobsOk
         /\ job = [t \in Slot |-> job[t]]
         /\ job[<<"deploy", a>>].at \notin {"none", "pick"} => Built(job[<<"deploy", a>>].srv)
         /\ job[<<"deploy", a>>].st = "undoing" => job[<<"deploy", a>>].at \notin {"none", "pick"}
         /\ At(<<"deploy", a>>, "scale", "place") \/ At(<<"deploy", a>>, "scale", "probe") => Built(job[<<"deploy", a>>].to)
BY Slots DEF FleetInv, DeployOk, JobsOk

(* Beyond its server, nothing is asked of a deployment that claims none.   *)
LEMMA Settled ==
  ASSUME FleetInv, NEW a \in App, JobsTo(<<"deploy", a>>),
         job'[<<"deploy", a>>].at \notin {"none", "pick"},
         Built(job'[<<"deploy", a>>].srv) \/ Built(job[<<"deploy", a>>].srv)',
         ~At(<<"deploy", a>>, "scale", "place")' /\ ~At(<<"deploy", a>>, "scale", "probe")'
  PROVE  OwnOk(<<"deploy", a>>)'
<1>1. Built(job[<<"deploy", a>>].srv)'
  BY Slots, JobsKept DEF FleetInv
<1>2. DeployOk(a)'
  BY <1>1 DEF DeployOk, At
<1> QED
  BY <1>2, OwnOne

LEMMA DeployThrows ==
  ASSUME FleetInv, NEW a \in App, InFlight(<<"deploy", a>>), Throw(<<"deploy", a>>)
  PROVE  JobsTo(<<"deploy", a>>) /\ OwnOk(<<"deploy", a>>)' /\ job'[<<"deploy", a>>].st # "running"
<1> DEFINE d == <<"deploy", a>>
<1>1. d \in Slot /\ Alike(job[d], NoJob) /\ (job[d].at \notin {"none", "pick"} => Built(job[d].srv))
  BY WhileDeployed
<1>2. \/ Becomes(d, [job[d] EXCEPT !.st = "failed", !.lock = {}])
      \/ Completed(d) # <<>> /\ Becomes(d, [job[d] EXCEPT !.st = "undoing", !.left = Completed(d)])
  BY <1>1, Throwing DEF FleetInv
<1>3. JobsTo(d) /\ job'[d].st \in {"failed", "undoing"} /\ job'[d].at = job[d].at /\ job'[d].srv = job[d].srv
      /\ (job'[d].st = "undoing" => Completed(d) # <<>>)
  BY <1>1, <1>2 DEF Becomes, JobsTo, Alike, NoJob
<1>4. Completed(d) # <<>> => job[d].at \notin {"none", "pick"}
  BY DEF Completed
<1>5. ~At(d, "scale", "place")' /\ ~At(d, "scale", "probe")' /\ ~At(d, "pick", "create")'
  BY <1>3 DEF At
<1>6. CASE job[d].at \notin {"none", "pick"}
  BY <1>1, <1>3, <1>5, <1>6, Settled
<1>7. CASE job[d].at \in {"none", "pick"}
  <2>1. DeployOk(a)'
    BY <1>3, <1>4, <1>5, <1>7 DEF DeployOk
  <2> QED
    BY <1>3, <2>1, OwnOne
<1> QED
  BY <1>6, <1>7

(* A deployment still looks for a server.                                  *)
LEMMA Picking ==
  ASSUME NEW a \in App, job'[<<"deploy", a>>].at = "pick", job'[<<"deploy", a>>].st # "undoing",
         job'[<<"deploy", a>>].pc = "create" => ~row'[Own[a]].known
  PROVE  OwnOk(<<"deploy", a>>)'
<1>1. DeployOk(a)'
  BY DEF DeployOk, At
<1> QED
  BY <1>1, OwnOne

LEMMA DeployBegins ==
  ASSUME FleetInv, NEW a \in App, Deploy(a) PROVE Keeps(<<"deploy", a>>)
<1> DEFINE d == <<"deploy", a>>
           q == [NoJob EXCEPT !.st = "running", !.at = "pick", !.lock = {}]
<1>1. d \in Slot
  BY Slots
<1>2. job[d].st = "idle" /\ job' = [job EXCEPT ![d] = q] /\ UNCHANGED <<row, reps, held, machine, gc>>
  BY DEF Deploy, Request, tables, world
<1>3. Alike(q, NoJob) /\ q.st = "running" /\ q.at = "pick" /\ q.pc = "start"
  BY DEF Alike, NoJob
<1>4. Becomes(d, q)
  BY <1>1, <1>2, <1>3, Requested DEF FleetInv
<1>5. OwnOk(d)'
  BY <1>3, <1>4, Picking DEF Becomes
<1> QED
  BY <1>1, <1>2, <1>4, <1>5, Quiet DEF Keeps, StepTo, JobsTo, Becomes

LEMMA ServerIsPicked ==
  ASSUME FleetInv, NEW a \in App, PickServer(a) PROVE Keeps(<<"deploy", a>>)
<1> DEFINE d == <<"deploy", a>>
<1>1. d \in Slot /\ InFlight(d) /\ Alike(job[d], NoJob) /\ JobsOk /\ job = [t \in Slot |-> job[t]]
      /\ job[d].st = "running" /\ job[d].at = "pick"
  BY WhileDeployed DEF PickServer, At, InFlight
<1>2. UNCHANGED <<row, reps, held, machine, gc>>
  BY DEF PickServer, tables, world
<1>3. ASSUME NEW n \in Server, Usable(n), job' = [job EXCEPT ![d].at = "insert", ![d].srv = n]
      PROVE  JobsTo(d) /\ OwnOk(d)'
  <2> DEFINE q == [job[d] EXCEPT !.at = "insert", !.srv = n]
  <2>1. job' = [job EXCEPT ![d] = q]
    BY <1>1, <1>3
  <2>2. Alike(q, NoJob) /\ q.st = "running" /\ q.at = "insert" /\ q.srv = n
    BY <1>1 DEF Alike, NoJob
  <2>3. Becomes(d, q)
    BY <1>1, <2>1, <2>2, Turns
  <2>4. Built(n)
    BY <1>3 DEF FleetInv, RowsOk
  <2> QED
    BY <2>2, <2>3, <2>4, Settled DEF Becomes, JobsTo, At
<1>4. ASSUME Goto(d, "row") PROVE JobsTo(d) /\ OwnOk(d)'
  <2>1. Becomes(d, [job[d] EXCEPT !.pc = "row"])
    BY <1>1, <1>4, Turnings
  <2>2. JobsTo(d) /\ job'[d].at = "pick" /\ job'[d].st = "running" /\ job'[d].pc = "row"
    BY <1>1, <2>1 DEF Becomes, JobsTo, Alike, NoJob
  <2> QED
    BY <2>2, Picking
<1>5. JobsTo(d) /\ OwnOk(d)'
  BY <1>3, <1>4 DEF PickServer
<1> QED
  BY <1>1, <1>2, <1>5, Quiet DEF Keeps, StepTo

(* While a deployment looks for a server, its own is in the making.        *)
LEMMA OwnIsMaking ==
  ASSUME FleetInv, NEW a \in App, job[<<"deploy", a>>].st = "running", job[<<"deploy", a>>].at = "pick"
  PROVE  Own[a] \in Server /\ Making(Own[a]) /\ ~Built(Own[a]) /\ \A b \in App : Own[b] = Own[a] => b = a
<1>1. Making(Own[a])
  BY DEF Making
<1>2. Own[a] \in Server /\ \A b \in App : Own[b] = Own[a] => b = a
  BY FleetAssumption
<1> QED
  BY <1>1, <1>2, MakingIsNotBuilt

LEMMA OwnRowIsInserted ==
  ASSUME FleetInv, NEW a \in App, OwnRow(a) PROVE Keeps(<<"deploy", a>>)
<1> DEFINE d == <<"deploy", a>>
           n == Own[a]
           v == IF Here(n) THEN row[n] ELSE [NoRow EXCEPT !.st = "creating"]
           q == [job[d] EXCEPT !.pc = IF row[n].known THEN "boot" ELSE "create", !.n = IF Here(n) THEN 1 ELSE 0]
<1>1. d \in Slot /\ InFlight(d) /\ Alike(job[d], NoJob) /\ JobsOk /\ job = [t \in Slot |-> job[t]]
      /\ job[d].st = "running" /\ job[d].at = "pick"
  BY WhileDeployed DEF OwnRow, At, InFlight
<1>2. UNCHANGED <<reps, held, machine, gc>> /\ row' = [row EXCEPT ![n] = v]
  BY DEF OwnRow, world
<1>3. n \in Server /\ Making(n) /\ ~Built(n)
  BY <1>1, OwnIsMaking
<1>4. Becomes(d, q) /\ q.st = "running" /\ q.at = "pick" /\ q.pc = IF row[n].known THEN "boot" ELSE "create"
  <2>1. job' = [job EXCEPT ![d] = q]
    BY <1>1 DEF OwnRow
  <2>2. Alike(q, NoJob) /\ q.st = "running" /\ q.at = "pick" /\ q.pc = IF row[n].known THEN "boot" ELSE "create"
    BY <1>1 DEF Alike, NoJob
  <2>3. q.at = job[d].at /\ q.st # "idle"
    BY <1>1, <2>2
  <2> QED
    BY <1>1, <2>1, <2>2, <2>3, Turns
<1>5. JobsTo(d)
  BY <1>4 DEF Becomes, JobsTo
<1>6. OneRow(n) /\ row'[n] = v
  BY <1>2, <1>3, RowChanges
<1>7. Alike(v, NoRow) /\ (v.known => row[n].known /\ v.st # "none") /\ (v.gc => row[n].gc)
      /\ (v.st = "ready" => row[n].st = "ready") /\ (row[n].known => v = row[n])
  BY <1>3 DEF Alike, NoRow, FleetInv, RowsOk, Here
<1>8. RowTo(n)
  BY <1>3, <1>6, <1>7 DEF RowTo, Here, Usable, FleetInv, RowsOk
<1>9. RowsTo /\ Alive
  BY <1>1, <1>3, <1>5, <1>6, <1>8, RowOne
<1>10. OwnOk(d)'
  <2>1. job'[d].at = "pick" /\ job'[d].st = "running" /\ (job'[d].pc = "create" => ~row[n].known)
    BY <1>4 DEF Becomes
  <2>2. row'[n].known => row[n].known
    BY <1>6, <1>7
  <2> QED
    BY <2>1, <2>2, Picking
<1> QED
  BY <1>1, <1>2, <1>5, <1>9, <1>10, Quiet DEF Keeps, StepTo

LEMMA OwnMachineIsOrdered ==
  ASSUME FleetInv, NEW a \in App, OwnMachine(a) PROVE Keeps(<<"deploy", a>>)
<1> DEFINE d == <<"deploy", a>>
           n == Own[a]
<1>1. d \in Slot /\ InFlight(d) /\ Alike(job[d], NoJob) /\ JobsOk
      /\ job[d].st = "running" /\ job[d].at = "pick" /\ At(d, "pick", "create")
  BY WhileDeployed DEF OwnMachine, At, InFlight
<1>2. UNCHANGED <<reps, held>>
  BY DEF OwnMachine
<1>3. n \in Server /\ Making(n) /\ ~Built(n) /\ \A b \in App : Own[b] = n => b = a
  BY <1>1, OwnIsMaking
<1>4. ~row[n].known /\ Alike(row[n], NoRow)
  BY <1>1, <1>3 DEF FleetInv, DeployOk, RowsOk
<1>5. ASSUME Goto(d, "boot"),
             row' = IF Here(n) THEN [row EXCEPT ![n].st = "provisioning", ![n].known = TRUE] ELSE row
      PROVE  JobsTo(d) /\ OwnOk(d)' /\ RowsTo /\ Alive
  <2>1. Becomes(d, [job[d] EXCEPT !.pc = "boot"])
    BY <1>1, <1>5, Turnings
  <2>2. JobsTo(d) /\ job'[d].at = "pick" /\ job'[d].st = "running" /\ job'[d].pc = "boot"
    BY <1>1, <2>1 DEF Becomes, JobsTo, Alike, NoJob
  <2>3. \A b \in App : Own[b] = n => ~At(<<"deploy", b>>, "pick", "create")'
    BY <1>3, <2>2 DEF At
  <2>4. RowsTo /\ Alive
    BY <1>1, <1>3, <1>5, <2>2, <2>3, Answered
  <2> QED
    BY <2>2, <2>4, Picking
<1>6. CASE FoundByName(n) /\ job[d].n = 1
  <2>1. /\ row' = IF Here(n) THEN [row EXCEPT ![n].st = "provisioning", ![n].known = TRUE] ELSE row
        /\ Goto(d, "boot") /\ UNCHANGED <<machine, gc>>
    BY <1>6 DEF OwnMachine
  <2> QED
    BY <1>1, <1>2, <1>5, <2>1, Quiet DEF Keeps, StepTo
<1>7. CASE FoundByName(n) /\ job[d].n # 1
  <2>1. row' = [row EXCEPT ![n] = NoRow] /\ Throw(d) /\ UNCHANGED <<machine, gc>>
    BY <1>7 DEF OwnMachine
  <2>2. JobsTo(d) /\ OwnOk(d)'
    BY <1>1, <2>1, DeployThrows
  <2>3. OneRow(n) /\ row'[n] = NoRow
    BY <1>3, <2>1, RowChanges
  <2>4. RowTo(n)
    BY <1>3, <1>4, <2>3 DEF RowTo, Here, Usable, NoRow, Alike
  <2>5. RowsTo /\ Alive
    BY <1>1, <1>3, <2>2, <2>3, <2>4, RowOne
  <2> QED
    BY <1>1, <1>2, <2>1, <2>2, <2>5, Quiet DEF Keeps, StepTo
<1>8. CASE ~FoundByName(n)
  <2>1. CreateMachine(d, n, Goto(d, "boot"))
    BY <1>8 DEF OwnMachine
  <2>2. machine[n] = 0
    BY <1>3, <1>8 DEF FoundByName, FleetInv, MachineInv
  <2>3. machine' = [machine EXCEPT ![n] = @ + 1] => MachinesTo
    BY <1>3, <2>2 DEF MachinesTo, Ordered
  <2>4. CASE /\ machine' = [machine EXCEPT ![n] = @ + 1]
             /\ row' = IF Here(n) THEN [row EXCEPT ![n].st = "provisioning", ![n].known = TRUE] ELSE row
             /\ Goto(d, "boot") /\ gc' = gc
    BY <1>1, <1>2, <1>5, <2>3, <2>4, Quiet DEF Keeps, StepTo
  <2>5. CASE machine' = [machine EXCEPT ![n] = @ + 1] /\ Dies /\ row' = row
    BY <1>1, <1>2, <2>3, <2>5, Died, Quiet DEF Keeps, StepTo
  <2>6. CASE (machine' = [machine EXCEPT ![n] = @ + 1] \/ machine' = machine) /\ Throw(d) /\ row' = row /\ gc' = gc
    <3>1. JobsTo(d) /\ OwnOk(d)'
      BY <1>1, <2>6, DeployThrows
    <3> QED
      BY <1>1, <1>2, <2>3, <2>6, <3>1, Quiet DEF Keeps, StepTo
  <2> QED
    BY <2>1, <2>4, <2>5, <2>6 DEF CreateMachine
<1> QED
  BY <1>6, <1>7, <1>8

LEMMA OwnIsReady ==
  ASSUME FleetInv, NEW a \in App, OwnReady(a) PROVE Keeps(<<"deploy", a>>)
<1> DEFINE d == <<"deploy", a>>
           n == Own[a]
           q == [job[d] EXCEPT !.at = "insert", !.pc = "start", !.srv = n]
           v == [row[n] EXCEPT !.st = "ready"]
<1>1. d \in Slot /\ InFlight(d) /\ Alike(job[d], NoJob) /\ JobsOk /\ job = [t \in Slot |-> job[t]]
      /\ job[d].st = "running" /\ job[d].at = "pick"
  BY WhileDeployed DEF OwnReady, At, InFlight
<1>2. UNCHANGED <<reps, held, machine, gc>>
  BY DEF OwnReady, world
<1>3. n \in Server /\ Making(n) /\ ~Built(n)
  BY <1>1, OwnIsMaking
<1>4. CASE Throw(d) /\ row' = row
  <2>1. JobsTo(d) /\ OwnOk(d)'
    BY <1>1, <1>4, DeployThrows
  <2> QED
    BY <1>1, <1>2, <1>4, <2>1, Quiet DEF Keeps, StepTo
<1>5. CASE /\ Here(n) /\ row' = [row EXCEPT ![n].st = "ready"]
           /\ job' = [job EXCEPT ![d].at = "insert", ![d].pc = "start", ![d].srv = n]
  <2>1. job' = [job EXCEPT ![d] = q]
    BY <1>1, <1>5
  <2>2. Alike(q, NoJob) /\ q.st = "running" /\ q.at = "insert" /\ q.srv = n
    BY <1>1 DEF Alike, NoJob
  <2>3. Becomes(d, q)
    BY <1>1, <2>1, <2>2, Turns
  <2>4. JobsTo(d) /\ job'[d].at = "insert" /\ job'[d].srv = n
    BY <2>2, <2>3 DEF Becomes, JobsTo
  <2>5. Built(n)'
    BY <2>4 DEF Built
  <2>6. Alike(row[n], NoRow) /\ row = [m \in Server |-> row[m]]
    BY <1>3 DEF FleetInv, RowsOk
  <2>7. row' = [row EXCEPT ![n] = v]
    BY <1>3, <1>5, <2>6
  <2>8. OneRow(n) /\ row'[n] = v
    BY <1>3, <2>7, RowChanges
  <2>9. Alike(v, NoRow) /\ v.st = "ready" /\ v.known = row[n].known /\ v.gc = row[n].gc
    BY <2>6 DEF Alike, NoRow
  <2>10. RowTo(n)
    BY <1>3, <1>5, <2>5, <2>8, <2>9 DEF RowTo, Here
  <2>11. RowsTo /\ Alive
    BY <1>1, <1>3, <2>4, <2>8, <2>10, RowOne
  <2>12. OwnOk(d)'
    <3>1. Built(job[d].srv)'
      BY <2>4, <2>5
    <3> QED
      BY <2>4, <3>1, Settled DEF At
  <2> QED
    BY <1>1, <1>2, <2>4, <2>11, <2>12, Quiet DEF Keeps, StepTo
<1> QED
  BY <1>4, <1>5 DEF OwnReady

(* From there to the last step, and what is undone of it.                  *)
LEMMA AppIsInserted ==
  ASSUME FleetInv, NEW a \in App, InsertApp(a) PROVE Keeps(<<"deploy", a>>)
<1> DEFINE d == <<"deploy", a>>
           n == job[d].srv
<1>1. d \in Slot /\ InFlight(d) /\ Alike(job[d], NoJob) /\ JobsOk /\ job = [t \in Slot |-> job[t]]
      /\ job[d].st = "running" /\ job[d].at = "insert" /\ Built(n)
  BY WhileDeployed DEF InsertApp, At, InFlight
<1>2. UNCHANGED <<row, held, machine>>
  BY DEF InsertApp, world
<1>3. ASSUME NEW p, job' = [job EXCEPT ![d].at = "run", ![d].port = p]
      PROVE  JobsTo(d) /\ OwnOk(d)'
  <2> DEFINE q == [job[d] EXCEPT !.at = "run", !.port = p]
  <2>1. job' = [job EXCEPT ![d] = q]
    BY <1>1, <1>3
  <2>2. Alike(q, NoJob) /\ q.st = "running" /\ q.at = "run" /\ q.srv = n
    BY <1>1 DEF Alike, NoJob
  <2>3. Becomes(d, q)
    BY <1>1, <2>1, <2>2, Turns
  <2> QED
    BY <1>1, <2>2, <2>3, Settled DEF Becomes, JobsTo, At
<1>4. RepsTo
  <2>1. Container(a, 1, n, NextReplicaHostPort(n)).srv = n
    BY DEF Container
  <2>2. reps' = reps \/ reps' = reps \cup {Container(a, 1, n, NextReplicaHostPort(n))}
    BY DEF InsertApp
  <2> QED
    BY <1>1, <2>1, <2>2 DEF RepsTo
<1>5. CASE Dies
  <2>1. JobsTo(d) /\ Still(d) /\ CollectorTo
    BY <1>1, <1>5, Died
  <2> QED
    BY <1>1, <1>2, <1>4, <2>1, Quiet DEF Keeps, StepTo
<1>6. CASE gc' = gc /\ ((\E p : job' = [job EXCEPT ![d].at = "run", ![d].port = p]) \/ Throw(d))
  <2>1. JobsTo(d) /\ OwnOk(d)'
    BY <1>1, <1>3, <1>6, DeployThrows
  <2> QED
    BY <1>1, <1>2, <1>4, <1>6, <2>1, Quiet DEF Keeps, StepTo
<1> QED
  BY <1>5, <1>6 DEF InsertApp

LEMMA DeploymentGoesOn ==
  ASSUME FleetInv, NEW a \in App,
         RunContainer(a) \/ RunFails(a) \/ HealthCheck(a) \/ FinalizeDeploy(a)
  PROVE  Keeps(<<"deploy", a>>)
<1> DEFINE d == <<"deploy", a>>
<1>1. d \in Slot /\ InFlight(d) /\ Alike(job[d], NoJob) /\ JobsOk /\ job[d].at \notin {"none", "pick"}
      /\ Built(job[d].srv) /\ job[d].pc = "start"
  BY WhileDeployed DEF RunContainer, RunFails, HealthCheck, FinalizeDeploy, At, InFlight
<1>2. UNCHANGED <<row, reps, held, machine>>
  BY DEF RunContainer, RunFails, HealthCheck, FinalizeDeploy, tables, world
<1>3. CASE Dies
  <2>1. JobsTo(d) /\ Still(d) /\ CollectorTo
    BY <1>1, <1>3, Died
  <2> QED
    BY <1>1, <1>2, <2>1, Quiet DEF Keeps, StepTo
<1>4. CASE gc' = gc /\ (Step(d, "health") \/ Step(d, "scale") \/ End(d, "done") \/ Throw(d))
  <2>1. ASSUME Step(d, "health") \/ Step(d, "scale") \/ End(d, "done") PROVE JobsTo(d) /\ OwnOk(d)'
    <3>1. \/ Becomes(d, [job[d] EXCEPT !.at = "health", !.pc = "start"])
          \/ Becomes(d, [job[d] EXCEPT !.at = "scale", !.pc = "start"])
          \/ Becomes(d, [job[d] EXCEPT !.st = "done", !.lock = {}])
      BY <1>1, <2>1, Turnings
    <3>2. JobsTo(d) /\ job'[d].at \notin {"none", "pick"} /\ job'[d].srv = job[d].srv /\ job'[d].pc = "start"
      BY <1>1, <3>1 DEF Becomes, JobsTo, Alike, NoJob
    <3> QED
      BY <1>1, <3>2, Settled DEF At
  <2>2. JobsTo(d) /\ OwnOk(d)'
    BY <1>1, <1>4, <2>1, DeployThrows
  <2> QED
    BY <1>1, <1>2, <1>4, <2>2, Quiet DEF Keeps, StepTo
<1> QED
  BY <1>3, <1>4 DEF RunContainer, RunFails, HealthCheck, FinalizeDeploy, Records

LEMMA DeploymentIsUndone ==
  ASSUME FleetInv, NEW a \in App, job[<<"deploy", a>>].st = "undoing", UndoRun(a) \/ UndoInsert(a) \/ UndoPick(a)
  PROVE  Keeps(<<"deploy", a>>)
<1> DEFINE d == <<"deploy", a>>
<1>1. d \in Slot /\ InFlight(d) /\ Alike(job[d], NoJob) /\ JobsOk /\ job[d].at \notin {"none", "pick"}
      /\ Built(job[d].srv)
  BY WhileDeployed DEF InFlight
<1>2. UNCHANGED <<held, machine, gc>> /\ Undone(d) /\ reps' \subseteq reps
  BY DEF UndoRun, UndoInsert, UndoPick, tables, world
<1>3. \/ Becomes(d, [job[d] EXCEPT !.st = "compensated", !.lock = {}])
      \/ Becomes(d, [job[d] EXCEPT !.left = Tail(job[d].left)])
  BY <1>1, <1>2, Undoing
<1>4. JobsTo(d) /\ job'[d].at = job[d].at /\ job'[d].srv = job[d].srv /\ job'[d].st # "running"
  BY <1>1, <1>3 DEF Becomes, JobsTo, Alike, NoJob
<1>5. OwnOk(d)'
  BY <1>1, <1>4, Settled DEF At
<1>6. RowsTo /\ Alive
  BY <1>1, <1>4, Quiet, GcRow DEF UndoRun, UndoInsert, UndoPick, tables
<1> QED
  BY <1>1, <1>2, <1>4, <1>5, <1>6, Quiet DEF Keeps, StepTo

LEMMA PortIsReserved ==
  ASSUME FleetInv, NEW a \in App, ReserveHostPort(a) PROVE Keeps(<<"deploy", a>>)
<1> DEFINE d == <<"deploy", a>>
<1>1. d \in Slot /\ InFlight(d) /\ Alike(job[d], NoJob) /\ JobsOk /\ job = [t \in Slot |-> job[t]]
      /\ job[d].st = "running" /\ job[d].at = "scale" /\ Built(job[d].srv)
  BY WhileDeployed DEF ReserveHostPort, At, InFlight
<1>2. UNCHANGED <<row, reps, machine, gc>>
  BY DEF ReserveHostPort, world
<1>3. CASE Throw(d) /\ held' = held
  <2>1. JobsTo(d) /\ OwnOk(d)'
    BY <1>1, <1>3, DeployThrows
  <2> QED
    BY <1>1, <1>2, <1>3, <2>1, Quiet DEF Keeps, StepTo
<1>4. ASSUME NEW n \in Server, Usable(n), NEW p, PortFree(n, p), held' = held \cup {Claim(d, n, p)}, NEW f,
             job' = [job EXCEPT ![d].pc = "place", ![d].to = n, ![d].port = p, ![d].new = f]
      PROVE  Keeps(d)
  <2> DEFINE q == [job[d] EXCEPT !.pc = "place", !.to = n, !.port = p, !.new = f]
  <2>1. job' = [job EXCEPT ![d] = q]
    BY <1>1, <1>4
  <2>2. Alike(q, NoJob) /\ q.st = "running" /\ q.at = "scale" /\ q.srv = job[d].srv /\ q.to = n /\ q.port = p
    BY <1>1 DEF Alike, NoJob
  <2>3. Becomes(d, q)
    BY <1>1, <2>1, <2>2, Turns
  <2>4. JobsTo(d) /\ job'[d] = q
    BY <2>3 DEF Becomes, JobsTo
  <2>5. RowsTo /\ Alive
    BY <1>1, <1>2, <2>4, Quiet
  <2>6. HeldTo
    BY <1>1, <1>4, <2>4, <2>5, Taken
  <2>7. Built(job[d].srv)' /\ Built(n)'
    BY <1>1, <1>4, <2>2, <2>4, JobsKept DEF FleetInv, RowsOk
  <2>8. Claims(d)'
    <3>1. job'[d].to = n /\ job'[d].port = p
      BY <2>2, <2>4
    <3>2. Claim(d, job'[d].to, job'[d].port) \in held'
      BY <1>4, <3>1
    <3> QED
      BY <3>2 DEF Claims, Claim
  <2>9. DeployOk(a)'
    BY <2>2, <2>4, <2>7, <2>8 DEF DeployOk, At
  <2> QED
    BY <1>1, <1>2, <2>4, <2>5, <2>6, <2>9, Quiet, OwnOne DEF Keeps, StepTo
<1> QED
  BY <1>3, <1>4 DEF ReserveHostPort, Candidates

(* What fails in the setup of a replica gives the claim up.                *)
LEMMA SetupIsUndone ==
  ASSUME FleetInv, NEW s \in Slot, JobsTo(s), ~Claiming(s)', Built(job[s].to), Release(s),
         row' = GcIfEmpty(row, reps, job[s].to)
  PROVE  RowsTo /\ HeldTo
<1>1. RowsTo /\ Alive
  BY GcRow
<1> QED
  BY <1>1, Released

LEMMA ReplicaIsStarted ==
  ASSUME FleetInv, NEW a \in App, ScaleStarts(a) \/ ScaleInserts(a) PROVE Keeps(<<"deploy", a>>)
<1> DEFINE d == <<"deploy", a>>
<1>1. d \in Slot /\ InFlight(d) /\ Alike(job[d], NoJob) /\ JobsOk
      /\ job[d].st = "running" /\ job[d].at = "scale" /\ Built(job[d].srv) /\ Built(job[d].to)
  BY WhileDeployed DEF ScaleStarts, ScaleInserts, StartReplica, InsertReplica, At, InFlight
<1>2. UNCHANGED <<machine, gc>>
  BY DEF ScaleStarts, ScaleInserts, StartReplica, InsertReplica, SetupFails, world
<1>3. ASSUME NEW left, SetupFails(d, left, Throw(d)) PROVE Keeps(d)
  <2>1. Throw(d) /\ Release(d) /\ reps' = reps /\ row' = GcIfEmpty(row, reps, job[d].to)
    BY <1>3 DEF SetupFails
  <2>2. JobsTo(d) /\ OwnOk(d)' /\ job'[d].st # "running"
    BY <1>1, <2>1, DeployThrows
  <2>3. ~Claiming(d)'
    BY <2>2 DEF Claiming, At
  <2>4. RowsTo /\ HeldTo
    BY <1>1, <2>1, <2>2, <2>3, SetupIsUndone
  <2> QED
    BY <1>1, <1>2, <2>1, <2>2, <2>4, Quiet DEF Keeps, StepTo
<1>4. ASSUME NEW pc, pc # "place", Goto(d, pc) PROVE JobsTo(d) /\ OwnOk(d)' /\ ~Claiming(d)'
  <2>1. Becomes(d, [job[d] EXCEPT !.pc = pc])
    BY <1>1, <1>4, Turnings
  <2>2. JobsTo(d) /\ job'[d].st = "running" /\ job'[d].at = "scale" /\ job'[d].pc = pc
        /\ job'[d].srv = job[d].srv /\ job'[d].to = job[d].to
    BY <1>1, <2>1 DEF Becomes, JobsTo, Alike, NoJob
  <2>3. Built(job[d].srv)' /\ Built(job[d].to)'
    BY <1>1, <2>2, JobsKept
  <2>4. ~At(d, "scale", "place")' /\ ~At(d, "pick", "create")'
    BY <1>4, <2>2 DEF At
  <2>5. DeployOk(a)'
    BY <2>2, <2>3, <2>4 DEF DeployOk
  <2> QED
    BY <2>2, <2>4, <2>5, OwnOne DEF Claiming
<1>5. CASE Goto(d, "probe") /\ UNCHANGED <<row, reps, held>>
  BY <1>1, <1>2, <1>4, <1>5, Quiet DEF Keeps, StepTo
<1>6. CASE Goto(d, "start") /\ Release(d) /\ row' = row /\ reps' = reps \cup {NewContainer(d)}
  <2>1. JobsTo(d) /\ OwnOk(d)' /\ ~Claiming(d)'
    BY <1>4, <1>6
  <2>2. RowsTo /\ Alive
    BY <1>1, <1>6, <2>1, Quiet
  <2>3. HeldTo
    BY <1>1, <1>6, <2>1, <2>2, Released
  <2>4. RepsTo
    BY <1>1, <1>6 DEF RepsTo, NewContainer, Container
  <2> QED
    BY <1>1, <1>2, <2>1, <2>2, <2>3, <2>4, Quiet DEF Keeps, StepTo
<1> QED
  BY <1>3, <1>5, <1>6 DEF ScaleStarts, ScaleInserts, StartReplica, InsertReplica, tables

LEMMA DeploysKeep ==
  ASSUME FleetInv, NEW a \in App, Deploys(a) PROVE Keeps(<<"deploy", a>>)
BY DeployBegins, ServerIsPicked, OwnRowIsInserted, OwnMachineIsOrdered, OwnIsReady, AppIsInserted,
   DeploymentGoesOn, DeploymentIsUndone, PortIsReserved, ReplicaIsStarted DEF Deploys
-----------------------------------------------------------------------------
(* Migrations.                                                             *)
LEMMA WhileMigrated ==
  ASSUME FleetInv, NEW a \in App, job[<<"migrate", a>>].st = "running"
  PROVE  /\ <<"migrate", a>> \in Slot /\ Alike(job[<<"migrate", a>>], NoJob) /\ JobsOk
         /\ job = [t \in Slot |-> job[t]] /\ InFlight(<<"migrate", a>>)
         /\ Built(job[<<"migrate", a>>].srv) /\ job[<<"migrate", a>>].to \in Server
         /\ job[<<"migrate", a>>].at \in {"perform", "verify"} => Built(job[<<"migrate", a>>].to)
         /\ job[<<"migrate", a>>].at = "perform" /\ job[<<"migrate", a>>].pc \in Claimed => Claims(<<"migrate", a>>)
BY Slots DEF FleetInv, MigrateOk, JobsOk, InFlight

(* A migration keeps its servers.                                          *)
LEMMA SameServers ==
  ASSUME FleetInv, NEW a \in App, JobsTo(<<"migrate", a>>),
         job'[<<"migrate", a>>].srv = job[<<"migrate", a>>].srv,
         job'[<<"migrate", a>>].to = job[<<"migrate", a>>].to,
         Built(job[<<"migrate", a>>].srv), job[<<"migrate", a>>].to \in Server,
         job'[<<"migrate", a>>].at \in {"perform", "verify"} => Built(job[<<"migrate", a>>].to),
         Claiming(<<"migrate", a>>)' => Claims(<<"migrate", a>>)'
  PROVE  OwnOk(<<"migrate", a>>)'
<1>1. \A n : Built(n) => Built(n)'
  BY Slots, JobsKept DEF FleetInv
<1>2. MigrateOk(a)'
  BY <1>1 DEF MigrateOk, Claiming
<1> QED
  BY <1>2, OwnOne

(* It claims nothing when it leaves its step, or is about to.              *)
LEMMA Unclaimed ==
  ASSUME FleetInv, NEW a \in App, job[<<"migrate", a>>].st = "running",
         \/ Goto(<<"migrate", a>>, "probe") \/ Goto(<<"migrate", a>>, "drop") \/ Goto(<<"migrate", a>>, "sync")
         \/ job[<<"migrate", a>>].at = "perform" /\ Step(<<"migrate", a>>, "verify")
         \/ End(<<"migrate", a>>, "failed") \/ End(<<"migrate", a>>, "done")
         \/ MigrationThrows(<<"migrate", a>>)
  PROVE  JobsTo(<<"migrate", a>>) /\ OwnOk(<<"migrate", a>>)' /\ ~Claiming(<<"migrate", a>>)'
<1> DEFINE m == <<"migrate", a>>
<1>1. m \in Slot /\ Alike(job[m], NoJob) /\ JobsOk /\ InFlight(m) /\ Built(job[m].srv) /\ job[m].to \in Server
      /\ (job[m].at \in {"perform", "verify"} => Built(job[m].to))
  BY WhileMigrated
<1>2. \/ Goto(m, "probe") \/ Goto(m, "drop") \/ Goto(m, "sync") \/ Goto(m, "back")
      \/ job[m].at = "perform" /\ Step(m, "verify")
      \/ End(m, "failed") \/ End(m, "done")
  BY DEF MigrationThrows
<1>3. \/ \E pc \in {"probe", "drop", "sync", "back"} : Becomes(m, [job[m] EXCEPT !.pc = pc])
      \/ job[m].at = "perform" /\ Becomes(m, [job[m] EXCEPT !.at = "verify", !.pc = "start"])
      \/ Becomes(m, [job[m] EXCEPT !.st = "failed", !.lock = {}])
      \/ Becomes(m, [job[m] EXCEPT !.st = "done", !.lock = {}])
  BY <1>1, <1>2, Turnings
<1>4. /\ JobsTo(m) /\ job'[m].srv = job[m].srv /\ job'[m].to = job[m].to
      /\ job'[m].at = job[m].at \/ (job[m].at = "perform" /\ job'[m].at = "verify")
      /\ job'[m].st # "running" \/ job'[m].pc \in {"probe", "drop", "sync", "back", "start"}
  BY <1>1, <1>3 DEF Becomes, JobsTo, Alike, NoJob
<1>5. ~Claiming(m)'
  BY <1>4 DEF Claiming, Claimed
<1>6. OwnOk(m)'
  BY <1>1, <1>4, <1>5, SameServers
<1> QED
  BY <1>4, <1>5, <1>6

(* It goes on, and keeps the claim it has.                                 *)
LEMMA StillClaims ==
  ASSUME FleetInv, NEW a \in App, job[<<"migrate", a>>].st = "running", job[<<"migrate", a>>].at = "perform",
         job[<<"migrate", a>>].pc \in Claimed, NEW pc, Goto(<<"migrate", a>>, pc), UNCHANGED <<row, held>>
  PROVE  JobsTo(<<"migrate", a>>) /\ OwnOk(<<"migrate", a>>)'
<1> DEFINE m == <<"migrate", a>>
<1>1. m \in Slot /\ Alike(job[m], NoJob) /\ JobsOk /\ InFlight(m) /\ Built(job[m].srv) /\ job[m].to \in Server
      /\ Built(job[m].to) /\ Claims(m)
  BY WhileMigrated
<1>2. Becomes(m, [job[m] EXCEPT !.pc = pc])
  BY <1>1, Turnings
<1>3. JobsTo(m) /\ job'[m].srv = job[m].srv /\ job'[m].to = job[m].to /\ job'[m].port = job[m].port
  BY <1>1, <1>2 DEF Becomes, JobsTo, Alike, NoJob
<1>4. Claims(m)'
  BY <1>1, <1>3 DEF Claims, Claim, Here
<1> QED
  BY <1>1, <1>3, <1>4, SameServers

LEMMA MigrationBegins ==
  ASSUME FleetInv, NEW a \in App, NEW r \in reps, NEW n \in Server, Migrate(a, r, n) PROVE Keeps(<<"migrate", a>>)
<1> DEFINE m == <<"migrate", a>>
           q == [NoJob EXCEPT !.st = "running", !.at = "validate", !.lock = {a},
                              !.srv = r.srv, !.n = r.n, !.port = r.port, !.to = n]
<1>1. m \in Slot
  BY Slots
<1>2. job[m].st = "idle" /\ job' = [job EXCEPT ![m] = q] /\ UNCHANGED <<row, reps, held, machine, gc>>
  BY DEF Migrate, tables, world
<1>3. Alike(q, NoJob) /\ q.st = "running" /\ q.at = "validate" /\ q.srv = r.srv /\ q.to = n
  BY DEF Alike, NoJob
<1>4. Becomes(m, q)
  BY <1>1, <1>2, <1>3, Requested DEF FleetInv
<1>5. JobsTo(m) /\ job'[m].at = "validate" /\ job'[m].srv = r.srv /\ job'[m].to = n
  BY <1>3, <1>4 DEF Becomes, JobsTo
<1>6. Built(r.srv)'
  BY <1>1, <1>5, JobsKept DEF FleetInv, PlacesOk
<1>7. MigrateOk(a)'
  BY <1>5, <1>6 DEF MigrateOk
<1> QED
  BY <1>1, <1>2, <1>5, <1>7, Quiet, OwnOne DEF Keeps, StepTo

LEMMA MigrationIsValidated ==
  ASSUME FleetInv, NEW a \in App, LoadAndValidate(a) PROVE Keeps(<<"migrate", a>>)
<1> DEFINE m == <<"migrate", a>>
<1>1. m \in Slot /\ Alike(job[m], NoJob) /\ JobsOk /\ InFlight(m) /\ Built(job[m].srv) /\ job[m].to \in Server /\ job[m].st = "running"
  BY WhileMigrated DEF LoadAndValidate, At
<1>2. UNCHANGED <<row, reps, held, machine, gc>>
  BY DEF LoadAndValidate, tables, world
<1>3. CASE End(m, "failed")
  BY <1>1, <1>2, <1>3, Unclaimed, Quiet DEF Keeps, StepTo
<1>4. CASE Usable(job[m].to) /\ Step(m, "perform")
  <2>1. Becomes(m, [job[m] EXCEPT !.at = "perform", !.pc = "start"])
    BY <1>1, <1>4, Turnings
  <2>2. JobsTo(m) /\ job'[m].srv = job[m].srv /\ job'[m].to = job[m].to /\ job'[m].pc = "start"
    BY <1>1, <2>1 DEF Becomes, JobsTo, Alike, NoJob
  <2>3. Built(job[m].to)
    BY <1>1, <1>4 DEF FleetInv, RowsOk
  <2>4. ~Claiming(m)'
    BY <2>2 DEF Claiming, Claimed
  <2> QED
    BY <1>1, <1>2, <2>2, <2>3, <2>4, SameServers, Quiet DEF Keeps, StepTo
<1> QED
  BY <1>3, <1>4 DEF LoadAndValidate

LEMMA TargetIsClaimed ==
  ASSUME FleetInv, NEW a \in App, MigrateReplica(a) PROVE Keeps(<<"migrate", a>>)
<1> DEFINE m == <<"migrate", a>>
<1>1. m \in Slot /\ Alike(job[m], NoJob) /\ JobsOk /\ InFlight(m) /\ Built(job[m].srv) /\ job[m].to \in Server /\ Built(job[m].to)
      /\ job[m].st = "running" /\ job[m].at = "perform" /\ job = [t \in Slot |-> job[t]]
  BY WhileMigrated DEF MigrateReplica, At
<1>2. UNCHANGED <<row, reps, machine, gc>>
  BY DEF MigrateReplica, world
<1>3. CASE (End(m, "failed") \/ Step(m, "verify")) /\ held' = held
  BY <1>1, <1>2, <1>3, Unclaimed, Quiet DEF Keeps, StepTo
<1>4. ASSUME Usable(job[m].to), PortFree(job[m].to, job[m].port), held' = held \cup {Claim(m, job[m].to, job[m].port)},
             NEW f, job' = [job EXCEPT ![m].pc = "preflight", ![m].new = f]
      PROVE  Keeps(m)
  <2> DEFINE q == [job[m] EXCEPT !.pc = "preflight", !.new = f]
  <2>1. job' = [job EXCEPT ![m] = q]
    BY <1>1, <1>4
  <2>2. Alike(q, NoJob) /\ q.st = job[m].st /\ q.at = job[m].at /\ q.srv = job[m].srv /\ q.to = job[m].to
        /\ q.port = job[m].port
    BY <1>1 DEF Alike, NoJob
  <2>3. Becomes(m, q)
    BY <1>1, <2>1, <2>2, Turns
  <2>4. JobsTo(m) /\ job'[m].srv = job[m].srv /\ job'[m].to = job[m].to /\ job'[m].port = job[m].port
    BY <2>2, <2>3 DEF Becomes, JobsTo
  <2>5. RowsTo /\ Alive
    BY <1>1, <1>2, <2>4, Quiet
  <2>6. job[m].to \in Server
    BY <1>1, BuiltIsServer
  <2>7. HeldTo
    BY <1>1, <1>4, <2>4, <2>5, <2>6, Taken
  <2>8. Claims(m)'
    <3>1. Claim(m, job'[m].to, job'[m].port) \in held'
      BY <1>4, <2>4
    <3> QED
      BY <3>1 DEF Claims, Claim
  <2>9. OwnOk(m)'
    BY <1>1, <2>4, <2>8, SameServers
  <2> QED
    BY <1>1, <1>2, <2>4, <2>5, <2>7, <2>9, Quiet DEF Keeps, StepTo
<1>5. CASE Usable(job[m].to) /\ AlreadyMigrated(m)
  <2>1. Source(m) \notin reps
    BY <1>5 DEF AlreadyMigrated
  <2>2. Step(m, "verify") /\ held' = held
    BY <1>5, <2>1 DEF MigrateReplica
  <2> QED
    BY <1>3, <2>2
<1>6. CASE ~(Usable(job[m].to) /\ AlreadyMigrated(m))
  <2>1. CASE Usable(job[m].to) /\ Source(m) \in reps /\ PortFree(job[m].to, job[m].port)
    <3>1. held' = held \cup {Claim(m, job[m].to, job[m].port)}
          /\ job' = [job EXCEPT ![m].pc = "preflight", ![m].new = FreshName(a, Cardinality(RepsOf(a)))]
      BY <1>6, <2>1 DEF MigrateReplica
    <3> QED
      BY <1>4, <2>1, <3>1
  <2>2. CASE ~(Usable(job[m].to) /\ Source(m) \in reps /\ PortFree(job[m].to, job[m].port))
    <3>1. End(m, "failed") /\ held' = held
      BY <1>6, <2>2 DEF MigrateReplica
    <3> QED
      BY <1>3, <3>1
  <2> QED
    BY <2>1, <2>2
<1> QED
  BY <1>5, <1>6

(* Its preparations: it keeps its claim, or gives it up and throws.        *)
LEMMA TargetIsPrepared ==
  ASSUME FleetInv, NEW a \in App, PortPreflight(a) \/ StopSource(a) \/ DetachVolume(a) \/ AttachVolume(a)
  PROVE  Keeps(<<"migrate", a>>)
<1> DEFINE m == <<"migrate", a>>
<1>1. job[m].st = "running" /\ job[m].at = "perform" /\ job[m].pc \in Claimed
  BY DEF PortPreflight, StopSource, DetachVolume, AttachVolume, At, Claimed
<1>2. m \in Slot
  BY Slots
<1>3. UNCHANGED <<row, reps, machine, gc>>
  BY DEF PortPreflight, StopSource, DetachVolume, AttachVolume, tables, world
<1>4. ASSUME NEW pc, Goto(m, pc), held' = held PROVE Keeps(m)
  <2>1. JobsTo(m) /\ OwnOk(m)'
    BY <1>1, <1>3, <1>4, StillClaims
  <2> QED
    BY <1>2, <1>3, <1>4, <2>1, Quiet DEF Keeps, StepTo
<1>5. CASE (End(m, "failed") \/ MigrationThrows(m)) /\ Release(m)
  <2>1. JobsTo(m) /\ OwnOk(m)' /\ ~Claiming(m)'
    BY <1>1, <1>5, Unclaimed
  <2>2. RowsTo /\ Alive
    BY <1>2, <1>3, <2>1, Quiet
  <2>3. HeldTo
    BY <1>2, <1>5, <2>1, <2>2, Released
  <2> QED
    BY <1>2, <1>3, <2>1, <2>2, <2>3, Quiet DEF Keeps, StepTo
<1>6. (\E pc : Goto(m, pc) /\ held' = held) \/ ((End(m, "failed") \/ MigrationThrows(m)) /\ Release(m))
  <2>1. CASE PortPreflight(a)
    BY <2>1 DEF PortPreflight
  <2>2. CASE StopSource(a)
    BY <2>2 DEF StopSource, tables
  <2>3. CASE DetachVolume(a)
    BY <2>3 DEF DetachVolume
  <2>4. CASE AttachVolume(a)
    BY <2>4 DEF AttachVolume
  <2> QED
    BY <2>1, <2>2, <2>3, <2>4
<1> QED
  BY <1>4, <1>5, <1>6

LEMMA ReplicaIsMoved ==
  ASSUME FleetInv, NEW a \in App, StartOnTarget(a) \/ InsertOnTarget(a) PROVE Keeps(<<"migrate", a>>)
<1> DEFINE m == <<"migrate", a>>
<1>1. m \in Slot /\ JobsOk /\ Built(job[m].to) /\ job[m].st = "running" /\ job[m].at = "perform"
  BY WhileMigrated DEF StartOnTarget, InsertOnTarget, StartReplica, InsertReplica, At
<1>2. UNCHANGED <<machine, gc>>
  BY DEF StartOnTarget, InsertOnTarget, StartReplica, InsertReplica, SetupFails, world
<1>3. ASSUME NEW left, SetupFails(m, left, MigrationThrows(m)) PROVE Keeps(m)
  <2>1. MigrationThrows(m) /\ Release(m) /\ reps' = reps /\ row' = GcIfEmpty(row, reps, job[m].to)
    BY <1>3 DEF SetupFails
  <2>2. JobsTo(m) /\ OwnOk(m)' /\ ~Claiming(m)'
    BY <1>1, <2>1, Unclaimed
  <2>3. RowsTo /\ HeldTo
    BY <1>1, <2>1, <2>2, SetupIsUndone
  <2> QED
    BY <1>1, <1>2, <2>1, <2>2, <2>3, Quiet DEF Keeps, StepTo
<1>4. CASE Goto(m, "probe") /\ UNCHANGED <<row, reps, held>>
  <2>1. JobsTo(m) /\ OwnOk(m)'
    BY <1>1, <1>4, Unclaimed
  <2> QED
    BY <1>1, <1>2, <1>4, <2>1, Quiet DEF Keeps, StepTo
<1>5. CASE Goto(m, "drop") /\ UNCHANGED <<row, held>> /\ reps' = reps \cup {NewContainer(m)}
  <2>1. JobsTo(m) /\ OwnOk(m)'
    BY <1>1, <1>5, Unclaimed
  <2>2. RepsTo
    BY <1>1, <1>5 DEF RepsTo, NewContainer, Container
  <2> QED
    BY <1>1, <1>2, <1>5, <2>1, <2>2, Quiet DEF Keeps, StepTo
<1> QED
  BY <1>3, <1>4, <1>5 DEF StartOnTarget, InsertOnTarget, StartReplica, InsertReplica, tables

LEMMA MigrationEnds ==
  ASSUME FleetInv, NEW a \in App, DropSource(a) \/ SyncMoved(a) \/ RollBack(a) \/ VerifyMoved(a)
  PROVE  Keeps(<<"migrate", a>>)
<1> DEFINE m == <<"migrate", a>>
<1>1. m \in Slot /\ JobsOk /\ Built(job[m].srv) /\ job[m].to \in Server /\ job[m].st = "running"
  BY WhileMigrated DEF DropSource, SyncMoved, RollBack, VerifyMoved, At
<1>2. UNCHANGED <<machine, gc>> /\ reps' \subseteq reps
  BY DEF DropSource, SyncMoved, RollBack, VerifyMoved, tables, world
<1>3. /\ row' = row \/ row' = GcIfEmpty(row, reps, job[m].srv)
      /\ held' = held \/ Release(m)
      /\ \/ Goto(m, "sync") \/ MigrationThrows(m) \/ End(m, "failed") \/ End(m, "done")
         \/ job[m].at = "perform" /\ Step(m, "verify")
  BY DEF DropSource, SyncMoved, RollBack, VerifyMoved, tables, At
<1>4. JobsTo(m) /\ OwnOk(m)' /\ ~Claiming(m)'
  BY <1>1, <1>3, Unclaimed
<1>5. RowsTo /\ Alive
  BY <1>1, <1>3, <1>4, Quiet, GcRow
<1>6. HeldTo
  BY <1>1, <1>3, <1>4, <1>5, Quiet, Released
<1> QED
  BY <1>1, <1>2, <1>4, <1>5, <1>6, Quiet DEF Keeps, StepTo

LEMMA RollBackEnds ==
  ASSUME FleetInv, NEW a \in App, RollBackFails(a) PROVE Keeps(<<"migrate", a>>)
<1> DEFINE m == <<"migrate", a>>
           q == [job[m] EXCEPT !.st = "failed", !.lock = {}, !.sure = FALSE]
<1>1. m \in Slot /\ Alike(job[m], NoJob) /\ JobsOk /\ InFlight(m) /\ Built(job[m].srv) /\ job[m].to \in Server /\ Built(job[m].to)
      /\ job = [t \in Slot |-> job[t]] /\ job[m].at = "perform"
  BY WhileMigrated DEF RollBackFails, At
<1>2. UNCHANGED <<row, reps, held, machine, gc>>
  BY DEF RollBackFails, tables
<1>3. job' = [job EXCEPT ![m] = q]
  BY <1>1 DEF RollBackFails
<1>4. Alike(q, NoJob) /\ q.st = "failed" /\ q.at = job[m].at /\ q.srv = job[m].srv /\ q.to = job[m].to
  BY <1>1 DEF Alike, NoJob
<1>5. Becomes(m, q)
  BY <1>1, <1>3, <1>4, Turns
<1>6. JobsTo(m) /\ job'[m].srv = job[m].srv /\ job'[m].to = job[m].to /\ job'[m].st = "failed"
  BY <1>4, <1>5 DEF Becomes, JobsTo
<1>7. ~Claiming(m)'
  BY <1>6 DEF Claiming
<1>8. OwnOk(m)'
  BY <1>1, <1>6, <1>7, SameServers
<1> QED
  BY <1>1, <1>2, <1>6, <1>8, Quiet DEF Keeps, StepTo

LEMMA MovesKeep ==
  ASSUME FleetInv, NEW a \in App, Moves(a) PROVE Keeps(<<"migrate", a>>)
BY MigrationBegins, MigrationIsValidated, TargetIsClaimed, TargetIsPrepared, ReplicaIsMoved,
   MigrationEnds, RollBackEnds DEF Moves
-----------------------------------------------------------------------------
(* The invariant, and what it is for.                                      *)
LEMMA FleetBegins == ASSUME FleetInit PROVE FleetInv
<1>1. /\ Old \subseteq Server /\ \A a \in App : Own[a] \notin Old
      /\ DOMAIN Home \subseteq App /\ \A a \in DOMAIN Home : Home[a] \in Old
  BY FleetAssumption
<1>2. \A s \in Slot : job[s] = NoJob
  BY DEF FleetInit
<1>3. JobsOk
  BY <1>2 DEF FleetInit, JobsOk, Alike
<1>4. \A n \in Server : Built(n) <=> n \in Old
  <2>1. ASSUME NEW n \in Server PROVE job[<<"provision", n>>].st # "done"
    <3>1. job[<<"provision", n>>] = NoJob
      BY <1>2, Slots
    <3> QED
      BY <3>1 DEF NoJob
  <2>2. ASSUME NEW a \in App PROVE job[<<"deploy", a>>].at = "none"
    <3>1. job[<<"deploy", a>>] = NoJob
      BY <1>2, Slots
    <3> QED
      BY <3>1 DEF NoJob
  <2> QED
    BY <2>1, <2>2 DEF Built
<1>5. RowsOk
  <2>1. row = [n \in Server |-> row[n]]
    BY DEF FleetInit
  <2>2. ASSUME NEW n \in Server, n \in Old
        PROVE  Alike(row[n], NoRow) /\ Here(n) /\ ~row[n].gc
    BY <2>2 DEF FleetInit, Alike, NoRow, Here
  <2>3. ASSUME NEW n \in Server, n \notin Old
        PROVE  Alike(row[n], NoRow) /\ ~row[n].known /\ ~Usable(n) /\ ~row[n].gc
    BY <2>3 DEF FleetInit, Alike, NoRow, Usable
  <2> QED
    BY <1>4, <2>1, <2>2, <2>3 DEF RowsOk
<1>6. CollectorOk
  BY DEF FleetInit, CollectorOk
<1>7. PlacesOk
  BY <1>1, <1>4 DEF FleetInit, PlacesOk, Container
<1>8. ASSUME NEW n \in Server PROVE ProvisionOk(n) /\ DestroyOk(n)
  BY <1>2, Slots DEF ProvisionOk, DestroyOk, NoJob
<1>9. ASSUME NEW a \in App PROVE DeployOk(a) /\ MigrateOk(a)
  BY <1>2, Slots DEF DeployOk, MigrateOk, NoJob, At
<1> QED
  BY <1>3, <1>5, <1>6, <1>7, <1>8, <1>9, InitMachine DEF FleetInv

LEMMA EveryStepKeeps == ASSUME FleetInv, Next PROVE \E s \in Slot : Keeps(s)
<1>1. CASE Crash
  <2>1. \E s \in Slot : InFlight(s)
    BY <1>1 DEF Crash
  <2> QED
    BY <1>1, <2>1, CrashKeeps
<1>2. ASSUME NEW n \in Server, Provisions(n) \/ Destroys(n) \/ Collects(n) PROVE \E s \in Slot : Keeps(s)
  BY <1>2, Slots, ProvisionsKeep, DestroysKeep, CollectsKeep
<1>3. ASSUME NEW a \in App, Deploys(a) \/ Moves(a) \/ DestroyRequested(a) PROVE \E s \in Slot : Keeps(s)
  BY <1>3, Slots, DeploysKeep, MovesKeep, RequestedDestructionKeeps
<1> QED
  BY <1>1, <1>2, <1>3 DEF Next

LEMMA NothingMoves == ASSUME FleetInv, UNCHANGED vars PROVE FleetInv'
<1>1. UNCHANGED <<row, machine, reps, held, job, gc>>
  BY DEF vars
<1>2. JobsOk'
  BY <1>1 DEF FleetInv, JobsOk
<1>3. \A n : Built(n) => Built(n)'
  BY <1>1 DEF Built
<1>4. RowsOk' /\ CollectorOk' /\ PlacesOk' /\ MachineInv'
  BY <1>1, <1>3 DEF FleetInv, RowsOk, CollectorOk, PlacesOk, MachineInv, Here, Usable
<1>5. \A n \in Server : ProvisionOk(n)' /\ DestroyOk(n)'
  BY <1>1 DEF FleetInv, ProvisionOk, DestroyOk
<1>6. \A s : (Claims(s) => Claims(s)') /\ (At(s, "scale", "place")' => At(s, "scale", "place"))
  BY <1>1 DEF Claims, Claim, Here, At
<1>7. ASSUME NEW a \in App PROVE DeployOk(a)'
  <2>1. DeployOk(a)
    BY DEF FleetInv
  <2> QED
    BY <1>1, <1>3, <1>6, <2>1 DEF DeployOk, At
<1>8. ASSUME NEW a \in App PROVE MigrateOk(a)'
  <2>1. MigrateOk(a)
    BY DEF FleetInv
  <2> QED
    BY <1>1, <1>3, <1>6, <2>1 DEF MigrateOk
<1> QED
  BY <1>2, <1>4, <1>5, <1>7, <1>8 DEF FleetInv

LEMMA FleetInvHolds == Spec => []FleetInv
<1>1. FleetInit => FleetInv
  BY FleetBegins
<1>2. FleetInv /\ [Next]_vars => FleetInv'
  BY EveryStepKeeps, StepKeeps, NothingMoves DEF Keeps
<1> QED
  BY <1>1, <1>2, PTL DEF Spec

(* Whatever dies, fails or loses its answer: at most one machine under each *)
(* name (create_cloud_server and the placeholder of provisionServer).      *)
THEOREM NoServerTwice == Spec => []ProvisionedOnce
<1>1. FleetInv => ProvisionedOnce
  BY DEF FleetInv, MachineInv, ProvisionedOnce
<1> QED
  BY <1>1, FleetInvHolds, PTL

(* No server is forgotten while its machine runs: wherever the engine dies *)
(* and whatever the provider fails to do, the row of a server it knows     *)
(* goes after its machine, but for a destruction that overtakes the        *)
(* provisioning (the compensations of provision_server and deploy,         *)
(* delete_cloud_server and reconcileServerGc).                             *)
THEOREM NoMachineIsForgotten == Spec => ForgetsNoMachine
<1>1. FleetInv /\ [Next]_vars =>
        [\A s \in Server :
           row[s].known /\ row'[s].st = "none" =>
             machine'[s] = 0 \/ (s \notin Old /\ At(<<"destroy", s>>, "rows", "start"))]_vars
  <2> SUFFICES ASSUME FleetInv, Next, NEW n \in Server, row[n].known, row'[n].st = "none"
               PROVE  machine'[n] = 0 \/ (n \notin Old /\ At(<<"destroy", n>>, "rows", "start"))
    OBVIOUS
  <2>1. RowTo(n)
    BY EveryStepKeeps DEF Keeps, StepTo, RowsTo
  <2> QED
    BY <2>1 DEF RowTo, Here
<1> QED
  BY <1>1, FleetInvHolds, PTL DEF Spec, ForgetsNoMachine

(* Where a container comes from that was not there.                        *)
GivenBack(x) == \E b \in App : At(<<"migrate", b>>, "perform", "back") /\ x = Source(<<"migrate", b>>)
Placed(x) == \E d \in Slot : Claiming(d) /\ x = NewContainer(d)

LEMMA WhereContainersComeFrom ==
  ASSUME Next, NEW x \in boxes' \ boxes PROVE x.n = 1 \/ Placed(x) \/ GivenBack(x)
<1>1. CASE Crash
  BY <1>1 DEF Crash, world
<1>2. ASSUME NEW n \in Server, Provisions(n) PROVE FALSE
  BY <1>2 DEF Provisions, ProvisionServer, InsertServerRow, CreateCloudServer, BootServer, BootFails, MarkReady,
              UndoCreate, UndoCreateFails, UndoRow, Demolish, world
<1>3. ASSUME NEW n \in Server, Destroys(n) PROVE FALSE
  BY <1>3 DEF Destroys, DestroyServer, ListApps, ChildrenOver, DeleteCloudServer, DeleteCloudServerFails,
              DeleteServerRows, ChildDestroys, ChildEnds, DestroyApp, Demolish, world
<1>4. ASSUME NEW n \in Server, Collects(n) PROVE FALSE
  BY <1>4 DEF Collects, GcChecks, GcDeletes, GcFails, GcForgets, Demolish, world
<1>5. ASSUME NEW a \in App, DestroyRequested(a) PROVE FALSE
  BY <1>5 DEF DestroyRequested, DestroyApp
<1>6. ASSUME NEW a \in App, Deploys(a) PROVE x.n = 1 \/ Placed(x)
  <2>1. CASE RunContainer(a) \/ RunFails(a)
    BY <2>1 DEF RunContainer, RunFails, Started, Container
  <2>2. CASE ScaleStarts(a) \/ ScaleInserts(a)
    <3> DEFINE d == <<"deploy", a>>
    <3>1. x = NewContainer(d) /\ At(d, "scale", "place")
      BY <2>2 DEF ScaleStarts, ScaleInserts, StartReplica, InsertReplica, SetupFails, Started, Removed, world
    <3> QED
      BY <3>1, Slots DEF Placed, Claiming
  <2>3. CASE \/ Deploy(a) \/ PickServer(a) \/ OwnRow(a) \/ OwnMachine(a) \/ OwnReady(a) \/ InsertApp(a)
             \/ HealthCheck(a) \/ ReserveHostPort(a) \/ FinalizeDeploy(a)
             \/ UndoRun(a) \/ UndoInsert(a) \/ UndoPick(a)
    BY <2>3 DEF Deploy, PickServer, OwnRow, OwnMachine, OwnReady, InsertApp, HealthCheck, ReserveHostPort,
                FinalizeDeploy, UndoRun, UndoInsert, UndoPick, world
  <2> QED
    BY <1>6, <2>1, <2>2, <2>3 DEF Deploys
<1>7. ASSUME NEW a \in App, Moves(a) PROVE Placed(x) \/ GivenBack(x)
  <2> DEFINE m == <<"migrate", a>>
  <2>1. CASE StartOnTarget(a) \/ InsertOnTarget(a)
    <3>1. x = NewContainer(m) /\ At(m, "perform", "place")
      BY <2>1 DEF StartOnTarget, InsertOnTarget, StartReplica, InsertReplica, SetupFails, Started, Removed, world
    <3> QED
      BY <3>1, Slots DEF Placed, Claiming, Claimed, At
  <2>2. CASE RollBack(a) \/ RollBackFails(a)
    BY <2>2 DEF RollBack, RollBackFails, Started, GivenBack
  <2>3. CASE (\E r \in reps, n \in Server : Migrate(a, r, n)) \/ LoadAndValidate(a) \/ MigrateReplica(a)
             \/ PortPreflight(a) \/ StopSource(a) \/ DetachVolume(a) \/ AttachVolume(a) \/ DropSource(a)
             \/ SyncMoved(a) \/ VerifyMoved(a)
    BY <2>3 DEF Migrate, LoadAndValidate, MigrateReplica, PortPreflight, StopSource, DetachVolume, AttachVolume,
                DropSource, SyncMoved, VerifyMoved, world
  <2> QED
    BY <1>7, <2>1, <2>2, <2>3 DEF Moves
<1> QED
  BY <1>1, <1>2, <1>3, <1>4, <1>5, <1>6, <1>7 DEF Next

(* An operation that places a container has the claim on its port, so it   *)
(* is the operation that has the claim.                                    *)
LEMMA OneClaimant ==
  ASSUME FleetInv, NEW d \in Slot, Claiming(d), NEW m, Claim(m, job[d].to, job[d].port) \in held
  PROVE  d = m
<1>1. Claims(d)
  <2>1. CASE d[1] = "deploy" /\ At(d, "scale", "place")
    <3>1. PICK a \in App : d = <<"deploy", a>>
      BY <2>1 DEF Slot
    <3> QED
      BY <2>1, <3>1 DEF FleetInv, DeployOk
  <2>2. CASE d[1] = "migrate" /\ job[d].st = "running" /\ job[d].at = "perform" /\ job[d].pc \in Claimed
    <3>1. PICK a \in App : d = <<"migrate", a>>
      BY <2>2 DEF Slot
    <3> QED
      BY <2>2, <3>1 DEF FleetInv, MigrateOk
  <2> QED
    BY <2>1, <2>2 DEF Claiming
<1> DEFINE c == Claim(m, job[d].to, job[d].port)
           k == Claim(d, job[d].to, job[d].port)
<1>2. c.srv = job[d].to /\ c.port = job[d].port /\ c.by = m /\ k.srv = c.srv /\ k.port = c.port /\ k.by = d
  BY DEF Claim
<1>3. Here(job[d].to)
  BY <1>2 DEF FleetInv, PlacesOk
<1>4. k \in held
  BY <1>1, <1>3 DEF Claims
<1>5. k = c
  BY <1>2, <1>4 DEF FleetInv, PlacesOk
<1> QED
  BY <1>2, <1>5

(* While a migration prepares its target, no other's container comes to    *)
(* listen on the port it claimed there (reservePort in scale/migrate.ts    *)
(* and scale-up.ts): whoever places one has a claim, and of claims on one  *)
(* port there is one.                                                      *)
THEOREM ClaimsKeepPortsFree == Spec => ClaimedPortIsFree
<1>1. FleetInv /\ [Next]_vars =>
        [\A m \in {"migrate"} \X App :
           job[m].at = "perform" /\ job[m].pc \in {"stop", "detach", "attach", "place"}
           /\ Claim(m, job[m].to, job[m].port) \in held =>
             \A x \in boxes' \ boxes :
               x.srv = job[m].to /\ x.port = job[m].port =>
                 \/ x.app = m[2] \/ x.n = 1
                 \/ \E b \in App : At(<<"migrate", b>>, "perform", "back") /\ x = Source(<<"migrate", b>>)]_vars
  <2> SUFFICES ASSUME FleetInv, Next, NEW m \in {"migrate"} \X App,
                      Claim(m, job[m].to, job[m].port) \in held,
                      NEW x \in boxes' \ boxes, x.srv = job[m].to, x.port = job[m].port
               PROVE  x.app = m[2] \/ x.n = 1 \/ GivenBack(x)
    BY DEF GivenBack
  <2>1. ASSUME NEW d \in Slot, Claiming(d), x = NewContainer(d) PROVE x.app = m[2]
    <3>1. x.app = d[2] /\ x.srv = job[d].to /\ x.port = job[d].port
      BY <2>1 DEF NewContainer, Container
    <3>2. Claim(m, job[d].to, job[d].port) \in held
      BY <3>1
    <3>3. d = m
      BY <2>1, <3>2, OneClaimant
    <3> QED
      BY <3>1, <3>3
  <2> QED
    BY <2>1, WhereContainersComeFrom DEF Placed
<1> QED
  BY <1>1, FleetInvHolds, PTL DEF Spec, ClaimedPortIsFree
-----------------------------------------------------------------------------
(***************************************************************************)
(* What a deployment that is compensated leaves.                           *)
(*                                                                         *)
(* An app that has no row has no replica, and its first container is where *)
(* its deployment has started it, and nowhere else (Kempt), as long as     *)
(* every host did answer, no migration took hold of the app, and the       *)
(* server is known (Excused): a step of another operation only takes away  *)
(* from the app what it has, and never one of the three without the other. *)
(***************************************************************************)
FirstOf(a) == {b \in BoxesOf(a) : b.n = 1}

Excused(a) ==
  LET d == <<"deploy", a>>
  IN  \/ budget.silent
      \/ job[<<"migrate", a>>].st # "idle"
      \/ job[d].at \notin {"none", "pick"} /\ ~Here(job[d].srv)

Deploying(a, steps) == job[<<"deploy", a>>].st = "running" /\ job[<<"deploy", a>>].at \in steps
ToUndo(a, left) == job[<<"deploy", a>>].st = "undoing" /\ job[<<"deploy", a>>].left = left

Kempt(a) ==
  LET d == <<"deploy", a>>
      s == job[d].srv
  IN  /\ job[d].st = "idle" /\ a \notin apps => FirstOf(a) = {}
      /\ Deploying(a, {"pick", "insert"}) => FirstOf(a) = {}
      /\ Deploying(a, {"pick"}) => a \notin apps
      /\ Deploying(a, {"run"}) => FirstOf(a) \subseteq {Container(a, 1, s, job[d].port)}
      /\ Deploying(a, {"health", "scale"}) => \A b \in FirstOf(a) : b.srv = s
      /\ Deploying(a, {"insert", "run", "health", "scale"}) /\ a \in apps =>
           \E r \in RepsOf(a) : r.n = 1 /\ r.srv = s
      /\ Deploying(a, {"scale"}) /\ job[d].pc \in {"place", "probe"} => job[d].new # 1
      /\ ToUndo(a, <<"run", "insert", "pick">>) => \A b \in FirstOf(a) : b.srv = s
      /\ ToUndo(a, <<"insert", "pick">>) => FirstOf(a) = {}
      /\ ToUndo(a, <<"pick">>) \/ job[d].st = "compensated" => FirstOf(a) = {} /\ a \notin apps

Shapes == {<<"pick">>, <<"insert", "pick">>, <<"run", "insert", "pick">>}
Undoable(a) == job[<<"deploy", a>>].st = "undoing" => job[<<"deploy", a>>].left \in Shapes
Listed(a) == (RepsOf(a) # {} => a \in apps) /\ IsFiniteSet(RepsOf(a))
BudgetOk == Alike(budget, [faults |-> 0, requests |-> 0, silent |-> FALSE])

DeployInv == BudgetOk /\ \A a \in App : Undoable(a) /\ Listed(a) /\ (Excused(a) \/ Kempt(a))

(* Whoever is silent stays so. *)
Spends == BudgetOk' /\ (budget.silent => budget'.silent)

LEMMA Spending ==
  ASSUME BudgetOk,
         budget' = budget \/ Fault \/ HostSilent \/ budget' = [budget EXCEPT !.requests = @ - 1]
  PROVE  Spends
BY DEF Spends, BudgetOk, Alike, Fault, HostSilent

LEMMA EveryStepSpends == ASSUME BudgetOk, Next PROVE Spends
<1> USE Spending
<1>1. CASE Crash
  BY <1>1 DEF Crash, Dies
<1>2. ASSUME NEW n \in Server, Provisions(n) PROVE Spends
  BY <1>2 DEF Provisions, ProvisionServer, Request, InsertServerRow, Records, Dies, CreateCloudServer, CreateMachine,
              BootServer, BootFails, MarkReady, UndoCreate, UndoCreateFails, UndoRow
<1>3. ASSUME NEW n \in Server, Destroys(n) PROVE Spends
  BY <1>3 DEF Destroys, DestroyServer, Request, ListApps, ChildrenOver, DeleteCloudServer, Records, Dies,
              DeleteCloudServerFails, DeleteServerRows, ChildDestroys, ChildEnds
<1>4. ASSUME NEW n \in Server, Collects(n) PROVE Spends
  BY <1>4 DEF Collects, GcChecks, GcDeletes, GcFails, GcForgets
<1>5. ASSUME NEW a \in App, DestroyRequested(a) PROVE Spends
  BY <1>5 DEF DestroyRequested
<1>6. ASSUME NEW a \in App, Deploys(a) PROVE Spends
  <2>1. CASE Deploy(a) \/ PickServer(a) \/ OwnRow(a) \/ OwnReady(a) \/ HealthCheck(a) \/ ReserveHostPort(a)
             \/ FinalizeDeploy(a) \/ UndoRun(a) \/ UndoInsert(a) \/ UndoPick(a)
    BY <2>1 DEF Deploy, Request, PickServer, OwnRow, OwnReady, HealthCheck, ReserveHostPort, FinalizeDeploy,
                UndoRun, UndoInsert, UndoPick
  <2>2. CASE OwnMachine(a)
    BY <2>2 DEF OwnMachine, CreateMachine, Dies
  <2>3. CASE InsertApp(a) \/ RunContainer(a) \/ RunFails(a)
    BY <2>3 DEF InsertApp, RunContainer, RunFails, Records, Dies
  <2>4. CASE ScaleStarts(a) \/ ScaleInserts(a)
    BY <2>4 DEF ScaleStarts, ScaleInserts, StartReplica, InsertReplica, SetupFails
  <2> QED
    BY <1>6, <2>1, <2>2, <2>3, <2>4 DEF Deploys
<1>7. ASSUME NEW a \in App, Moves(a) PROVE Spends
  <2>1. CASE (\E r \in reps, n \in Server : Migrate(a, r, n)) \/ LoadAndValidate(a) \/ MigrateReplica(a)
             \/ PortPreflight(a) \/ StopSource(a) \/ DetachVolume(a) \/ AttachVolume(a)
    BY <2>1 DEF Migrate, LoadAndValidate, MigrateReplica, PortPreflight, StopSource, DetachVolume, AttachVolume
  <2>2. CASE StartOnTarget(a) \/ InsertOnTarget(a)
    BY <2>2 DEF StartOnTarget, InsertOnTarget, StartReplica, InsertReplica, SetupFails
  <2>3. CASE DropSource(a) \/ SyncMoved(a) \/ RollBack(a) \/ RollBackFails(a) \/ VerifyMoved(a)
    BY <2>3 DEF DropSource, SyncMoved, RollBack, RollBackFails, VerifyMoved
  <2> QED
    BY <1>7, <2>1, <2>2, <2>3 DEF Moves
<1> QED
  BY <1>1, <1>2, <1>3, <1>4, <1>5, <1>6, <1>7 DEF Next

(* What the others may do to an app, its replicas and its containers.      *)
Lessens(a) ==
  /\ a \in apps' => a \in apps
  /\ RepsOf(a)' \subseteq RepsOf(a) /\ BoxesOf(a)' \subseteq BoxesOf(a)
  /\ a \in apps' => \A r \in RepsOf(a) : r \in reps' \/ ~Here(r.srv)'
  /\ a \in apps /\ a \notin apps' => BoxesOf(a)' = {}
  /\ a \notin apps' => RepsOf(a)' = {} \/ a \notin apps

LEMMA Untouched ==
  ASSUME NEW a, a \in apps' <=> a \in apps, RepsOf(a)' = RepsOf(a), BoxesOf(a)' \subseteq BoxesOf(a)
  PROVE  Lessens(a)
BY DEF Lessens, RepsOf

LEMMA ServerForgotten ==
  ASSUME FleetInv, NEW a, NEW n \in Server, Forget(n), apps' = apps, boxes' = boxes PROVE Lessens(a)
<1>1. ~Here(n)'
  <2>1. row'[n] = NoRow
    BY RowChanges DEF Forget
  <2> QED
    BY <2>1 DEF Here, NoRow
<1>2. \A r \in reps : r \in reps' \/ r.srv = n
  BY DEF Forget, RepsOn
<1>3. RepsOf(a)' \subseteq RepsOf(a) /\ BoxesOf(a)' \subseteq BoxesOf(a)
  BY DEF Forget, RepsOf, BoxesOf
<1>4. \A r \in RepsOf(a) : r \in reps' \/ ~Here(r.srv)'
  BY <1>1, <1>2 DEF RepsOf
<1> QED
  BY <1>3, <1>4 DEF Lessens

LEMMA AppDestroyed == ASSUME NEW a, NEW b, DestroyApp(b) PROVE Lessens(a)
<1>1. CASE a = b
  BY <1>1 DEF DestroyApp, Lessens, RepsOf, BoxesOf
<1>2. CASE a # b
  <2>1. (a \in apps' <=> a \in apps) /\ RepsOf(a)' = RepsOf(a) /\ BoxesOf(a)' \subseteq BoxesOf(a)
    BY <1>2 DEF DestroyApp, RepsOf, BoxesOf
  <2> QED
    BY <2>1, Untouched
<1> QED
  BY <1>1, <1>2

LEMMA OthersLessen ==
  ASSUME FleetInv, Next, NEW a \in App, ~Deploys(a), ~Moves(a)
  PROVE  Lessens(a) /\ Still(<<"deploy", a>>) /\ \E s \in Slot : StepTo(s)
<1> DEFINE d == <<"deploy", a>>
<1>1. \A s \in Slot : Keeps(s) /\ s # d => Still(d)
  BY JobsKept, Slots DEF Keeps, StepTo, FleetInv
<1>2. \E s \in Slot : StepTo(s)
  BY EveryStepKeeps DEF Keeps
<1>3. CASE Crash
  <2>1. Lessens(a)
    BY <1>3 DEF Crash, tables, world, Lessens, RepsOf, BoxesOf
  <2>2. Still(d)
    BY <1>3, Died, Slots DEF Crash
  <2> QED
    BY <1>2, <2>1, <2>2
<1>4. ASSUME NEW n \in Server, Provisions(n) PROVE Lessens(a) /\ Still(d)
  <2>1. Still(d)
    BY <1>1, <1>4, ProvisionsKeep, Slots
  <2>2. CASE UndoRow(n)
    BY <2>1, <2>2, ServerForgotten DEF UndoRow, world
  <2>3. CASE ~UndoRow(n)
    <3>1. apps' = apps /\ reps' = reps /\ boxes' \subseteq boxes
      BY <1>4, <2>3 DEF Provisions, ProvisionServer, InsertServerRow, CreateCloudServer, BootServer, BootFails,
                  MarkReady, UndoCreate, UndoCreateFails, Demolish, tables, world
    <3> QED
      BY <2>1, <3>1, Untouched DEF RepsOf, BoxesOf
  <2> QED
    BY <2>1, <2>2, <2>3
<1>5. ASSUME NEW n \in Server, Destroys(n) PROVE Lessens(a) /\ Still(d)
  <2>1. Still(d)
    BY <1>1, <1>5, DestroysKeep, Slots
  <2>2. CASE DeleteServerRows(n)
    BY <2>1, <2>2, ServerForgotten DEF DeleteServerRows, world
  <2>3. CASE \E b \in App : ChildDestroys(n, b)
    BY <2>1, <2>3, AppDestroyed DEF ChildDestroys
  <2>4. CASE ~DeleteServerRows(n) /\ ~\E b \in App : ChildDestroys(n, b)
    <3>1. apps' = apps /\ reps' = reps /\ boxes' \subseteq boxes
      BY <1>5, <2>4 DEF Destroys, DestroyServer, ListApps, ChildrenOver, DeleteCloudServer, DeleteCloudServerFails,
                  ChildEnds, Demolish, tables, world
    <3> QED
      BY <2>1, <3>1, Untouched DEF RepsOf, BoxesOf
  <2> QED
    BY <2>1, <2>2, <2>3, <2>4
<1>6. ASSUME NEW n \in Server, Collects(n) PROVE Lessens(a) /\ Still(d)
  <2>1. Still(d)
    BY <1>1, <1>6, CollectsKeep, Slots
  <2>2. CASE GcForgets(n)
    BY <2>1, <2>2, ServerForgotten DEF GcForgets, world
  <2>3. CASE GcChecks(n) \/ GcDeletes(n) \/ GcFails(n)
    <3>1. apps' = apps /\ reps' = reps /\ boxes' \subseteq boxes
      BY <2>3 DEF GcChecks, GcDeletes, GcFails, Demolish, tables, world
    <3> QED
      BY <2>1, <3>1, Untouched DEF RepsOf, BoxesOf
  <2> QED
    BY <1>6, <2>1, <2>2, <2>3 DEF Collects
<1>7. ASSUME NEW b \in App, DestroyRequested(b) PROVE Lessens(a) /\ Still(d)
  BY <1>7, AppDestroyed, Aside, Slots DEF DestroyRequested
<1>8. ASSUME NEW b \in App, b # a, Deploys(b) PROVE Lessens(a) /\ Still(d)
  <2>1. Still(d)
    BY <1>1, <1>8, DeploysKeep, Slots
  <2>2. CASE InsertApp(b) \/ UndoInsert(b)
    <3>1. (a \in apps' <=> a \in apps) /\ RepsOf(a)' = RepsOf(a) /\ boxes' = boxes
      <4>1. CASE InsertApp(b)
        <5> DEFINE c == Container(b, 1, job[<<"deploy", b>>].srv, NextReplicaHostPort(job[<<"deploy", b>>].srv))
        <5>1. boxes' = boxes
          BY <4>1 DEF InsertApp, world
        <5>3. \/ apps' = apps /\ reps' = reps
              \/ apps' = apps \cup {b} /\ reps' = reps \cup {c}
          BY <4>1 DEF InsertApp, world
        <5>2. c.app = b
          BY DEF Container
        <5> QED
          BY <1>8, <5>1, <5>2, <5>3 DEF RepsOf
      <4>2. CASE UndoInsert(b)
        BY <1>8, <4>2 DEF UndoInsert, RepsOf, world
      <4> QED
        BY <2>2, <4>1, <4>2
    <3> QED
      BY <2>1, <3>1, Untouched DEF BoxesOf
  <2>3. CASE RunContainer(b) \/ RunFails(b) \/ UndoRun(b)
    <3>1. apps' = apps /\ reps' = reps /\ BoxesOf(a)' \subseteq BoxesOf(a)
      BY <1>8, <2>3 DEF RunContainer, RunFails, UndoRun, BoxesOf, Started, Container, tables
    <3> QED
      BY <2>1, <3>1, Untouched DEF RepsOf
  <2>4. CASE ScaleStarts(b) \/ ScaleInserts(b)
    <3>1. apps' = apps /\ RepsOf(a)' = RepsOf(a) /\ BoxesOf(a)' \subseteq BoxesOf(a)
      BY <1>8, <2>4 DEF ScaleStarts, ScaleInserts, StartReplica, InsertReplica, SetupFails, Started, Removed,
                  NewContainer, Container, BoxesOf, RepsOf, tables, world
    <3> QED
      BY <2>1, <3>1, Untouched
  <2>5. CASE \/ Deploy(b) \/ PickServer(b) \/ OwnRow(b) \/ OwnMachine(b) \/ OwnReady(b) \/ HealthCheck(b)
             \/ ReserveHostPort(b) \/ FinalizeDeploy(b) \/ UndoPick(b)
    <3>1. apps' = apps /\ reps' = reps /\ boxes' = boxes
      BY <2>5 DEF Deploy, PickServer, OwnRow, OwnMachine, OwnReady, HealthCheck, ReserveHostPort, FinalizeDeploy,
                  UndoPick, tables, world
    <3> QED
      BY <2>1, <3>1, Untouched DEF RepsOf, BoxesOf
  <2> QED
    BY <1>8, <2>1, <2>2, <2>3, <2>4, <2>5 DEF Deploys
<1>9. ASSUME NEW b \in App, b # a, Moves(b) PROVE Lessens(a) /\ Still(d)
  <2>1. Still(d)
    BY <1>1, <1>9, MovesKeep, Slots
  <2>2. CASE StartOnTarget(b) \/ InsertOnTarget(b)
    <3>1. apps' = apps /\ RepsOf(a)' = RepsOf(a) /\ BoxesOf(a)' \subseteq BoxesOf(a)
      BY <1>9, <2>2 DEF StartOnTarget, InsertOnTarget, StartReplica, InsertReplica, SetupFails, Started, Removed,
                  NewContainer, Container, BoxesOf, RepsOf, tables, world
    <3> QED
      BY <2>1, <3>1, Untouched
  <2>3. CASE StopSource(b) \/ DropSource(b) \/ RollBack(b) \/ RollBackFails(b)
    <3>1. apps' = apps /\ RepsOf(a)' = RepsOf(a) /\ BoxesOf(a)' \subseteq BoxesOf(a)
      BY <1>9, <2>3 DEF StopSource, DropSource, RollBack, RollBackFails, Started, Source, Container, BoxesOf,
                  RepsOf, tables
    <3> QED
      BY <2>1, <3>1, Untouched
  <2>4. CASE (\E r \in reps, n \in Server : Migrate(b, r, n)) \/ LoadAndValidate(b) \/ MigrateReplica(b)
             \/ PortPreflight(b) \/ DetachVolume(b) \/ AttachVolume(b) \/ SyncMoved(b) \/ VerifyMoved(b)
    <3>1. apps' = apps /\ reps' = reps /\ boxes' = boxes
      BY <2>4 DEF Migrate, LoadAndValidate, MigrateReplica, PortPreflight, DetachVolume, AttachVolume, SyncMoved,
                  VerifyMoved, tables, world
    <3> QED
      BY <2>1, <3>1, Untouched DEF RepsOf, BoxesOf
  <2> QED
    BY <1>9, <2>1, <2>2, <2>3, <2>4 DEF Moves
<1> QED
  BY <1>2, <1>3, <1>4, <1>5, <1>6, <1>7, <1>8, <1>9 DEF Next

(* What excuses a deployment does not go away. *)
LEMMA JobsLast ==
  ASSUME JobsOk, NEW s \in Slot, JobsTo(s), NEW t \in Slot
  PROVE  /\ job[t].st # "idle" => job'[t].st # "idle"
         /\ job[t].at \notin {"none", "pick"} => job'[t].at \notin {"none", "pick"}
<1>1. CASE Still(t)
  BY <1>1 DEF Still
<1>2. CASE t = s /\ Moved(s)
  <2>1. PICK q : Grows(job[s], q) /\ job' = [job EXCEPT ![s] = q]
    BY <1>2 DEF Moved
  <2>2. job'[s] = q
    BY <2>1 DEF JobsOk
  <2> QED
    BY <1>2, <2>1, <2>2 DEF Grows
<1> QED
  BY <1>1, <1>2, JobsKept DEF JobsTo

LEMMA ExcuseLasts ==
  ASSUME FleetInv, NEW a \in App, NEW s \in Slot, StepTo(s), Spends, Excused(a),
         job[<<"deploy", a>>].at \notin {"none", "pick"} => job'[<<"deploy", a>>].srv = job[<<"deploy", a>>].srv
  PROVE  Excused(a)'
<1> DEFINE d == <<"deploy", a>>
<1>1. /\ job[<<"migrate", a>>].st # "idle" => job'[<<"migrate", a>>].st # "idle"
      /\ job[d].at \notin {"none", "pick"} => job'[d].at \notin {"none", "pick"}
  BY JobsLast, Slots DEF FleetInv, StepTo
<1>2. ASSUME job[d].at \notin {"none", "pick"}, ~Here(job[d].srv) PROVE ~Here(job[d].srv)'
  <2>1. Built(job[d].srv) /\ job[d].srv \in Server
    BY <1>2, BuiltIsServer DEF FleetInv, DeployOk
  <2>2. RowTo(job[d].srv)
    BY <2>1 DEF StepTo, RowsTo
  <2>3. Built(job[d].srv) /\ row'[job[d].srv].st # "none" => Here(job[d].srv)
    BY <2>2, <1>2 DEF RowTo, Here
  <2> QED
    BY <1>2, <2>1, <2>3 DEF Here
<1>3. budget.silent => budget'.silent
  BY DEF Spends
<1> QED
  BY <1>1, <1>2, <1>3 DEF Excused, Here

Fine(a) == Undoable(a) /\ Listed(a) /\ (Excused(a) \/ Kempt(a))

(* The steps of others. *)
LEMMA OthersKeep ==
  ASSUME FleetInv, NEW a \in App, NEW s \in Slot, StepTo(s), Spends, Fine(a), Lessens(a), Still(<<"deploy", a>>)
  PROVE  Fine(a)'
<1> DEFINE d == <<"deploy", a>>
<1>1. Undoable(a)'
  BY DEF Fine, Undoable, Still
<1>2. Listed(a)'
  <2>1. IsFiniteSet(RepsOf(a)')
    BY FS_Subset DEF Fine, Listed, Lessens
  <2> QED
    BY <2>1 DEF Fine, Listed, Lessens
<1>3. Excused(a) => Excused(a)'
  BY ExcuseLasts DEF Still
<1>4. ASSUME ~Excused(a)', Kempt(a) PROVE Kempt(a)'
  <2>1. FirstOf(a)' \subseteq FirstOf(a)
    BY DEF Lessens, FirstOf
  <2>2. \A left : ToUndo(a, left)' => ToUndo(a, left)
    BY DEF ToUndo, Still
  <2>3. \A steps : Deploying(a, steps)' => Deploying(a, steps)
    BY DEF Deploying, Still
  <2>4. /\ job'[d].srv = job[d].srv /\ job'[d].port = job[d].port /\ job'[d].new = job[d].new
        /\ job'[d].st = job[d].st /\ job'[d].at = job[d].at /\ job'[d].pc \in {job[d].pc, "start"}
    BY DEF Still
  <2>5. (job[d].st = "idle" /\ a \notin apps => FirstOf(a) = {})'
    BY <1>4, <2>1, <2>4 DEF Kempt, Lessens, FirstOf
  <2>6. /\ (Deploying(a, {"pick", "insert"}) => FirstOf(a) = {})'
        /\ (Deploying(a, {"pick"}) => a \notin apps)'
        /\ (Deploying(a, {"run"}) => FirstOf(a) \subseteq {Container(a, 1, job[d].srv, job[d].port)})'
        /\ (Deploying(a, {"health", "scale"}) => \A b \in FirstOf(a) : b.srv = job[d].srv)'
    BY <1>4, <2>1, <2>3, <2>4 DEF Kempt, Lessens
  <2>7. ASSUME Deploying(a, {"insert", "run", "health", "scale"})', a \in apps'
        PROVE  \E r \in RepsOf(a)' : r.n = 1 /\ r.srv = job'[d].srv
    <3>1. a \in apps /\ Deploying(a, {"insert", "run", "health", "scale"})
      BY <2>3, <2>7 DEF Lessens
    <3>2. PICK r \in RepsOf(a) : r.n = 1 /\ r.srv = job[d].srv
      BY <1>4, <3>1 DEF Kempt
    <3>3. r \in reps' \/ row'[job[d].srv].st = "none"
      BY <2>4, <2>7, <3>2 DEF Lessens, Here
    <3>4. job'[d].at \notin {"none", "pick"}
      BY <2>7 DEF Deploying
    <3>5. r \in reps'
      BY <1>4, <2>4, <3>3, <3>4 DEF Excused, Here
    <3> QED
      BY <2>4, <3>2, <3>5 DEF RepsOf
  <2>8. (Deploying(a, {"scale"}) /\ job[d].pc \in {"place", "probe"} => job[d].new # 1)'
    BY <1>4, <2>3, <2>4 DEF Kempt
  <2>9. /\ (ToUndo(a, <<"run", "insert", "pick">>) => \A b \in FirstOf(a) : b.srv = job[d].srv)'
        /\ (ToUndo(a, <<"insert", "pick">>) => FirstOf(a) = {})'
        /\ (ToUndo(a, <<"pick">>) \/ job[d].st = "compensated" => FirstOf(a) = {} /\ a \notin apps)'
    BY <1>4, <2>1, <2>2, <2>4 DEF Kempt, Lessens
  <2> QED
    BY <2>5, <2>6, <2>7, <2>8, <2>9 DEF Kempt
<1> QED
  BY <1>1, <1>2, <1>3, <1>4 DEF Fine

(* A migration of the app itself. *)
LEMMA OwnMoveKeeps ==
  ASSUME FleetInv, NEW a \in App, Moves(a), Spends, Fine(a) PROVE Fine(a)'
<1> DEFINE d == <<"deploy", a>>
           m == <<"migrate", a>>
<1>1. Keeps(m) /\ m \in Slot /\ d \in Slot /\ m # d
  BY MovesKeep, Slots
<1>2. Still(d)
  BY <1>1, JobsKept DEF Keeps, StepTo, FleetInv
<1>3. Excused(a)'
  <2>1. CASE job[m].st # "idle"
    <3>1. job'[m].st # "idle"
      BY <1>1, <2>1, JobsLast DEF Keeps, StepTo, FleetInv
    <3> QED
      BY <3>1 DEF Excused
  <2>2. CASE job[m].st = "idle"
    <3>1. PICK r \in reps, n \in Server : Migrate(a, r, n)
      BY <2>2 DEF Moves
    <3>2. job'[m].st = "running"
      BY <1>1, <3>1 DEF Migrate, FleetInv, JobsOk, NoJob
    <3> QED
      BY <3>2 DEF Excused
  <2> QED
    BY <2>1, <2>2
<1>4. Undoable(a)'
  BY <1>2 DEF Fine, Undoable, Still
<1>5. /\ apps' = apps
      /\ reps' \subseteq reps \/ (a \in apps /\ reps' = reps \cup {NewContainer(m)})
  <2>1. CASE StartOnTarget(a) \/ InsertOnTarget(a)
    BY <2>1 DEF StartOnTarget, InsertOnTarget, StartReplica, InsertReplica, SetupFails, tables, world
  <2>2. CASE (\E r \in reps, n \in Server : Migrate(a, r, n)) \/ LoadAndValidate(a) \/ MigrateReplica(a)
             \/ PortPreflight(a) \/ StopSource(a) \/ DetachVolume(a) \/ AttachVolume(a)
    BY <2>2 DEF Migrate, LoadAndValidate, MigrateReplica, PortPreflight, StopSource, DetachVolume, AttachVolume, tables
  <2>3. CASE DropSource(a) \/ SyncMoved(a) \/ RollBack(a) \/ RollBackFails(a) \/ VerifyMoved(a)
    BY <2>3 DEF DropSource, SyncMoved, RollBack, RollBackFails, VerifyMoved, tables
  <2> QED
    BY <2>1, <2>2, <2>3 DEF Moves
<1>6. Listed(a)'
  <2>1. RepsOf(a)' \subseteq RepsOf(a) \cup {NewContainer(m)}
    BY <1>5 DEF RepsOf
  <2>2. IsFiniteSet(RepsOf(a)')
    BY <2>1, FS_Subset, FS_AddElement DEF Fine, Listed
  <2>3. RepsOf(a)' # {} => a \in apps'
    BY <1>5 DEF RepsOf, Fine, Listed
  <2> QED
    BY <2>2, <2>3 DEF Listed
<1> QED
  BY <1>3, <1>4, <1>6 DEF Fine

(* The steps of the deployment itself. *)
Turned(d, st, at, pc) ==
  /\ job'[d].st = st /\ job'[d].at = at /\ job'[d].pc = pc
  /\ job'[d].srv = job[d].srv /\ job'[d].port = job[d].port /\ job'[d].new = job[d].new
  /\ job'[d].left = job[d].left

LEMMA DeployTurns ==
  ASSUME FleetInv, NEW a \in App, InFlight(<<"deploy", a>>)
  PROVE  /\ \A pc : Goto(<<"deploy", a>>, pc) =>
                      Turned(<<"deploy", a>>, job[<<"deploy", a>>].st, job[<<"deploy", a>>].at, pc)
         /\ \A at : Step(<<"deploy", a>>, at) => Turned(<<"deploy", a>>, job[<<"deploy", a>>].st, at, "start")
         /\ \A st : End(<<"deploy", a>>, st) =>
                      Turned(<<"deploy", a>>, st, job[<<"deploy", a>>].at, job[<<"deploy", a>>].pc)
         /\ Dies => Still(<<"deploy", a>>)
<1> DEFINE d == <<"deploy", a>>
<1>1. d \in Slot /\ Alike(job[d], NoJob) /\ job = [t \in Slot |-> job[t]]
  BY WhileDeployed
<1>2. ASSUME NEW pc, Goto(d, pc) PROVE Turned(d, job[d].st, job[d].at, pc)
  <2>1. job'[d] = [job[d] EXCEPT !.pc = pc]
    BY <1>1, <1>2 DEF Goto
  <2> QED
    BY <1>1, <2>1 DEF Turned, Alike, NoJob
<1>3. ASSUME NEW at, Step(d, at) PROVE Turned(d, job[d].st, at, "start")
  <2>1. job'[d] = [job[d] EXCEPT !.at = at, !.pc = "start"]
    BY <1>1, <1>3 DEF Step
  <2> QED
    BY <1>1, <2>1 DEF Turned, Alike, NoJob
<1>4. ASSUME NEW st, End(d, st) PROVE Turned(d, st, job[d].at, job[d].pc)
  <2>1. job'[d] = [job[d] EXCEPT !.st = st, !.lock = {}]
    BY <1>1, <1>4 DEF End
  <2> QED
    BY <1>1, <2>1 DEF Turned, Alike, NoJob
<1>5. Dies => Still(d)
  BY <1>1, Died
<1> QED
  BY <1>2, <1>3, <1>4, <1>5

(* A step of a deployment keeps what is said of it, unless it meets a host *)
(* that is silent.                                                         *)
OwnSrv(a) == job[<<"deploy", a>>].at \notin {"none", "pick"} => job'[<<"deploy", a>>].srv = job[<<"deploy", a>>].srv
Answers(a) == ~Excused(a) => budget'.silent \/ Kempt(a)'
Tends(a) == OwnSrv(a) /\ Undoable(a)' /\ Listed(a)' /\ Answers(a)

LEMMA TendedIsFine ==
  ASSUME FleetInv, NEW a \in App, NEW s \in Slot, StepTo(s), Spends, Fine(a), Tends(a) PROVE Fine(a)'
<1>1. Excused(a) => Excused(a)'
  BY ExcuseLasts DEF Tends, OwnSrv
<1>2. budget'.silent => Excused(a)'
  BY DEF Excused
<1> QED
  BY <1>1, <1>2 DEF Fine, Tends, Answers

LEMMA DeployTends == ASSUME FleetInv, NEW a \in App, Fine(a), Deploy(a) PROVE Tends(a)
<1> DEFINE d == <<"deploy", a>>
           q == [NoJob EXCEPT !.st = "running", !.at = "pick", !.lock = {}]
<1>1. job[d].st = "idle" /\ job'[d] = q /\ a \notin apps /\ UNCHANGED <<apps, reps, boxes>> /\ job[d] = NoJob
  BY Slots DEF Deploy, Request, tables, world, FleetInv, JobsOk
<1>2. q.st = "running" /\ q.at = "pick"
  BY DEF NoJob
<1>3. OwnSrv(a) /\ Undoable(a)' /\ Listed(a)'
  BY <1>1, <1>2 DEF OwnSrv, Undoable, Listed, Fine, RepsOf, NoJob
<1>4. ASSUME Kempt(a) PROVE Kempt(a)'
  <2>1. FirstOf(a)' = {} /\ a \notin apps'
    BY <1>1, <1>4 DEF Kempt, FirstOf, BoxesOf
  <2> QED
    BY <1>1, <1>2, <2>1 DEF Kempt, Deploying, ToUndo
<1> QED
  BY <1>3, <1>4 DEF Tends, Answers, Fine

(* While it looks for a server, and when it has one.                       *)
LEMMA PickedTends ==
  ASSUME FleetInv, NEW a \in App, Fine(a), Deploying(a, {"pick"}), UNCHANGED <<apps, reps, boxes>>,
         \/ job'[<<"deploy", a>>].st = "running" /\ job'[<<"deploy", a>>].at \in {"pick", "insert"}
         \/ job'[<<"deploy", a>>].st = "failed"
  PROVE  Tends(a)
<1>1. OwnSrv(a) /\ Undoable(a)' /\ Listed(a)'
  BY DEF OwnSrv, Undoable, Listed, Fine, RepsOf, Deploying
<1>2. ASSUME Kempt(a) PROVE Kempt(a)'
  <2>1. FirstOf(a)' = {} /\ a \notin apps'
    BY <1>2 DEF Kempt, FirstOf, BoxesOf, Deploying
  <2> QED
    BY <2>1 DEF Kempt, Deploying, ToUndo
<1> QED
  BY <1>1, <1>2 DEF Tends, Answers, Fine

LEMMA DeployThrown ==
  ASSUME FleetInv, NEW a \in App, InFlight(<<"deploy", a>>), Throw(<<"deploy", a>>)
  PROVE  /\ job'[<<"deploy", a>>].srv = job[<<"deploy", a>>].srv
         /\ \/ job'[<<"deploy", a>>].st = "failed"
            \/ /\ job'[<<"deploy", a>>].st = "undoing" /\ Completed(<<"deploy", a>>) # <<>>
               /\ job'[<<"deploy", a>>].left = Completed(<<"deploy", a>>)
<1> DEFINE d == <<"deploy", a>>
<1>1. d \in Slot /\ Alike(job[d], NoJob) /\ JobsOk
  BY WhileDeployed
<1>2. \/ Becomes(d, [job[d] EXCEPT !.st = "failed", !.lock = {}])
      \/ Completed(d) # <<>> /\ Becomes(d, [job[d] EXCEPT !.st = "undoing", !.left = Completed(d)])
  BY <1>1, Throwing
<1> QED
  BY <1>1, <1>2 DEF Becomes, Alike, NoJob

LEMMA PickingTends ==
  ASSUME FleetInv, NEW a \in App, Fine(a), job[<<"deploy", a>>].st = "running",
         PickServer(a) \/ OwnRow(a) \/ OwnMachine(a) \/ OwnReady(a)
  PROVE  Tends(a)
<1> DEFINE d == <<"deploy", a>>
<1>1. InFlight(d) /\ job[d].at = "pick" /\ UNCHANGED <<apps, reps, boxes>>
  BY DEF InFlight, At, PickServer, OwnRow, OwnMachine, OwnReady, tables, world
<1>2. d \in Slot /\ Alike(job[d], NoJob) /\ job = [t \in Slot |-> job[t]]
  BY <1>1, WhileDeployed
<1>3. Completed(d) = <<>>
  BY <1>1 DEF Completed
<1>4. \A pc : Goto(d, pc) => job'[d].st = "running" /\ job'[d].at = "pick"
  BY <1>1, DeployTurns DEF Turned
<1>5. Throw(d) => job'[d].st = "failed"
  BY <1>1, <1>3, DeployThrown
<1>6. Dies => job'[d].st = "running" /\ job'[d].at = "pick"
  BY <1>1, DeployTurns DEF Still
<1>7. \/ job'[d].st = "running" /\ job'[d].at \in {"pick", "insert"}
      \/ job'[d].st = "failed"
  <2>1. CASE PickServer(a)
    <3>1. ASSUME NEW n \in Server, job' = [job EXCEPT ![d].at = "insert", ![d].srv = n]
          PROVE  job'[d].st = "running" /\ job'[d].at = "insert"
      BY <1>2, <3>1 DEF Alike, NoJob
    <3> QED
      BY <1>4, <2>1, <3>1 DEF PickServer
  <2>2. CASE OwnRow(a)
    BY <1>1, <1>2, <2>2 DEF OwnRow, Alike, NoJob
  <2>3. CASE OwnMachine(a)
    BY <1>4, <1>5, <1>6, <2>3 DEF OwnMachine, CreateMachine
  <2>4. CASE OwnReady(a)
    <3>1. CASE job' = [job EXCEPT ![d].at = "insert", ![d].pc = "start", ![d].srv = Own[a]]
      BY <1>2, <3>1 DEF Alike, NoJob
    <3> QED
      BY <1>5, <2>4, <3>1 DEF OwnReady
  <2> QED
    BY <2>1, <2>2, <2>3, <2>4
<1>8. Deploying(a, {"pick"})
  BY <1>1 DEF Deploying
<1> QED
  BY <1>1, <1>7, <1>8, PickedTends

LEMMA ThrowTends ==
  ASSUME FleetInv, NEW a \in App, Fine(a), job[<<"deploy", a>>].st = "running", Throw(<<"deploy", a>>), Listed(a)',
         ~Excused(a) /\ Kempt(a) =>
           \/ budget'.silent
           \/ /\ job[<<"deploy", a>>].at = "insert" => FirstOf(a)' = {} /\ a \notin apps'
              /\ job[<<"deploy", a>>].at = "run" => FirstOf(a)' = {}
              /\ job[<<"deploy", a>>].at \in {"health", "scale"} => \A b \in FirstOf(a)' : b.srv = job[<<"deploy", a>>].srv
  PROVE  Tends(a)
<1> DEFINE d == <<"deploy", a>>
<1>1. /\ job'[d].srv = job[d].srv
      /\ \/ job'[d].st = "failed"
         \/ job'[d].st = "undoing" /\ Completed(d) # <<>> /\ job'[d].left = Completed(d)
  BY DeployThrown DEF InFlight
<1>2. \/ Completed(d) = <<>>
      \/ job[d].at = "insert" /\ Completed(d) = <<"pick">>
      \/ job[d].at = "run" /\ Completed(d) = <<"insert", "pick">>
      \/ job[d].at \in {"health", "scale"} /\ Completed(d) = <<"run", "insert", "pick">>
  BY DEF Completed
<1>3. OwnSrv(a) /\ Undoable(a)'
  BY <1>1, <1>2 DEF OwnSrv, Undoable, Shapes
<1>4. CASE job'[d].st = "failed"
  <2>1. Kempt(a)'
    BY <1>4 DEF Kempt, Deploying, ToUndo
  <2> QED
    BY <1>3, <2>1 DEF Tends, Answers
<1>5. ASSUME job'[d].st = "undoing", ~Excused(a) PROVE budget'.silent \/ Kempt(a)'
  BY <1>1, <1>2, <1>5 DEF Kempt, Deploying, ToUndo, Fine
<1> QED
  BY <1>1, <1>3, <1>4, <1>5 DEF Tends, Answers

LEMMA InsertTends ==
  ASSUME FleetInv, NEW a \in App, Fine(a), job[<<"deploy", a>>].st = "running", InsertApp(a) PROVE Tends(a)
<1> DEFINE d == <<"deploy", a>>
           n == job[d].srv
           c == Container(a, 1, n, NextReplicaHostPort(n))
<1>1. InFlight(d) /\ job[d].at = "insert" /\ UNCHANGED boxes
  BY DEF InFlight, At, InsertApp, world
<1>2. d \in Slot /\ Alike(job[d], NoJob) /\ job = [t \in Slot |-> job[t]]
  BY <1>1, WhileDeployed
<1>3. ASSUME NEW p, job' = [job EXCEPT ![d].at = "run", ![d].port = p]
      PROVE  job'[d].st = "running" /\ job'[d].at = "run" /\ job'[d].port = p /\ job'[d].srv = n
  <2>1. job'[d] = [job[d] EXCEPT !.at = "run", !.port = p]
    BY <1>2, <1>3
  <2> QED
    BY <1>2, <2>1 DEF Alike, NoJob
<1>4. FirstOf(a)' = FirstOf(a) /\ (~Excused(a) => FirstOf(a) = {})
  BY <1>1 DEF FirstOf, BoxesOf, Fine, Kempt, Deploying
<1>5. ASSUME NEW r \in RepsOf(a), r.n = 1, r.srv = n, UNCHANGED <<apps, reps>>,
             job' = [job EXCEPT ![d].at = "run", ![d].port = r.port]
      PROVE  Tends(a)
  <2>1. OwnSrv(a) /\ Undoable(a)' /\ Listed(a)'
    BY <1>3, <1>5 DEF OwnSrv, Undoable, Listed, Fine, RepsOf
  <2>2. r \in RepsOf(a)' /\ r.srv = job'[d].srv
    BY <1>3, <1>5 DEF RepsOf
  <2>3. ~Excused(a) => Kempt(a)'
    BY <1>3, <1>4, <1>5, <2>2 DEF Kempt, Deploying, ToUndo
  <2> QED
    BY <2>1, <2>3 DEF Tends, Answers
<1>6. ASSUME a \notin apps, apps' = apps \cup {a}, reps' = reps \cup {c},
             \/ job' = [job EXCEPT ![d].at = "run", ![d].port = NextReplicaHostPort(n)]
             \/ Dies
      PROVE  Tends(a)
  <2>1. c \in RepsOf(a)' /\ c.n = 1 /\ c.srv = n
    BY <1>6 DEF RepsOf, Container
  <2>2. RepsOf(a)' \subseteq RepsOf(a) \cup {c}
    BY <1>6 DEF RepsOf
  <2>3. IsFiniteSet(RepsOf(a)')
    BY <2>2, FS_Subset, FS_AddElement DEF Fine, Listed
  <2>4. Listed(a)'
    BY <1>6, <2>3 DEF Listed
  <2>5. job'[d].srv = n /\ job'[d].st = "running" /\ job'[d].at \in {"insert", "run"}
    BY <1>1, <1>3, <1>6, DeployTurns DEF Still
  <2>6. OwnSrv(a) /\ Undoable(a)'
    BY <2>5 DEF OwnSrv, Undoable
  <2>7. ~Excused(a) => Kempt(a)'
    BY <1>4, <2>1, <2>5 DEF Kempt, Deploying, ToUndo
  <2> QED
    BY <2>4, <2>6, <2>7 DEF Tends, Answers
<1>7. ASSUME IF a \in apps THEN ~\E r \in RepsOf(a) : r.n = 1 /\ r.srv = n ELSE ~Here(n),
             Throw(d), UNCHANGED <<apps, reps>>
      PROVE  Tends(a)
  <2>1. Listed(a)'
    BY <1>7 DEF Listed, Fine, RepsOf
  <2>2. ~Excused(a) /\ Kempt(a) => a \notin apps
    BY <1>1, <1>7 DEF Kempt, Deploying, Excused
  <2> QED
    BY <1>1, <1>4, <1>7, <2>1, <2>2, ThrowTends
<1> QED
  BY <1>5, <1>6, <1>7 DEF InsertApp

LEMMA RunTends ==
  ASSUME FleetInv, BudgetOk, NEW a \in App, Fine(a), job[<<"deploy", a>>].st = "running",
         RunContainer(a) \/ RunFails(a)
  PROVE  Tends(a)
<1> DEFINE d == <<"deploy", a>>
           n == job[d].srv
           c == Container(a, 1, n, job[d].port)
<1>1. InFlight(d) /\ job[d].at = "run" /\ UNCHANGED <<apps, reps>>
  BY DEF InFlight, At, RunContainer, RunFails, tables
<1>2. Listed(a)'
  BY <1>1 DEF Listed, Fine, RepsOf
<1>3. ~Excused(a) => FirstOf(a) \subseteq {c}
  BY <1>1 DEF Fine, Kempt, Deploying
<1>4. c.app = a /\ c.n = 1 /\ c.srv = n
  BY DEF Container
<1>5. ASSUME boxes' = Started(n, c), Records(d, "health") PROVE Tends(a)
  <2>1. ~Excused(a) => FirstOf(a)' \subseteq {c}
    BY <1>3, <1>5 DEF Started, FirstOf, BoxesOf
  <2>2. CASE Step(d, "health")
    <3>1. Turned(d, "running", "health", "start")
      BY <1>1, <2>2, DeployTurns
    <3>2. OwnSrv(a) /\ Undoable(a)'
      BY <3>1 DEF OwnSrv, Undoable, Turned
    <3>3. ~Excused(a) => Kempt(a)'
      BY <1>1, <1>4, <2>1, <3>1 DEF Fine, Kempt, Deploying, ToUndo, Turned, RepsOf
    <3> QED
      BY <1>2, <3>2, <3>3 DEF Tends, Answers
  <2>3. CASE Dies
    <3>1. Still(d)
      BY <1>1, <2>3, DeployTurns
    <3>2. OwnSrv(a) /\ Undoable(a)'
      BY <3>1 DEF OwnSrv, Undoable, Still
    <3>3. ~Excused(a) => Kempt(a)'
      BY <1>1, <2>1, <3>1 DEF Fine, Kempt, Deploying, ToUndo, Still, RepsOf
    <3> QED
      BY <1>2, <3>2, <3>3 DEF Tends, Answers
  <2> QED
    BY <1>5, <2>2, <2>3 DEF Records
<1>6. ASSUME c \notin boxes, Throw(d), boxes' = boxes PROVE Tends(a)
  <2>1. ~Excused(a) => FirstOf(a)' = {}
    BY <1>3, <1>6 DEF FirstOf, BoxesOf
  <2> QED
    BY <1>1, <1>2, <1>6, <2>1, ThrowTends
<1>7. ASSUME boxes' = boxes \ Squatter(n, c), Throw(d) PROVE Tends(a)
  <2>1. ~Excused(a) => FirstOf(a)' = {}
    BY <1>3, <1>4, <1>7 DEF FirstOf, BoxesOf, Squatter
  <2> QED
    BY <1>1, <1>2, <1>7, <2>1, ThrowTends
<1>8. ASSUME HostSilent, Throw(d) PROVE Tends(a)
  <2>1. budget'.silent
    BY <1>8 DEF HostSilent, BudgetOk, Alike
  <2> QED
    BY <1>1, <1>2, <1>8, <2>1, ThrowTends
<1>9. CASE RunContainer(a)
  BY <1>5, <1>6, <1>9 DEF RunContainer
<1>10. CASE RunFails(a)
  BY <1>7, <1>8, <1>10 DEF RunFails
<1> QED
  BY <1>9, <1>10

LEMMA HealthTends ==
  ASSUME FleetInv, NEW a \in App, Fine(a), job[<<"deploy", a>>].st = "running",
         HealthCheck(a) \/ FinalizeDeploy(a)
  PROVE  Tends(a)
<1> DEFINE d == <<"deploy", a>>
<1>1. InFlight(d) /\ job[d].at \in {"health", "scale"} /\ UNCHANGED <<apps, reps, boxes>>
  BY DEF InFlight, At, HealthCheck, FinalizeDeploy, tables, world
<1>2. Listed(a)' /\ FirstOf(a)' = FirstOf(a) /\ RepsOf(a)' = RepsOf(a)
  BY <1>1 DEF Listed, Fine, RepsOf, FirstOf, BoxesOf
<1>3. ~Excused(a) => \A b \in FirstOf(a) : b.srv = job[d].srv
  BY <1>1 DEF Fine, Kempt, Deploying
<1>4. CASE Throw(d)
  BY <1>1, <1>2, <1>3, <1>4, ThrowTends
<1>5. CASE Step(d, "scale")
  <2>1. Turned(d, "running", "scale", "start")
    BY <1>1, <1>5, DeployTurns
  <2>2. OwnSrv(a) /\ Undoable(a)'
    BY <2>1 DEF OwnSrv, Undoable, Turned
  <2>3. ~Excused(a) => Kempt(a)'
    BY <1>1, <1>2, <1>3, <2>1 DEF Fine, Kempt, Deploying, ToUndo, Turned
  <2> QED
    BY <1>2, <2>2, <2>3 DEF Tends, Answers
<1>6. CASE End(d, "done")
  <2>1. Turned(d, "done", job[d].at, job[d].pc)
    BY <1>1, <1>6, DeployTurns
  <2>2. OwnSrv(a) /\ Undoable(a)' /\ Kempt(a)'
    BY <2>1 DEF OwnSrv, Undoable, Turned, Kempt, Deploying, ToUndo
  <2> QED
    BY <1>2, <2>2 DEF Tends, Answers
<1> QED
  BY <1>4, <1>5, <1>6 DEF HealthCheck, FinalizeDeploy

(* The name of one more replica is not that of the first.                  *)
LEMMA LeastOf == ASSUME NEW S \in SUBSET Nat, S # {} PROVE Min(S) \in S
<1>1. PICK i \in S : \A j \in S : ~ (<<j, i>> \in OpToRel(<, Nat))
  BY NatLessThanWellFounded, WFMin
<1>2. \A j, k \in Nat : j < k => <<j, k>> \in OpToRel(<, Nat)
  BY Zenon DEF OpToRel
<1>3. \A j \in S : ~ (j < i)
  BY <1>1, <1>2
<1>4. \A j \in S : i <= j
  BY <1>3
<1> QED
  BY <1>4 DEF Min

LEMMA NotTheFirstName ==
  ASSUME NEW a, IsFiniteSet(RepsOf(a)), RepsOf(a) # {} PROVE FreshName(a, Cardinality(RepsOf(a))) # 1
<1> DEFINE k == Cardinality(RepsOf(a))
           range == (k + 1) .. (k + 1 + k)
           free == {n \in range : \A r \in RepsOf(a) : r.n # n}
<1>1. k \in Nat /\ k # 0
  BY FS_CardinalityType, FS_EmptySet
<1>2. free # {}
  <2> SUFFICES ASSUME free = {} PROVE FALSE
    OBVIOUS
  <2> DEFINE f == [n \in range |-> CHOOSE r \in RepsOf(a) : r.n = n]
  <2>1. \A n \in range : f[n] \in RepsOf(a) /\ f[n].n = n
    OBVIOUS
  <2>2. IsFiniteSet(range) /\ Cardinality(range) = k + 1
    BY <1>1, FS_Interval
  <2>3. f \in [range -> RepsOf(a)]
    BY <2>1
  <2>4. \E x, y \in range : x # y /\ f[x] = f[y]
    <3> HIDE DEF f, range
    <3>1. Cardinality(RepsOf(a)) < Cardinality(range)
      BY <1>1, <2>2
    <3> QED
      BY <2>2, <2>3, <3>1, FS_PigeonHole
  <2> QED
    BY <2>1, <2>4
<1>3. free \in SUBSET Nat
  BY <1>1
<1>4. Min(free) \in free
  BY <1>2, <1>3, LeastOf
<1> QED
  BY <1>1, <1>4 DEF FreshName

LEMMA ReserveTends ==
  ASSUME FleetInv, NEW a \in App, Fine(a), job[<<"deploy", a>>].st = "running", ReserveHostPort(a)
  PROVE  Tends(a)
<1> DEFINE d == <<"deploy", a>>
           new == FreshName(a, Cardinality(RepsOf(a)))
<1>1. InFlight(d) /\ job[d].at = "scale" /\ a \in apps /\ UNCHANGED <<apps, reps, boxes>>
  BY DEF InFlight, At, ReserveHostPort, world
<1>2. d \in Slot /\ Alike(job[d], NoJob) /\ job = [t \in Slot |-> job[t]]
  BY <1>1, WhileDeployed
<1>3. Listed(a)' /\ FirstOf(a)' = FirstOf(a) /\ RepsOf(a)' = RepsOf(a)
  BY <1>1 DEF Listed, Fine, RepsOf, FirstOf, BoxesOf
<1>4. ~Excused(a) => \A b \in FirstOf(a) : b.srv = job[d].srv
  BY <1>1 DEF Fine, Kempt, Deploying
<1>5. CASE Throw(d)
  BY <1>1, <1>3, <1>4, <1>5, ThrowTends
<1>6. ASSUME NEW n, NEW p, job' = [job EXCEPT ![d].pc = "place", ![d].to = n, ![d].port = p, ![d].new = new]
      PROVE  Tends(a)
  <2>1. job'[d] = [job[d] EXCEPT !.pc = "place", !.to = n, !.port = p, !.new = new]
    BY <1>2, <1>6
  <2>2. /\ job'[d].st = "running" /\ job'[d].at = "scale" /\ job'[d].srv = job[d].srv /\ job'[d].new = new
    <3>1. job'[d].new = new
      BY <1>2, <2>1 DEF Alike, NoJob
    <3>2. job'[d].st = job[d].st /\ job'[d].at = job[d].at /\ job'[d].srv = job[d].srv
      BY <1>2, <2>1 DEF Alike, NoJob
    <3> QED
      BY <1>1, <3>1, <3>2
  <2>3. OwnSrv(a) /\ Undoable(a)'
    BY <2>2 DEF OwnSrv, Undoable
  <2>4. ASSUME ~Excused(a) PROVE Kempt(a)'
    <3>1. PICK r \in RepsOf(a) : r.n = 1 /\ r.srv = job[d].srv
      BY <1>1, <2>4 DEF Fine, Kempt, Deploying
    <3>2. new # 1
      BY <3>1, NotTheFirstName DEF Fine, Listed
    <3> QED
      BY <1>3, <1>4, <2>2, <2>4, <3>1, <3>2 DEF Kempt, Deploying, ToUndo
  <2> QED
    BY <1>3, <2>3, <2>4 DEF Tends, Answers
<1> QED
  BY <1>5, <1>6 DEF ReserveHostPort

LEMMA ScaleTends ==
  ASSUME FleetInv, NEW a \in App, Fine(a), job[<<"deploy", a>>].st = "running",
         ScaleStarts(a) \/ ScaleInserts(a)
  PROVE  Tends(a)
<1> DEFINE d == <<"deploy", a>>
           c == NewContainer(d)
<1>1. InFlight(d) /\ job[d].at = "scale" /\ job[d].pc \in {"place", "probe"} /\ apps' = apps
  BY DEF InFlight, At, ScaleStarts, ScaleInserts, StartReplica, InsertReplica, SetupFails, tables
<1>2. ~Excused(a) => job[d].new # 1 /\ \A b \in FirstOf(a) : b.srv = job[d].srv
  BY <1>1 DEF Fine, Kempt, Deploying
<1>3. c.app = a /\ c.n = job[d].new
  BY DEF NewContainer, Container
<1>4. ASSUME Throw(d), boxes' \subseteq boxes, reps' = reps PROVE Tends(a)
  <2>1. Listed(a)' /\ FirstOf(a)' \subseteq FirstOf(a)
    BY <1>1, <1>4 DEF Listed, Fine, RepsOf, FirstOf, BoxesOf
  <2> QED
    BY <1>1, <1>2, <1>4, <2>1, ThrowTends
<1>5. ASSUME NEW pc, Goto(d, pc), boxes' \subseteq boxes \cup {c},
             reps' = reps \/ (a \in apps /\ reps' = reps \cup {c})
      PROVE  Tends(a)
  <2>1. Turned(d, "running", "scale", pc)
    BY <1>1, <1>5, DeployTurns
  <2>2. OwnSrv(a) /\ Undoable(a)'
    BY <2>1 DEF OwnSrv, Undoable, Turned
  <2>3. RepsOf(a)' \subseteq RepsOf(a) \cup {c} /\ RepsOf(a) \subseteq RepsOf(a)'
    BY <1>5 DEF RepsOf
  <2>4. IsFiniteSet(RepsOf(a)')
    BY <2>3, FS_Subset, FS_AddElement DEF Fine, Listed
  <2>5. Listed(a)'
    BY <1>1, <1>5, <2>4 DEF Listed, Fine, RepsOf
  <2>6. ASSUME ~Excused(a) PROVE Kempt(a)'
    <3>1. FirstOf(a)' \subseteq FirstOf(a)
      BY <1>2, <1>3, <1>5, <2>6 DEF FirstOf, BoxesOf
    <3>2. a \in apps => \E r \in RepsOf(a)' : r.n = 1 /\ r.srv = job[d].srv
      BY <1>1, <2>3, <2>6 DEF Fine, Kempt, Deploying
    <3> QED
      BY <1>1, <1>2, <2>1, <2>6, <3>1, <3>2 DEF Kempt, Deploying, ToUndo, Turned
  <2> QED
    BY <2>2, <2>5, <2>6 DEF Tends, Answers
<1>6. CASE ScaleStarts(a)
  BY <1>4, <1>5, <1>6 DEF ScaleStarts, StartReplica, SetupFails, Started, Removed, tables
<1>7. CASE ScaleInserts(a)
  <2>1. d[2] = a
    OBVIOUS
  <2> QED
    BY <1>4, <1>5, <1>7, <2>1 DEF ScaleInserts, InsertReplica, SetupFails, Removed, world
<1> QED
  BY <1>6, <1>7

LEMMA UndoTends ==
  ASSUME FleetInv, BudgetOk, NEW a \in App, Fine(a), job[<<"deploy", a>>].st = "undoing",
         UndoRun(a) \/ UndoInsert(a) \/ UndoPick(a)
  PROVE  Tends(a)
<1> DEFINE d == <<"deploy", a>>
<1>1. d \in Slot /\ InFlight(d) /\ Alike(job[d], NoJob) /\ JobsOk
  BY WhileDeployed DEF InFlight
<1>2. job[d].left \in Shapes
  BY DEF Fine, Undoable
<1>3. CASE UndoRun(a)
  <2>1. job[d].left = <<"run", "insert", "pick">> /\ UNCHANGED <<apps, reps>> /\ Undone(d)
    BY <1>2, <1>3 DEF UndoRun, Undoes, Shapes, tables
  <2>2. job'[d].st = "undoing" /\ job'[d].left = <<"insert", "pick">> /\ job'[d].srv = job[d].srv
    <3>1. Len(job[d].left) # 1 /\ Tail(job[d].left) = <<"insert", "pick">>
      BY <2>1
    <3>2. Becomes(d, [job[d] EXCEPT !.left = <<"insert", "pick">>])
      BY <1>1, <2>1, <3>1, Undoing
    <3> QED
      BY <1>1, <3>2 DEF Becomes, Alike, NoJob
  <2>3. OwnSrv(a) /\ Undoable(a)' /\ Listed(a)'
    BY <2>1, <2>2 DEF OwnSrv, Undoable, Shapes, Listed, Fine, RepsOf
  <2>4. CASE HostSilent
    BY <2>3, <2>4 DEF HostSilent, BudgetOk, Alike, Tends, Answers
  <2>5. CASE boxes' = boxes \ Squatter(job[d].srv, Container(a, 1, job[d].srv, job[d].port))
    <3>1. ASSUME ~Excused(a) PROVE FirstOf(a)' = {}
      <4>1. \A b \in FirstOf(a) : b.srv = job[d].srv
        BY <2>1, <3>1 DEF Fine, Kempt, ToUndo
      <4> QED
        BY <2>5, <4>1 DEF FirstOf, BoxesOf, Squatter, Container
    <3>2. ~Excused(a) => Kempt(a)'
      BY <2>2, <3>1 DEF Kempt, Deploying, ToUndo
    <3> QED
      BY <2>3, <3>2 DEF Tends, Answers
  <2> QED
    BY <1>3, <2>4, <2>5 DEF UndoRun
<1>4. CASE UndoInsert(a)
  <2>1. job[d].left = <<"insert", "pick">> /\ boxes' = boxes /\ a \notin apps' /\ RepsOf(a)' = {} /\ Undone(d)
    BY <1>2, <1>4 DEF UndoInsert, Undoes, Shapes, RepsOf, world
  <2>2. job'[d].st = "undoing" /\ job'[d].left = <<"pick">> /\ job'[d].srv = job[d].srv
    <3>1. Len(job[d].left) # 1 /\ Tail(job[d].left) = <<"pick">>
      BY <2>1
    <3>2. Becomes(d, [job[d] EXCEPT !.left = <<"pick">>])
      BY <1>1, <2>1, <3>1, Undoing
    <3> QED
      BY <1>1, <3>2 DEF Becomes, Alike, NoJob
  <2>3. OwnSrv(a) /\ Undoable(a)' /\ Listed(a)'
    BY <2>1, <2>2, FS_EmptySet DEF OwnSrv, Undoable, Shapes, Listed
  <2>4. ~Excused(a) => Kempt(a)'
    BY <2>1, <2>2 DEF Fine, Kempt, Deploying, ToUndo, FirstOf, BoxesOf
  <2> QED
    BY <2>3, <2>4 DEF Tends, Answers
<1>5. CASE UndoPick(a)
  <2>1. job[d].left = <<"pick">> /\ UNCHANGED <<apps, reps, boxes>> /\ Undone(d)
    BY <1>2, <1>5 DEF UndoPick, Undoes, Shapes, world
  <2>2. job'[d].st = "compensated" /\ job'[d].srv = job[d].srv
    BY <1>1, <2>1, Undoing DEF Becomes, Alike, NoJob
  <2>3. OwnSrv(a) /\ Undoable(a)' /\ Listed(a)'
    BY <2>1, <2>2 DEF OwnSrv, Undoable, Listed, Fine, RepsOf
  <2>4. ~Excused(a) => Kempt(a)'
    BY <2>1, <2>2 DEF Fine, Kempt, Deploying, ToUndo, FirstOf, BoxesOf
  <2> QED
    BY <2>3, <2>4 DEF Tends, Answers
<1> QED
  BY <1>3, <1>4, <1>5

LEMMA DeploysTend ==
  ASSUME FleetInv, BudgetOk, NEW a \in App, Fine(a), Deploys(a) PROVE Tends(a)
BY DeployTends, PickingTends, InsertTends, RunTends, HealthTends, ReserveTends, ScaleTends, UndoTends DEF Deploys

LEMMA DeployInvBegins == ASSUME FleetInit PROVE DeployInv
<1>1. DOMAIN Home \subseteq App
  BY FleetAssumption
<1>2. BudgetOk
  BY DEF FleetInit, BudgetOk, Alike
<1>3. ASSUME NEW a \in App PROVE Fine(a)
  <2>1. job[<<"deploy", a>>] = NoJob
    BY Slots DEF FleetInit
  <2>2. job[<<"deploy", a>>].st = "idle"
    BY <2>1 DEF NoJob
  <2> DEFINE c == Container(a, 1, Home[a], FirstPort)
  <2>3. /\ \A r \in reps : r.app \in apps
        /\ \A b \in boxes : b.app \in apps
        /\ RepsOf(a) \subseteq {c}
    BY DEF FleetInit, RepsOf, Container
  <2>4. IsFiniteSet(RepsOf(a))
    <3>1. IsFiniteSet({c})
      BY FS_Singleton
    <3> QED
      BY <2>3, <3>1, FS_Subset
  <2>5. Undoable(a) /\ Listed(a)
    BY <2>2, <2>3, <2>4 DEF Undoable, Listed, RepsOf
  <2>6. Kempt(a)
    BY <2>2, <2>3 DEF Kempt, Deploying, ToUndo, FirstOf, BoxesOf
  <2> QED
    BY <2>5, <2>6 DEF Fine
<1> QED
  BY <1>2, <1>3 DEF DeployInv, Fine

LEMMA EveryStepIsFine == ASSUME FleetInv, DeployInv, Next PROVE DeployInv'
<1>1. Spends
  BY EveryStepSpends DEF DeployInv
<1>2. ASSUME NEW a \in App PROVE Fine(a)'
  <2>1. Fine(a)
    BY DEF DeployInv, Fine
  <2>2. CASE Deploys(a)
    <3>1. StepTo(<<"deploy", a>>) /\ <<"deploy", a>> \in Slot
      BY <2>2, DeploysKeep, Slots DEF Keeps
    <3> QED
      BY <1>1, <2>1, <2>2, <3>1, DeploysTend, TendedIsFine DEF DeployInv
  <2>3. CASE Moves(a)
    BY <1>1, <2>1, <2>3, OwnMoveKeeps
  <2>4. CASE ~Deploys(a) /\ ~Moves(a)
    BY <1>1, <2>1, <2>4, OthersLessen, OthersKeep
  <2> QED
    BY <2>2, <2>3, <2>4
<1> QED
  BY <1>1, <1>2 DEF DeployInv, Fine, Spends

LEMMA DeployInvHolds == Spec => []DeployInv
<1>1. FleetInit => DeployInv
  BY DeployInvBegins
<1>2. FleetInv /\ DeployInv /\ [Next]_vars => DeployInv'
  <2>1. ASSUME DeployInv, UNCHANGED vars PROVE DeployInv'
    BY <2>1 DEF vars, DeployInv, BudgetOk, Undoable, Listed, Excused, Kempt, Deploying, ToUndo, FirstOf, BoxesOf,
                RepsOf, Here
  <2> QED
    BY <2>1, EveryStepIsFine
<1> QED
  BY <1>1, <1>2, FleetInvHolds, PTL DEF Spec

(* A deployment that is compensated is gone: wherever the engine died on   *)
(* the way, its app and its replicas have no rows and its first container  *)
(* is removed, if every host did answer, the server is still known and no  *)
(* migration came in between (the compensations of deploy).                *)
THEOREM CompensationLeavesNothing == Spec => CompensatedDeployIsGone
<1>1. FleetInv /\ DeployInv /\ [Next]_vars =>
        [\A a \in App :
           Ended(<<"deploy", a>>, "compensated") /\ ~budget'.silent
           /\ Here(job[<<"deploy", a>>].srv) /\ job[<<"migrate", a>>].st = "idle" =>
             a \notin apps' /\ {r \in reps' : r.app = a} = {} /\ ~\E b \in boxes' : b.app = a /\ b.n = 1]_vars
  <2> SUFFICES ASSUME FleetInv, DeployInv, Next, NEW a \in App, Ended(<<"deploy", a>>, "compensated"),
                      ~budget'.silent, Here(job[<<"deploy", a>>].srv), job[<<"migrate", a>>].st = "idle"
               PROVE  a \notin apps' /\ {r \in reps' : r.app = a} = {} /\ ~\E b \in boxes' : b.app = a /\ b.n = 1
    OBVIOUS
  <2>1. Deploys(a)
    <3>1. ~Still(<<"deploy", a>>)
      BY DEF Ended, Still
    <3>2. ~Moves(a)
      BY <3>1, MovesKeep, JobsKept, Slots DEF Keeps, StepTo, FleetInv
    <3> QED
      BY <3>1, <3>2, OthersLessen
  <2>2. Tends(a)
    BY <2>1, DeploysTend DEF DeployInv, Fine
  <2>3. ~Excused(a)
    <3>1. budget.silent => budget'.silent
      BY EveryStepSpends DEF DeployInv, Spends
    <3> QED
      BY <3>1 DEF Excused
  <2>4. Kempt(a)' /\ Listed(a)'
    BY <2>2, <2>3 DEF Tends, Answers
  <2>5. a \notin apps' /\ FirstOf(a)' = {} /\ RepsOf(a)' = {}
    BY <2>4 DEF Kempt, Listed, Ended
  <2> QED
    BY <2>5 DEF FirstOf, BoxesOf, RepsOf
<1> QED
  BY <1>1, FleetInvHolds, DeployInvHolds, PTL DEF Spec, CompensatedDeployIsGone
-----------------------------------------------------------------------------
(***************************************************************************)
(* Where a migration leaves the app.                                       *)
(*                                                                         *)
(* An app that was deployed in the beginning has one replica.  Until its   *)
(* migration stops the container nothing has happened to it or its volume  *)
(* (Early); from then on Moving says, step by step, where the container,   *)
(* the replica's row and the volume are.  Only a migration of its own and  *)
(* the loss of a machine change that, since it has the app's key.          *)
(***************************************************************************)
FirstReplica(a) == Container(a, 1, Home[a], FirstPort)
Resting(a) == job[<<"deploy", a>>].st = "idle"

Performs(m, pcs) == job[m].st = "running" /\ job[m].at = "perform" /\ job[m].pc \in pcs
Verifies(m) == job[m].st = "running" /\ job[m].at = "verify"
Early(m) ==
  \/ job[m].st = "idle"
  \/ job[m].st = "running" /\ job[m].sure /\ job[m].at = "validate"
  \/ job[m].sure /\ Performs(m, {"start", "preflight", "stop"})

Held(a) ==
  LET m == <<"migrate", a>>
  IN  /\ a \in DOMAIN Home /\ Source(m) = FirstReplica(a) /\ a \in job[m].lock
      /\ job[m].at \in {"validate", "perform", "verify"}
      /\ job[m].at # "validate" => job[m].srv # job[m].to

Unmoved(a) == vol[a] = Home[a] /\ FirstReplica(a) \in boxes

Moving(a) ==
  LET m == <<"migrate", a>>
      to == job[m].to
  IN  /\ job[m].st = "idle" => \A r \in RepsOf(a) : a \in DOMAIN Home /\ r = FirstReplica(a)
      /\ job[m].st = "running" => Held(a)
      /\ Performs(m, {"place", "probe", "drop", "sync"}) \/ Verifies(m) =>
           vol[a] \in {None, to} \/ machine[to] = 0
      /\ Performs(m, {"sync"}) \/ Verifies(m) => Source(m) \notin reps
      /\ job[m].st = "running" /\ job[m].at # "validate" /\ ~budget.silent =>
           Source(m) \notin boxes \/ Source(m) \in reps
      /\ Performs(m, {"detach", "attach", "place", "probe", "drop"}) /\ ~budget.silent /\ HasVolume(m) =>
           Source(m) \notin boxes
      /\ Early(m) /\ a \in apps /\ HasVolume(m) /\ machine[Home[a]] # 0 => Unmoved(a)

Volumed(a) ==
  LET m == <<"migrate", a>>
  IN  /\ a \in Portable => Resting(a)
      /\ HasVolume(m) => a \in Portable
      /\ Performs(m, {"stop", "detach", "attach", "back"}) => HasVolume(m)

VolumesOk == vol = [a \in App |-> vol[a]]
BoxesOk == \A b \in boxes : b.srv \in Server /\ machine[b.srv] # 0
OldOk == \A n \in Old : machine[n] = 0 \/ row[n].known

MoveInv == VolumesOk /\ BoxesOk /\ OldOk /\ \A a \in App : Volumed(a) /\ (Resting(a) => Moving(a))

(* A container is started only on a machine that is there. *)
LEMMA ContainersStartWhereUp ==
  ASSUME FleetInv, Next, NEW x \in boxes' \ boxes PROVE x.srv \in Server /\ Up(x.srv)
<1>1. \A s, c : Startable(s, c) => Up(s)
  BY DEF Startable
<1>2. ASSUME NEW a \in App, Deploys(a) PROVE x.srv \in Server /\ Up(x.srv)
  <2> DEFINE d == <<"deploy", a>>
  <2>1. CASE RunContainer(a) \/ RunFails(a)
    <3> DEFINE c == Container(a, 1, job[d].srv, job[d].port)
    <3>1. x = c /\ Startable(job[d].srv, c) /\ job[d].at = "run"
      BY <2>1 DEF RunContainer, RunFails, Started, At
    <3>2. job[d].srv \in Server /\ x.srv = job[d].srv
      BY <3>1, BuiltIsServer DEF Container, FleetInv, DeployOk
    <3> QED
      BY <1>1, <3>1, <3>2
  <2>2. CASE ScaleStarts(a) \/ ScaleInserts(a)
    <3>1. x = NewContainer(d) /\ Startable(job[d].to, NewContainer(d)) /\ At(d, "scale", "place")
      BY <2>2 DEF ScaleStarts, ScaleInserts, StartReplica, InsertReplica, SetupFails, Started, Removed, world
    <3>2. job[d].to \in Server /\ x.srv = job[d].to
      BY <3>1, BuiltIsServer DEF NewContainer, Container, FleetInv, DeployOk
    <3> QED
      BY <1>1, <3>1, <3>2
  <2>3. CASE \/ Deploy(a) \/ PickServer(a) \/ OwnRow(a) \/ OwnMachine(a) \/ OwnReady(a) \/ InsertApp(a)
             \/ HealthCheck(a) \/ ReserveHostPort(a) \/ FinalizeDeploy(a)
             \/ UndoRun(a) \/ UndoInsert(a) \/ UndoPick(a)
    BY <2>3 DEF Deploy, PickServer, OwnRow, OwnMachine, OwnReady, InsertApp, HealthCheck, ReserveHostPort,
                FinalizeDeploy, UndoRun, UndoInsert, UndoPick, world
  <2> QED
    BY <1>2, <2>1, <2>2, <2>3 DEF Deploys
<1>3. ASSUME NEW a \in App, Moves(a) PROVE x.srv \in Server /\ Up(x.srv)
  <2> DEFINE m == <<"migrate", a>>
  <2>1. job[m].st # "idle" => job[m].srv \in Server /\ job[m].to \in Server
    BY BuiltIsServer DEF FleetInv, MigrateOk
  <2>2. CASE StartOnTarget(a) \/ InsertOnTarget(a)
    <3>1. x = NewContainer(m) /\ Startable(job[m].to, NewContainer(m)) /\ At(m, "perform", "place")
      BY <2>2 DEF StartOnTarget, InsertOnTarget, StartReplica, InsertReplica, SetupFails, Started, Removed, world
    <3>2. job[m].to \in Server /\ x.srv = job[m].to
      BY <2>1, <3>1 DEF NewContainer, Container, At
    <3> QED
      BY <1>1, <3>1, <3>2
  <2>3. CASE RollBack(a) \/ RollBackFails(a)
    <3>1. x = Source(m) /\ Startable(job[m].srv, Source(m)) /\ At(m, "perform", "back")
      BY <2>3 DEF RollBack, RollBackFails, Started
    <3>2. job[m].srv \in Server /\ x.srv = job[m].srv
      BY <2>1, <3>1 DEF Source, Container, At
    <3> QED
      BY <1>1, <3>1, <3>2
  <2>4. CASE (\E r \in reps, n \in Server : Migrate(a, r, n)) \/ LoadAndValidate(a) \/ MigrateReplica(a)
             \/ PortPreflight(a) \/ StopSource(a) \/ DetachVolume(a) \/ AttachVolume(a) \/ DropSource(a)
             \/ SyncMoved(a) \/ VerifyMoved(a)
    BY <2>4 DEF Migrate, LoadAndValidate, MigrateReplica, PortPreflight, StopSource, DetachVolume, AttachVolume,
                DropSource, SyncMoved, VerifyMoved, world
  <2> QED
    BY <1>3, <2>2, <2>3, <2>4 DEF Moves
<1>4. CASE Crash
  BY <1>4 DEF Crash, world
<1>5. ASSUME NEW n \in Server, Provisions(n) PROVE FALSE
  BY <1>5 DEF Provisions, ProvisionServer, InsertServerRow, CreateCloudServer, BootServer, BootFails, MarkReady,
              UndoCreate, UndoCreateFails, UndoRow, Demolish, world
<1>6. ASSUME NEW n \in Server, Destroys(n) PROVE FALSE
  BY <1>6 DEF Destroys, DestroyServer, ListApps, ChildrenOver, DeleteCloudServer, DeleteCloudServerFails,
              DeleteServerRows, ChildDestroys, ChildEnds, DestroyApp, Demolish, world
<1>7. ASSUME NEW n \in Server, Collects(n) PROVE FALSE
  BY <1>7 DEF Collects, GcChecks, GcDeletes, GcFails, GcForgets, Demolish, world
<1>8. ASSUME NEW a \in App, DestroyRequested(a) PROVE FALSE
  BY <1>8 DEF DestroyRequested, DestroyApp
<1> QED
  BY <1>2, <1>3, <1>4, <1>5, <1>6, <1>7, <1>8 DEF Next

(* Machines are ordered one at a time and take what is on them with them.  *)
LEMMA MachinesGoAlone ==
  ASSUME Next
  PROVE  \/ machine' = machine
         \/ \E n \in Server : machine' = [machine EXCEPT ![n] = @ + 1] /\ boxes' = boxes
         \/ \E n \in Server : Demolish(n)
<1>1. CASE Crash
  BY <1>1 DEF Crash, world
<1>2. ASSUME NEW n \in Server, Provisions(n)
      PROVE  \/ machine' = machine
             \/ machine' = [machine EXCEPT ![n] = @ + 1] /\ boxes' = boxes
             \/ Demolish(n)
  BY <1>2 DEF Provisions, ProvisionServer, InsertServerRow, CreateCloudServer, CreateMachine, BootServer, BootFails,
              MarkReady, UndoCreate, UndoCreateFails, UndoRow, world
<1>3. ASSUME NEW n \in Server, Destroys(n) PROVE machine' = machine \/ Demolish(n)
  BY <1>3 DEF Destroys, DestroyServer, ListApps, ChildrenOver, DeleteCloudServer, DeleteCloudServerFails,
              DeleteServerRows, ChildDestroys, ChildEnds, DestroyApp, world
<1>4. ASSUME NEW n \in Server, Collects(n) PROVE machine' = machine \/ Demolish(n)
  BY <1>4 DEF Collects, GcChecks, GcDeletes, GcFails, GcForgets, world
<1>5. ASSUME NEW a \in App, DestroyRequested(a) PROVE machine' = machine
  BY <1>5 DEF DestroyRequested, DestroyApp
<1>6. ASSUME NEW a \in App, Deploys(a)
      PROVE  \/ machine' = machine
             \/ machine' = [machine EXCEPT ![Own[a]] = @ + 1] /\ boxes' = boxes
  <2>1. CASE OwnMachine(a)
    BY <2>1 DEF OwnMachine, CreateMachine
  <2>2. CASE \/ Deploy(a) \/ PickServer(a) \/ OwnRow(a) \/ OwnReady(a) \/ InsertApp(a) \/ RunContainer(a)
             \/ RunFails(a) \/ HealthCheck(a) \/ ReserveHostPort(a) \/ FinalizeDeploy(a)
             \/ UndoRun(a) \/ UndoInsert(a) \/ UndoPick(a)
    BY <2>2 DEF Deploy, PickServer, OwnRow, OwnReady, InsertApp, RunContainer, RunFails, HealthCheck,
                ReserveHostPort, FinalizeDeploy, UndoRun, UndoInsert, UndoPick, world
  <2>3. CASE ScaleStarts(a) \/ ScaleInserts(a)
    BY <2>3 DEF ScaleStarts, ScaleInserts, StartReplica, InsertReplica, SetupFails, world
  <2> QED
    BY <1>6, <2>1, <2>2, <2>3 DEF Deploys
<1>7. ASSUME NEW a \in App, Moves(a) PROVE machine' = machine
  <2>1. CASE StartOnTarget(a) \/ InsertOnTarget(a)
    BY <2>1 DEF StartOnTarget, InsertOnTarget, StartReplica, InsertReplica, SetupFails, world
  <2>2. CASE (\E r \in reps, n \in Server : Migrate(a, r, n)) \/ LoadAndValidate(a) \/ MigrateReplica(a)
             \/ PortPreflight(a) \/ StopSource(a) \/ DetachVolume(a) \/ AttachVolume(a) \/ DropSource(a)
             \/ SyncMoved(a) \/ RollBack(a) \/ RollBackFails(a) \/ VerifyMoved(a)
    BY <2>2 DEF Migrate, LoadAndValidate, MigrateReplica, PortPreflight, StopSource, DetachVolume, AttachVolume,
                DropSource, SyncMoved, RollBack, RollBackFails, VerifyMoved, world
  <2> QED
    BY <1>7, <2>1, <2>2 DEF Moves
<1>8. \A a \in App : Own[a] \in Server
  BY FleetAssumption
<1> QED
  BY <1>1, <1>2, <1>3, <1>4, <1>5, <1>6, <1>7, <1>8 DEF Next

(* A server that is known stays known as long as it has a row.             *)
KnownStays == \A n \in Server : row[n].known /\ Here(n)' => row'[n].known

LEMMA KnownByMarking ==
  ASSUME RowsOk, NEW k, NEW n, NEW left,
         \/ row' = row
         \/ row' = GcIfEmpty(row, left, n)
         \/ row' = [row EXCEPT ![n].gc = k]
         \/ row' = [row EXCEPT ![n].st = k]
         \/ row' = [row EXCEPT ![n] = NoRow]
         \/ row' = [row EXCEPT ![n].st = k, ![n].known = TRUE]
         \/ row' = [row EXCEPT ![n] = IF Here(n) THEN @ ELSE [NoRow EXCEPT !.st = k]]
  PROVE  KnownStays
<1> SUFFICES ASSUME NEW x \in Server, row[x].known, row'[x].st # "none" PROVE row'[x].known
  BY DEF KnownStays, Here
<1>1. Alike(row[x], NoRow) /\ Here(x) /\ row = [y \in Server |-> row[y]]
  BY DEF RowsOk
<1>2. CASE row' = row
  BY <1>2
<1>3. CASE n # x
  BY <1>1, <1>3 DEF GcIfEmpty
<1>4. CASE n = x
  <2> DEFINE v == {r \in left : r.srv = n} = {}
  <2>1. \/ row'[x] = row[x]
        \/ row'[x] = [row[x] EXCEPT !.gc = Here(x) /\ v]
        \/ row'[x] = [row[x] EXCEPT !.gc = k]
        \/ row'[x] = [row[x] EXCEPT !.st = k]
        \/ row'[x] = NoRow
        \/ row'[x] = [row[x] EXCEPT !.st = k, !.known = TRUE]
    BY <1>1, <1>4 DEF GcIfEmpty
  <2>2. CASE row'[x] = NoRow
    <3>1. row'[x].st = "none"
      BY <2>2 DEF NoRow
    <3> QED
      BY <3>1
  <2>3. CASE row'[x] = [row[x] EXCEPT !.st = k, !.known = TRUE]
    <3>1. row'[x].known = TRUE
      BY <1>1, <2>3 DEF Alike, NoRow
    <3> QED
      BY <3>1
  <2>4. ASSUME NEW g, row'[x] \in {row[x], [row[x] EXCEPT !.gc = g], [row[x] EXCEPT !.st = g]} PROVE row'[x].known
    <3>1. row'[x].known = row[x].known
      BY <1>1, <2>4 DEF Alike, NoRow
    <3> QED
      BY <3>1
  <2> QED
    BY <2>1, <2>2, <2>3, <2>4
<1> QED
  BY <1>3, <1>4

LEMMA EveryStepKeepsKnown == ASSUME FleetInv, Next PROVE KnownStays
<1> USE DEF FleetInv
<1>1. ASSUME row' = row PROVE KnownStays
  BY <1>1, KnownByMarking
<1>2. ASSUME NEW n, NEW left, row' = GcIfEmpty(row, left, n) PROVE KnownStays
  BY <1>2, KnownByMarking
<1>3. ASSUME NEW n, row' = [row EXCEPT ![n] = NoRow] PROVE KnownStays
  BY <1>3, KnownByMarking
<1>4. ASSUME NEW n, NEW k,
             \/ row' = [row EXCEPT ![n].gc = k]
             \/ row' = [row EXCEPT ![n].st = k]
             \/ row' = [row EXCEPT ![n].st = k, ![n].known = TRUE]
             \/ row' = [row EXCEPT ![n] = IF Here(n) THEN @ ELSE [NoRow EXCEPT !.st = k]]
      PROVE  KnownStays
  BY <1>4, KnownByMarking
<1>5. ASSUME NEW a, DestroyApp(a) PROVE KnownStays
  <2> SUFFICES ASSUME NEW x \in Server, row[x].known PROVE row'[x].known
    BY DEF KnownStays
  <2> DEFINE left == reps \ RepsOf(a)
  <2>1. Alike(row[x], NoRow) /\ row = [y \in Server |-> row[y]]
    BY DEF RowsOk
  <2>2. row'[x] \in {row[x], GcIfEmpty(row, left, x)[x]}
    BY <1>5 DEF DestroyApp
  <2>3. GcIfEmpty(row, left, x)[x] = [row[x] EXCEPT !.gc = Here(x) /\ {r \in left : r.srv = x} = {}]
    BY <2>1 DEF GcIfEmpty
  <2>4. row'[x].known = row[x].known
    BY <2>1, <2>2, <2>3 DEF Alike, NoRow
  <2> QED
    BY <2>4
<1>6. CASE Crash
  BY <1>1, <1>6 DEF Crash, tables
<1>7. ASSUME NEW n \in Server, Provisions(n) PROVE KnownStays
  <2>1. CASE InsertServerRow(n) \/ MarkReady(n) \/ UndoRow(n)
    BY <1>1, <1>3, <1>4, <2>1 DEF InsertServerRow, MarkReady, UndoRow, Forget
  <2>2. CASE CreateCloudServer(n)
    BY <1>1, <1>4, <2>2 DEF CreateCloudServer, CreateMachine
  <2>3. CASE ProvisionServer(n) \/ BootServer(n) \/ BootFails(n) \/ UndoCreate(n) \/ UndoCreateFails(n)
    BY <1>1, <2>3 DEF ProvisionServer, BootServer, BootFails, UndoCreate, UndoCreateFails, tables
  <2> QED
    BY <1>7, <2>1, <2>2, <2>3 DEF Provisions
<1>8. ASSUME NEW n \in Server, Destroys(n) PROVE KnownStays
  <2>1. CASE \E a \in App : ChildDestroys(n, a)
    BY <1>5, <2>1 DEF ChildDestroys
  <2>2. CASE \E a \in App : ChildEnds(n, a)
    <3>1. row' = row \/ \E k : row' = [row EXCEPT ![n].st = k]
      BY <2>2 DEF ChildEnds
    <3> QED
      BY <1>1, <1>4, <3>1
  <2>3. CASE DeleteCloudServerFails(n) \/ DeleteServerRows(n)
    BY <1>3, <1>4, <2>3 DEF DeleteCloudServerFails, DeleteServerRows, Forget
  <2>4. CASE DestroyServer(n) \/ ListApps(n) \/ ChildrenOver(n) \/ DeleteCloudServer(n)
    BY <1>1, <2>4 DEF DestroyServer, ListApps, ChildrenOver, DeleteCloudServer, tables
  <2> QED
    BY <1>8, <2>1, <2>2, <2>3, <2>4 DEF Destroys
<1>9. ASSUME NEW n \in Server, Collects(n) PROVE KnownStays
  BY <1>1, <1>3, <1>4, <1>9 DEF Collects, GcChecks, GcDeletes, GcFails, GcForgets, Forget, tables
<1>10. ASSUME NEW a \in App, DestroyRequested(a) PROVE KnownStays
  BY <1>5, <1>10 DEF DestroyRequested
<1>11. ASSUME NEW a \in App, Deploys(a) PROVE KnownStays
  <2>1. CASE OwnRow(a) \/ OwnReady(a)
    BY <1>1, <1>4, <2>1 DEF OwnRow, OwnReady
  <2>2. CASE OwnMachine(a)
    BY <1>1, <1>3, <1>4, <2>2 DEF OwnMachine, CreateMachine
  <2>3. CASE \/ Deploy(a) \/ PickServer(a) \/ InsertApp(a) \/ RunContainer(a) \/ RunFails(a) \/ HealthCheck(a)
             \/ ReserveHostPort(a) \/ FinalizeDeploy(a) \/ UndoRun(a) \/ UndoInsert(a) \/ UndoPick(a)
    BY <1>1, <1>2, <2>3 DEF Deploy, PickServer, InsertApp, RunContainer, RunFails, HealthCheck, ReserveHostPort,
                FinalizeDeploy, UndoRun, UndoInsert, UndoPick, tables
  <2>4. CASE ScaleStarts(a) \/ ScaleInserts(a)
    BY <1>1, <1>2, <2>4 DEF ScaleStarts, ScaleInserts, StartReplica, InsertReplica, SetupFails, tables
  <2> QED
    BY <1>11, <2>1, <2>2, <2>3, <2>4 DEF Deploys
<1>12. ASSUME NEW a \in App, Moves(a) PROVE KnownStays
  <2>1. CASE StartOnTarget(a) \/ InsertOnTarget(a)
    BY <1>1, <1>2, <2>1 DEF StartOnTarget, InsertOnTarget, StartReplica, InsertReplica, SetupFails, tables
  <2>2. CASE SyncMoved(a) \/ VerifyMoved(a)
    BY <1>1, <1>2, <2>2 DEF SyncMoved, VerifyMoved
  <2>3. CASE (\E r \in reps, n \in Server : Migrate(a, r, n)) \/ LoadAndValidate(a) \/ MigrateReplica(a)
             \/ PortPreflight(a) \/ StopSource(a) \/ DetachVolume(a) \/ AttachVolume(a) \/ DropSource(a)
             \/ RollBack(a) \/ RollBackFails(a)
    BY <1>1, <2>3 DEF Migrate, LoadAndValidate, MigrateReplica, PortPreflight, StopSource, DetachVolume, AttachVolume,
                DropSource, RollBack, RollBackFails, tables
  <2> QED
    BY <1>12, <2>1, <2>2, <2>3 DEF Moves
<1> QED
  BY <1>6, <1>7, <1>8, <1>9, <1>10, <1>11, <1>12 DEF Next

(* A machine that is gone stays gone, unless it is being made.             *)
LEMMA GoneStays ==
  ASSUME FleetInv, NEW s \in Slot, StepTo(s), NEW n, Built(n), machine[n] = 0 PROVE machine'[n] = 0
<1>1. n \in Server /\ machine \in [Server -> {0, 1}] /\ ~Making(n)
  BY BuiltIsServer, MakingIsNotBuilt DEF FleetInv, MachineInv
<1> QED
  BY <1>1 DEF StepTo, MachinesTo, Kept, Gone, Ordered

LEMMA OldOkLasts == ASSUME FleetInv, OldOk, Next PROVE OldOk'
<1>1. SUFFICES ASSUME NEW n \in Old PROVE machine'[n] = 0 \/ row'[n].known
  BY DEF OldOk
<1>2. PICK s \in Slot : StepTo(s)
  BY EveryStepKeeps DEF Keeps
<1>3. Built(n) /\ n \in Server
  BY FleetAssumption DEF Built
<1>4. CASE machine[n] = 0
  BY <1>2, <1>3, <1>4, GoneStays
<1>5. CASE row[n].known
  <2>1. Here(n)' => row'[n].known
    BY <1>3, <1>5, EveryStepKeepsKnown DEF KnownStays
  <2>2. ~Here(n)' => machine'[n] = 0
    BY <1>2, <1>3, <1>5 DEF StepTo, RowsTo, RowTo
  <2> QED
    BY <2>1, <2>2
<1> QED
  BY <1>4, <1>5 DEF OldOk

LEMMA BoxesOkLasts == ASSUME FleetInv, BoxesOk, Next PROVE BoxesOk'
<1>1. SUFFICES ASSUME NEW b \in boxes' PROVE b.srv \in Server /\ machine'[b.srv] # 0
  BY DEF BoxesOk
<1>2. machine \in [Server -> {0, 1}]
  BY DEF FleetInv, MachineInv
<1>3. b.srv \in Server /\ machine[b.srv] # 0
  BY <1>2, ContainersStartWhereUp DEF BoxesOk, Up
<1>4. ASSUME NEW n \in Server, Demolish(n) PROVE machine'[b.srv] # 0
  BY <1>2, <1>3, <1>4 DEF Demolish
<1>5. ASSUME NEW n \in Server, machine' = [machine EXCEPT ![n] = @ + 1] PROVE machine'[b.srv] # 0
  BY <1>2, <1>3, <1>5
<1> QED
  BY <1>3, <1>4, <1>5, MachinesGoAlone

(* What the others leave of an app: its migration waits; its volume and    *)
(* its containers go only with their machine or with the app, and an app   *)
(* whose key an operation has does not go.                                 *)
Waits(s) ==
  \/ job'[s] = job[s]
  \/ job'[s] = [job[s] EXCEPT !.pc = "start", !.sure = FALSE]
GivenUp(a) == a \in apps /\ a \notin apps' /\ ~Locked(a)
VolumeSpared(a) ==
  \/ vol'[a] = vol[a]
  \/ vol[a] \in Server /\ machine'[vol[a]] = 0 /\ vol'[a] # None
  \/ vol[a] # None /\ vol'[a] # None /\ GivenUp(a)
BoxesSpared(a) == \A b \in BoxesOf(a) : b \in boxes' \/ machine'[b.srv] = 0 \/ GivenUp(a)
Spares(a) == (a \in apps => a \in apps' \/ GivenUp(a)) /\ VolumeSpared(a) /\ BoxesSpared(a)

LEMMA AsBefore ==
  ASSUME NEW a, apps \subseteq apps', vol' = vol, BoxesOf(a) \subseteq BoxesOf(a)' PROVE Spares(a)
BY DEF Spares, VolumeSpared, BoxesSpared, BoxesOf

LEMMA SparedByDemolition ==
  ASSUME MachineInv, VolumesOk, NEW a \in App, NEW n \in Server, Demolish(n), apps' = apps PROVE Spares(a)
<1>1. machine'[n] = 0 /\ None # "free"
  BY FleetAssumption DEF Demolish, MachineInv
<1>2. vol'[a] = IF vol[a] = n THEN "free" ELSE vol[a]
  BY DEF Demolish
<1>3. VolumeSpared(a)
  BY <1>1, <1>2 DEF VolumeSpared
<1>4. BoxesSpared(a)
  BY <1>1 DEF Demolish, BoxesSpared, BoxesOf
<1> QED
  BY <1>3, <1>4 DEF Spares

LEMMA SparedByDestruction ==
  ASSUME VolumesOk, NEW a \in App, NEW b, DestroyApp(b) PROVE Spares(a)
<1>1. CASE a = b
  <2>1. GivenUp(a)
    BY <1>1 DEF DestroyApp, GivenUp
  <2>2. vol'[a] = IF vol[a] = None THEN None ELSE "free"
    BY <1>1 DEF DestroyApp, VolumesOk
  <2> QED
    BY <2>1, <2>2, FleetAssumption DEF Spares, VolumeSpared, BoxesSpared
<1>2. CASE a # b
  <2>1. vol'[a] = vol[a]
    BY <1>2 DEF DestroyApp, VolumesOk
  <2>2. BoxesOf(a) \subseteq boxes' /\ (a \in apps => a \in apps')
    BY <1>2 DEF DestroyApp, BoxesOf
  <2> QED
    BY <2>1, <2>2 DEF Spares, VolumeSpared, BoxesSpared
<1> QED
  BY <1>1, <1>2

LEMMA OthersSpare ==
  ASSUME FleetInv, VolumesOk, Next, NEW a \in App, ~Deploys(a), ~Moves(a)
  PROVE  Spares(a) /\ Waits(<<"migrate", a>>)
<1> DEFINE m == <<"migrate", a>>
<1>1. ASSUME NEW s \in Slot, Keeps(s), s # m PROVE Waits(m)
  <2>1. m \in Slot /\ JobsTo(s) /\ JobsOk
    BY <1>1, Slots DEF Keeps, StepTo, FleetInv
  <2>2. CASE Moved(s)
    BY <1>1, <2>1, <2>2 DEF Moved, Waits, JobsOk
  <2>3. CASE job' = job \/ Restarted
    BY <2>1, <2>3 DEF Restarted, Waits
  <2> QED
    BY <2>1, <2>2, <2>3 DEF JobsTo
<1>2. MachineInv
  BY DEF FleetInv
<1>3. CASE Crash
  <2>1. Spares(a)
    BY <1>3, AsBefore DEF Crash, tables, world, BoxesOf
  <2>2. Waits(m)
    BY <1>1, <1>3, CrashKeeps, Slots
  <2> QED
    BY <2>1, <2>2
<1>4. ASSUME NEW n \in Server, Provisions(n) PROVE Spares(a) /\ Waits(m)
  <2>1. Waits(m)
    BY <1>1, <1>4, ProvisionsKeep, Slots
  <2>2. apps' = apps /\ (Demolish(n) \/ (boxes' = boxes /\ vol' = vol))
    BY <1>4 DEF Provisions, ProvisionServer, InsertServerRow, CreateCloudServer, BootServer, BootFails, MarkReady,
                UndoCreate, UndoCreateFails, UndoRow, tables, world
  <2> QED
    BY <1>2, <2>1, <2>2, SparedByDemolition, AsBefore DEF BoxesOf
<1>5. ASSUME NEW n \in Server, Destroys(n) PROVE Spares(a) /\ Waits(m)
  <2>1. Waits(m)
    BY <1>1, <1>5, DestroysKeep, Slots
  <2>2. \/ \E b : DestroyApp(b)
        \/ apps' = apps /\ (Demolish(n) \/ (boxes' = boxes /\ vol' = vol))
    BY <1>5 DEF Destroys, DestroyServer, ListApps, ChildrenOver, DeleteCloudServer, DeleteCloudServerFails,
                DeleteServerRows, ChildDestroys, ChildEnds, tables, world
  <2> QED
    BY <1>2, <2>1, <2>2, SparedByDestruction, SparedByDemolition, AsBefore DEF BoxesOf
<1>6. ASSUME NEW n \in Server, Collects(n) PROVE Spares(a) /\ Waits(m)
  <2>1. Waits(m)
    BY <1>1, <1>6, CollectsKeep, Slots
  <2>2. apps' = apps /\ (Demolish(n) \/ (boxes' = boxes /\ vol' = vol))
    BY <1>6 DEF Collects, GcChecks, GcDeletes, GcFails, GcForgets, tables, world
  <2> QED
    BY <1>2, <2>1, <2>2, SparedByDemolition, AsBefore DEF BoxesOf
<1>7. ASSUME NEW b \in App, DestroyRequested(b) PROVE Spares(a) /\ Waits(m)
  BY <1>7, SparedByDestruction DEF DestroyRequested, Waits
<1>8. ASSUME NEW b \in App, b # a, Deploys(b) PROVE Spares(a) /\ Waits(m)
  <2>1. Waits(m)
    BY <1>1, <1>8, DeploysKeep, Slots
  <2>2. vol' = vol
    <3>1. CASE ScaleStarts(b) \/ ScaleInserts(b)
      BY <3>1 DEF ScaleStarts, ScaleInserts, StartReplica, InsertReplica, SetupFails, world
    <3>2. CASE \/ Deploy(b) \/ PickServer(b) \/ OwnRow(b) \/ OwnMachine(b) \/ OwnReady(b) \/ InsertApp(b)
               \/ RunContainer(b) \/ RunFails(b) \/ HealthCheck(b) \/ ReserveHostPort(b) \/ FinalizeDeploy(b)
               \/ UndoRun(b) \/ UndoInsert(b) \/ UndoPick(b)
      BY <3>2 DEF Deploy, PickServer, OwnRow, OwnMachine, OwnReady, InsertApp, RunContainer, RunFails, HealthCheck,
                  ReserveHostPort, FinalizeDeploy, UndoRun, UndoInsert, UndoPick, world
    <3> QED
      BY <1>8, <3>1, <3>2 DEF Deploys
  <2>3. a \in apps => a \in apps'
    <3>1. CASE ScaleStarts(b) \/ ScaleInserts(b)
      BY <3>1 DEF ScaleStarts, ScaleInserts, StartReplica, InsertReplica, SetupFails, tables
    <3>2. CASE \/ Deploy(b) \/ PickServer(b) \/ OwnRow(b) \/ OwnMachine(b) \/ OwnReady(b) \/ InsertApp(b)
               \/ RunContainer(b) \/ RunFails(b) \/ HealthCheck(b) \/ ReserveHostPort(b) \/ FinalizeDeploy(b)
               \/ UndoRun(b) \/ UndoInsert(b) \/ UndoPick(b)
      BY <1>8, <3>2 DEF Deploy, PickServer, OwnRow, OwnMachine, OwnReady, InsertApp, RunContainer, RunFails,
                  HealthCheck, ReserveHostPort, FinalizeDeploy, UndoRun, UndoInsert, UndoPick, tables
    <3> QED
      BY <1>8, <3>1, <3>2 DEF Deploys
  <2>4. BoxesOf(a) \subseteq boxes'
    <3>1. CASE ScaleStarts(b) \/ ScaleInserts(b)
      BY <1>8, <3>1 DEF ScaleStarts, ScaleInserts, StartReplica, InsertReplica, SetupFails, Started, Removed, Squatter,
                  NewContainer, Container, BoxesOf, world
    <3>2. CASE RunContainer(b) \/ RunFails(b) \/ UndoRun(b)
      BY <1>8, <3>2 DEF RunContainer, RunFails, UndoRun, Started, Squatter, Container, BoxesOf
    <3>3. CASE \/ Deploy(b) \/ PickServer(b) \/ OwnRow(b) \/ OwnMachine(b) \/ OwnReady(b) \/ InsertApp(b)
               \/ HealthCheck(b) \/ ReserveHostPort(b) \/ FinalizeDeploy(b) \/ UndoInsert(b) \/ UndoPick(b)
      BY <3>3 DEF Deploy, PickServer, OwnRow, OwnMachine, OwnReady, InsertApp, HealthCheck, ReserveHostPort,
                  FinalizeDeploy, UndoInsert, UndoPick, BoxesOf, world
    <3> QED
      BY <1>8, <3>1, <3>2, <3>3 DEF Deploys
  <2> QED
    BY <2>1, <2>2, <2>3, <2>4 DEF Spares, VolumeSpared, BoxesSpared
<1>9. ASSUME NEW b \in App, b # a, Moves(b) PROVE Spares(a) /\ Waits(m)
  <2>1. Waits(m)
    BY <1>1, <1>9, MovesKeep, Slots
  <2>2. vol'[a] = vol[a]
    <3>1. CASE StartOnTarget(b) \/ InsertOnTarget(b)
      BY <3>1 DEF StartOnTarget, InsertOnTarget, StartReplica, InsertReplica, SetupFails, world
    <3>2. CASE DetachVolume(b) \/ AttachVolume(b) \/ RollBack(b) \/ RollBackFails(b)
      BY <1>9, <3>2 DEF DetachVolume, AttachVolume, RollBack, RollBackFails, VolumesOk
    <3>3. CASE (\E r \in reps, n \in Server : Migrate(b, r, n)) \/ LoadAndValidate(b) \/ MigrateReplica(b)
               \/ PortPreflight(b) \/ StopSource(b) \/ DropSource(b) \/ SyncMoved(b) \/ VerifyMoved(b)
      BY <3>3 DEF Migrate, LoadAndValidate, MigrateReplica, PortPreflight, StopSource, DropSource, SyncMoved,
                  VerifyMoved, world
    <3> QED
      BY <1>9, <3>1, <3>2, <3>3 DEF Moves
  <2>3. apps' = apps
    <3>1. CASE StartOnTarget(b) \/ InsertOnTarget(b)
      BY <3>1 DEF StartOnTarget, InsertOnTarget, StartReplica, InsertReplica, SetupFails, tables
    <3>2. CASE (\E r \in reps, n \in Server : Migrate(b, r, n)) \/ LoadAndValidate(b) \/ MigrateReplica(b)
               \/ PortPreflight(b) \/ StopSource(b) \/ DetachVolume(b) \/ AttachVolume(b) \/ DropSource(b)
               \/ SyncMoved(b) \/ RollBack(b) \/ RollBackFails(b) \/ VerifyMoved(b)
      BY <3>2 DEF Migrate, LoadAndValidate, MigrateReplica, PortPreflight, StopSource, DetachVolume, AttachVolume,
                  DropSource, SyncMoved, RollBack, RollBackFails, VerifyMoved, tables
    <3> QED
      BY <1>9, <3>1, <3>2 DEF Moves
  <2>4. BoxesOf(a) \subseteq boxes'
    <3>1. CASE StartOnTarget(b) \/ InsertOnTarget(b)
      BY <1>9, <3>1 DEF StartOnTarget, InsertOnTarget, StartReplica, InsertReplica, SetupFails, Started, Removed,
                  Squatter, NewContainer, Container, BoxesOf, world
    <3>2. CASE StopSource(b) \/ DropSource(b) \/ RollBack(b) \/ RollBackFails(b)
      BY <1>9, <3>2 DEF StopSource, DropSource, RollBack, RollBackFails, Started, Squatter, Source, Container, BoxesOf
    <3>3. CASE (\E r \in reps, n \in Server : Migrate(b, r, n)) \/ LoadAndValidate(b) \/ MigrateReplica(b)
               \/ PortPreflight(b) \/ DetachVolume(b) \/ AttachVolume(b) \/ SyncMoved(b) \/ VerifyMoved(b)
      BY <3>3 DEF Migrate, LoadAndValidate, MigrateReplica, PortPreflight, DetachVolume, AttachVolume, SyncMoved,
                  VerifyMoved, BoxesOf, world
    <3> QED
      BY <1>9, <3>1, <3>2, <3>3 DEF Moves
  <2> QED
    BY <2>1, <2>2, <2>3, <2>4 DEF Spares, VolumeSpared, BoxesSpared
<1> QED
  BY <1>3, <1>4, <1>5, <1>6, <1>7, <1>8, <1>9 DEF Next

(* A step of others. *)
LEMMA OthersMoveNothing ==
  ASSUME FleetInv, FleetInv', DeployInv, MoveInv, BoxesOk', OldOk', Next, NEW a \in App, ~Deploys(a), ~Moves(a)
  PROVE  Volumed(a)' /\ (Resting(a)' => Moving(a)')
<1> DEFINE m == <<"migrate", a>>
           d == <<"deploy", a>>
           Steady == job'[m].pc = job[m].pc /\ job'[m].sure = job[m].sure
           Again == job'[m].pc = "start" /\ job'[m].sure = FALSE
<1>1. Spares(a) /\ Waits(m)
  BY OthersSpare DEF MoveInv
<1>2. PICK s \in Slot : StepTo(s)
  BY OthersLessen
<1>3. Lessens(a) /\ Still(d) /\ Spends
  BY OthersLessen, EveryStepSpends DEF DeployInv
<1>4. /\ job'[m].st = job[m].st /\ job'[m].at = job[m].at /\ job'[m].lock = job[m].lock /\ job'[m].n = job[m].n
      /\ job'[m].srv = job[m].srv /\ job'[m].to = job[m].to /\ job'[m].port = job[m].port
      /\ Steady \/ Again
  <2>1. Alike(job[m], NoJob)
    BY Slots DEF FleetInv, JobsOk
  <2> QED
    BY <1>1, <2>1 DEF Waits, Alike, NoJob
<1>5. HasVolume(m)' <=> HasVolume(m)
  BY <1>1, FleetAssumption DEF Spares, VolumeSpared, HasVolume
<1>6. Source(m)' = Source(m)
  BY <1>4 DEF Source
<1>7. \A pcs : "start" \notin pcs => (Performs(m, pcs)' => Performs(m, pcs))
  BY <1>4 DEF Performs
<1>8. Verifies(m)' => Verifies(m)
  BY <1>4 DEF Verifies
<1>9. Volumed(a)'
  <2>1. Resting(a)' <=> Resting(a)
    BY <1>3 DEF Resting, Still
  <2>2. Volumed(a)
    BY DEF MoveInv
  <2>3. Performs(m, {"stop", "detach", "attach", "back"})' => Performs(m, {"stop", "detach", "attach", "back"})
    BY <1>7
  <2> QED
    BY <1>5, <2>1, <2>2, <2>3 DEF Volumed
<1>10. ASSUME Resting(a)' PROVE Moving(a)'
  <2>1. Moving(a)
    BY <1>3, <1>10 DEF MoveInv, Resting, Still
  <2>2. \A r \in reps' : r.app = a => r \in reps
    BY <1>3 DEF Lessens, RepsOf
  <2>3. \A b \in boxes' : b.app = a => b \in boxes
    BY <1>3 DEF Lessens, BoxesOf
  <2>4. Source(m).app = a /\ FirstReplica(a).app = a
    BY DEF Source, FirstReplica, Container
  <2>5. job[m].st = "running" /\ a \in apps => a \in apps'
    <3>1. job[m].st = "running" => Locked(a)
      BY <2>1, Slots DEF Moving, Held, Locked, InFlight
    <3> QED
      BY <1>1, <3>1 DEF Spares, GivenUp
  <2>6. (job[m].st = "idle" => \A r \in RepsOf(a) : a \in DOMAIN Home /\ r = FirstReplica(a))'
    BY <1>4, <2>1, <2>2 DEF Moving, RepsOf, FirstReplica
  <2>7. (job[m].st = "running" => Held(a))'
    BY <1>4, <1>6, <2>1 DEF Moving, Held, FirstReplica
  <2>8. ASSUME Performs(m, {"place", "probe", "drop", "sync"})' \/ Verifies(m)'
        PROVE  vol'[a] \in {None, job'[m].to} \/ machine'[job'[m].to] = 0
    <3>1. Performs(m, {"place", "probe", "drop", "sync"}) \/ Verifies(m)
      BY <1>7, <1>8, <2>8
    <3>2. job[m].st = "running" /\ job[m].at \in {"perform", "verify"}
      BY <3>1 DEF Performs, Verifies
    <3>3. Built(job[m].to)
      BY <3>2 DEF FleetInv, MigrateOk
    <3>4. machine[job[m].to] = 0 => machine'[job[m].to] = 0
      BY <1>2, <3>3, GoneStays
    <3>5. GivenUp(a) => FALSE
      BY <2>5, <3>2 DEF GivenUp
    <3>6. vol[a] \in {None, job[m].to} \/ machine[job[m].to] = 0
      BY <2>1, <3>1 DEF Moving
    <3>7. vol'[a] = vol[a] \/ (vol[a] \in Server /\ machine'[vol[a]] = 0)
      BY <1>1, <3>5 DEF Spares, VolumeSpared
    <3>8. None \notin Server
      BY FleetAssumption
    <3> QED
      BY <1>4, <3>4, <3>6, <3>7, <3>8
  <2>9. (Performs(m, {"sync"}) \/ Verifies(m) => Source(m) \notin reps)'
    <3>1. Performs(m, {"sync"})' \/ Verifies(m)' => Performs(m, {"sync"}) \/ Verifies(m)
      BY <1>7, <1>8
    <3>2. Performs(m, {"sync"})' \/ Verifies(m)' => Source(m)' \notin reps'
      BY <1>6, <2>1, <2>2, <2>4, <3>1 DEF Moving
    <3> QED
      BY <3>2
  <2>10. ASSUME job'[m].st = "running", job'[m].at # "validate", ~budget'.silent, Source(m) \in boxes'
         PROVE  Source(m) \in reps'
    <3>1. Source(m) \in reps
      BY <1>3, <1>4, <2>1, <2>3, <2>4, <2>10 DEF Moving, Spends
    <3>2. a \in apps /\ a \in apps'
      <4>1. Source(m) \in RepsOf(a)
        BY <2>4, <3>1 DEF RepsOf
      <4>2. a \in apps
        BY <4>1 DEF DeployInv, Listed
      <4> QED
        BY <1>4, <2>5, <2>10, <4>2
    <3>3. Source(m).srv \in Old
      <4>1. Source(m) = FirstReplica(a) /\ a \in DOMAIN Home
        BY <1>4, <2>1, <2>10 DEF Moving, Held
      <4> QED
        BY <4>1, FleetAssumption DEF FirstReplica, Container
    <3>4. Source(m).srv \in Server /\ machine'[Source(m).srv] # 0
      BY <2>10 DEF BoxesOk
    <3>5. row'[Source(m).srv].known
      BY <3>3, <3>4 DEF OldOk
    <3>6. row'[Source(m).srv].st # "none"
      BY <3>4, <3>5 DEF FleetInv, RowsOk, Here
    <3>7. Source(m) \in reps' \/ row'[Source(m).srv].st = "none"
      BY <1>3, <2>4, <3>1, <3>2 DEF Lessens, RepsOf, Here
    <3> QED
      BY <3>6, <3>7
  <2>11. ASSUME Performs(m, {"detach", "attach", "place", "probe", "drop"})', ~budget'.silent, HasVolume(m)'
         PROVE  Source(m) \notin boxes'
    <3>1. Performs(m, {"detach", "attach", "place", "probe", "drop"})
      BY <1>7, <2>11
    <3> QED
      BY <1>3, <1>5, <2>1, <2>3, <2>4, <2>11, <3>1 DEF Moving, Spends
  <2>12. ASSUME Early(m)', a \in apps', HasVolume(m)', machine'[Home[a]] # 0
         PROVE  Unmoved(a)'
    <3>1. Early(m)
      BY <1>4, <2>12 DEF Early, Performs
    <3>2. Home[a] \in Old /\ Home[a] \in Server /\ Built(Home[a])
      BY <1>5, <2>12, FleetAssumption DEF MoveInv, Volumed, Built
    <3>3. machine[Home[a]] # 0
      BY <1>2, <2>12, <3>2, GoneStays
    <3>4. Unmoved(a)
      BY <1>3, <1>5, <2>1, <2>12, <3>1, <3>3 DEF Moving, Lessens
    <3>5. ~GivenUp(a)
      BY <2>12 DEF GivenUp
    <3>6. vol'[a] = vol[a]
      BY <1>1, <2>12, <3>4, <3>5 DEF Spares, VolumeSpared, Unmoved
    <3>7. FirstReplica(a) \in BoxesOf(a) /\ FirstReplica(a).srv = Home[a]
      BY <3>4 DEF Unmoved, FirstReplica, Container, BoxesOf
    <3>8. FirstReplica(a) \in boxes'
      BY <1>1, <2>12, <3>5, <3>7 DEF Spares, BoxesSpared
    <3> QED
      BY <3>4, <3>6, <3>8 DEF Unmoved, FirstReplica
  <2>13. (job[m].st = "running" /\ job[m].at # "validate" /\ ~budget.silent => Source(m) \notin boxes \/ Source(m) \in reps)'
    BY <1>6, <2>10
  <2>14. (Performs(m, {"detach", "attach", "place", "probe", "drop"}) /\ ~budget.silent /\ HasVolume(m) => Source(m) \notin boxes)'
    BY <1>6, <2>11
  <2>15. (Early(m) /\ a \in apps /\ HasVolume(m) /\ machine[Home[a]] # 0 => Unmoved(a))'
    BY <2>12
  <2> QED
    BY <2>6, <2>7, <2>8, <2>9, <2>13, <2>14, <2>15 DEF Moving
<1> QED
  BY <1>9, <1>10

(* How a migration turns. *)
SameMove(m) ==
  /\ job'[m].srv = job[m].srv /\ job'[m].to = job[m].to /\ job'[m].n = job[m].n
  /\ job'[m].port = job[m].port
Goes(m, at, pc) ==
  /\ SameMove(m) /\ job'[m].st = job[m].st /\ job'[m].lock = job[m].lock /\ job'[m].sure = job[m].sure
  /\ job'[m].at = at /\ job'[m].pc = pc
Ends(m) == SameMove(m) /\ job'[m].st \notin {"idle", "running"}

LEMMA MoveTurns ==
  ASSUME FleetInv, NEW a \in App, job[<<"migrate", a>>].st = "running"
  PROVE  /\ \A pc : Goto(<<"migrate", a>>, pc) => Goes(<<"migrate", a>>, job[<<"migrate", a>>].at, pc)
         /\ \A at : Step(<<"migrate", a>>, at) => Goes(<<"migrate", a>>, at, "start")
         /\ End(<<"migrate", a>>, "failed") \/ End(<<"migrate", a>>, "done") => Ends(<<"migrate", a>>)
<1> DEFINE m == <<"migrate", a>>
<1>1. m \in Slot /\ Alike(job[m], NoJob) /\ job = [t \in Slot |-> job[t]]
  BY WhileMigrated
<1>2. ASSUME NEW pc, Goto(m, pc) PROVE Goes(m, job[m].at, pc)
  <2>1. job'[m] = [job[m] EXCEPT !.pc = pc]
    BY <1>1, <1>2 DEF Goto
  <2> QED
    BY <1>1, <2>1 DEF Goes, SameMove, Alike, NoJob
<1>3. ASSUME NEW at, Step(m, at) PROVE Goes(m, at, "start")
  <2>1. job'[m] = [job[m] EXCEPT !.at = at, !.pc = "start"]
    BY <1>1, <1>3 DEF Step
  <2> QED
    BY <1>1, <2>1 DEF Goes, SameMove, Alike, NoJob
<1>4. ASSUME NEW st \in {"failed", "done"}, End(m, st) PROVE Ends(m)
  <2>1. job'[m] = [job[m] EXCEPT !.st = st, !.lock = {}]
    BY <1>1, <1>4 DEF End
  <2> QED
    BY <1>1, <2>1 DEF Ends, SameMove, Alike, NoJob
<1> QED
  BY <1>2, <1>3, <1>4

(* What remains to be shown of a step of the migration itself. *)
StaysSo(a) == Volumed(a)' /\ (Resting(a) => Moving(a)')

LEMMA EndedMoves ==
  ASSUME NEW a \in App, Volumed(a), Resting(a)' <=> Resting(a), Ends(<<"migrate", a>>), HasVolume(<<"migrate", a>>)' => HasVolume(<<"migrate", a>>)
  PROVE  StaysSo(a)
<1> DEFINE m == <<"migrate", a>>
<1>1. ~Early(m)' /\ ~Verifies(m)' /\ (\A pcs : ~Performs(m, pcs)') /\ job'[m].st # "idle" /\ job'[m].st # "running"
  BY DEF Ends, Early, Verifies, Performs
<1>2. Moving(a)'
  BY <1>1 DEF Moving
<1>3. Volumed(a)'
  BY <1>1 DEF Volumed
<1> QED
  BY <1>2, <1>3 DEF StaysSo

(* It goes on: of the conditions of Moving, those that bind it then.       *)
LEMMA GoneOn ==
  ASSUME NEW a \in App, Volumed(a), Resting(a)' <=> Resting(a), Resting(a) => Moving(a), Spends,
         HasVolume(<<"migrate", a>>)' => HasVolume(<<"migrate", a>>),
         NEW at \in {"perform", "verify"}, NEW pc, Goes(<<"migrate", a>>, at, pc),
         job[<<"migrate", a>>].st = "running",
         job[<<"migrate", a>>].at = "validate" => job[<<"migrate", a>>].srv # job[<<"migrate", a>>].to,
         at = "perform" /\ pc \in {"stop", "detach", "attach", "back"} => HasVolume(<<"migrate", a>>)',
         Resting(a) /\ ((at = "perform" /\ pc \in {"place", "probe", "drop", "sync"}) \/ at = "verify") =>
           vol'[a] \in {None, job[<<"migrate", a>>].to} \/ machine'[job[<<"migrate", a>>].to] = 0,
         Resting(a) /\ ((at = "perform" /\ pc = "sync") \/ at = "verify") => Source(<<"migrate", a>>) \notin reps',
         Resting(a) /\ ~budget'.silent => Source(<<"migrate", a>>) \notin boxes' \/ Source(<<"migrate", a>>) \in reps',
         Resting(a) /\ at = "perform" /\ pc \in {"detach", "attach", "place", "probe", "drop"} /\ ~budget'.silent /\ HasVolume(<<"migrate", a>>)' =>
           Source(<<"migrate", a>>) \notin boxes',
         at = "perform" /\ pc \in {"start", "preflight", "stop"} =>
           (job[<<"migrate", a>>].sure => Early(<<"migrate", a>>)) /\ UNCHANGED <<apps, machine, vol, boxes>>
  PROVE  StaysSo(a)
<1> DEFINE m == <<"migrate", a>>
<1>1. Source(m)' = Source(m)
  BY DEF Goes, SameMove, Source
<1>2. job'[m].st = "running" /\ job'[m].at = at /\ job'[m].pc = pc /\ job'[m].to = job[m].to /\ job'[m].sure = job[m].sure
      /\ job'[m].lock = job[m].lock /\ job'[m].srv = job[m].srv
  BY DEF Goes, SameMove
<1>3. Volumed(a)'
  BY <1>2 DEF Volumed, Performs
<1>4. ASSUME Resting(a) PROVE Moving(a)'
  <2>1. Moving(a)
    BY <1>4
  <2>2. Held(a)'
    BY <1>1, <1>2, <2>1 DEF Moving, Held, FirstReplica
  <2>3. (Performs(m, {"place", "probe", "drop", "sync"}) \/ Verifies(m) => vol[a] \in {None, job[m].to} \/ machine[job[m].to] = 0)'
    BY <1>2, <1>4 DEF Performs, Verifies
  <2>4. (Performs(m, {"sync"}) \/ Verifies(m) => Source(m) \notin reps)'
    BY <1>1, <1>2, <1>4 DEF Performs, Verifies
  <2>5. (job[m].st = "running" /\ job[m].at # "validate" /\ ~budget.silent => Source(m) \notin boxes \/ Source(m) \in reps)'
    BY <1>1, <1>4
  <2>6. (Performs(m, {"detach", "attach", "place", "probe", "drop"}) /\ ~budget.silent /\ HasVolume(m) => Source(m) \notin boxes)'
    BY <1>1, <1>2, <1>4 DEF Performs
  <2>7. ASSUME Early(m)', a \in apps', HasVolume(m)', machine'[Home[a]] # 0 PROVE Unmoved(a)'
    <3>1. at = "perform" /\ pc \in {"start", "preflight", "stop"} /\ job[m].sure
      BY <1>2, <2>7 DEF Early, Performs
    <3>2. Early(m) /\ UNCHANGED <<apps, machine, vol, boxes>>
      BY <3>1
    <3>3. Unmoved(a)
      BY <2>1, <2>7, <3>2 DEF Moving
    <3> QED
      BY <3>2, <3>3 DEF Unmoved, FirstReplica
  <2>8. (Early(m) /\ a \in apps /\ HasVolume(m) /\ machine[Home[a]] # 0 => Unmoved(a))'
    BY <2>7
  <2> QED
    BY <1>2, <2>2, <2>3, <2>4, <2>5, <2>6, <2>8 DEF Moving
<1> QED
  BY <1>3, <1>4 DEF StaysSo

LEMMA ThrownMove ==
  ASSUME FleetInv, NEW a \in App, Volumed(a), Resting(a)' <=> Resting(a), Resting(a) => Moving(a), Spends,
         job[<<"migrate", a>>].st = "running", job[<<"migrate", a>>].at = "perform", MigrationThrows(<<"migrate", a>>),
         HasVolume(<<"migrate", a>>)' <=> HasVolume(<<"migrate", a>>),
         Resting(a) /\ ~budget'.silent =>
           Source(<<"migrate", a>>) \notin boxes' \/ Source(<<"migrate", a>>) \in reps'
  PROVE  StaysSo(a)
<1> DEFINE m == <<"migrate", a>>
<1>1. CASE HasVolume(m)
  <2>1. Goes(m, "perform", "back")
    BY <1>1, MoveTurns DEF MigrationThrows
  <2> QED
    BY <1>1, <2>1, GoneOn
<1>2. CASE ~HasVolume(m)
  BY <1>2, MoveTurns, EndedMoves DEF MigrationThrows
<1> QED
  BY <1>1, <1>2

LEMMA MigrationBeginsSo ==
  ASSUME FleetInv, NEW a \in App, Volumed(a), Resting(a)' <=> Resting(a), Resting(a) => Moving(a),
         NEW r \in reps, NEW n \in Server, Migrate(a, r, n)
  PROVE  StaysSo(a)
<1> DEFINE m == <<"migrate", a>>
<1>1. /\ job'[m].st = "running" /\ job'[m].at = "validate" /\ job'[m].lock = {a} /\ job'[m].srv = r.srv
      /\ job'[m].n = r.n /\ job'[m].port = r.port
  BY Slots DEF Migrate, FleetInv, JobsOk, NoJob
<1>2. job[m].st = "idle" /\ r \in RepsOf(a) /\ UNCHANGED <<apps, reps, boxes, vol, machine>>
  BY DEF Migrate, tables, world
<1>3. (\A pcs : ~Performs(m, pcs)') /\ ~Verifies(m)'
  BY <1>1 DEF Performs, Verifies
<1>4. Volumed(a)'
  BY <1>2, <1>3 DEF Volumed, HasVolume
<1>5. ASSUME Resting(a) PROVE Moving(a)'
  <2>1. Moving(a)
    BY <1>5
  <2>2. a \in DOMAIN Home /\ r = FirstReplica(a)
    BY <1>2, <2>1 DEF Moving
  <2>3. Source(m)' = FirstReplica(a)
    <3>1. r.srv = Home[a] /\ r.n = 1 /\ r.port = FirstPort
      BY <2>2 DEF FirstReplica, Container
    <3> QED
      BY <1>1, <3>1 DEF Source, FirstReplica
  <2>4. Held(a)'
    BY <1>1, <2>2, <2>3 DEF Held, FirstReplica
  <2>5. (Early(m) /\ a \in apps /\ HasVolume(m) /\ machine[Home[a]] # 0 => Unmoved(a))'
    BY <1>2, <2>1 DEF Moving, Early, Unmoved, FirstReplica, HasVolume
  <2> QED
    BY <1>1, <1>3, <2>4, <2>5 DEF Moving
<1> QED
  BY <1>4, <1>5 DEF StaysSo

LEMMA ReplicaMovesSo ==
  ASSUME FleetInv, NEW a \in App, Volumed(a), Resting(a)' <=> Resting(a), Resting(a) => Moving(a), Spends,
         job[<<"migrate", a>>].st = "running", StartOnTarget(a) \/ InsertOnTarget(a)
  PROVE  StaysSo(a)
<1> DEFINE m == <<"migrate", a>>
<1>1. job[m].at = "perform" /\ job[m].pc \in {"place", "probe"}
  BY DEF StartOnTarget, InsertOnTarget, StartReplica, InsertReplica, At
<1>2. ASSUME Resting(a) PROVE Source(m) # NewContainer(m)
  <2>1. job[m].srv # job[m].to
    BY <1>1, <1>2 DEF Moving, Held
  <2>2. Source(m).srv = job[m].srv /\ NewContainer(m).srv = job[m].to
    BY DEF Source, NewContainer, Container
  <2> QED
    BY <2>1, <2>2
<1>3. HasVolume(m)' <=> HasVolume(m)
  BY DEF StartOnTarget, InsertOnTarget, StartReplica, InsertReplica, SetupFails, world, HasVolume
<1>4. budget.silent => budget'.silent
  BY DEF Spends
<1>5. Resting(a) /\ ~budget.silent => Source(m) \notin boxes \/ Source(m) \in reps
  BY <1>1 DEF Moving
<1>6. Performs(m, {"place", "probe", "drop", "sync"})
  BY <1>1 DEF Performs
<1>7. UNCHANGED <<vol, machine>>
  BY DEF StartOnTarget, InsertOnTarget, StartReplica, InsertReplica, SetupFails, world
<1>8. CASE reps' = reps /\ boxes' \subseteq boxes /\ MigrationThrows(m)
  BY <1>1, <1>3, <1>4, <1>5, <1>8, ThrownMove
<1>9. CASE reps' = reps /\ boxes' = Started(job[m].to, NewContainer(m)) /\ Goto(m, "probe")
  <2>1. Goes(m, "perform", "probe")
    BY <1>1, <1>9, MoveTurns
  <2>2. Resting(a) => (Source(m) \in boxes' => Source(m) \in boxes)
    BY <1>2, <1>9 DEF Started
  <2>3. Resting(a) => vol'[a] \in {None, job[m].to} \/ machine'[job[m].to] = 0
    BY <1>6, <1>7 DEF Moving
  <2>4. Resting(a) /\ ~budget'.silent => Source(m) \notin boxes' \/ Source(m) \in reps'
    BY <1>4, <1>5, <1>9, <2>2
  <2>5. Resting(a) /\ ~budget'.silent /\ HasVolume(m)' => Source(m) \notin boxes'
    <3>1. Performs(m, {"detach", "attach", "place", "probe", "drop"})
      BY <1>1 DEF Performs
    <3> QED
      BY <1>3, <1>4, <2>2, <3>1 DEF Moving
  <2> QED
    BY <1>1, <1>3, <2>1, <2>3, <2>4, <2>5, GoneOn
<1>10. CASE reps' = reps \cup {NewContainer(m)} /\ boxes' = boxes /\ Goto(m, "drop")
  <2>1. Goes(m, "perform", "drop")
    BY <1>1, <1>10, MoveTurns
  <2>2. Resting(a) => vol'[a] \in {None, job[m].to} \/ machine'[job[m].to] = 0
    BY <1>6, <1>7 DEF Moving
  <2>3. Resting(a) /\ ~budget'.silent => Source(m) \notin boxes' \/ Source(m) \in reps'
    BY <1>4, <1>5, <1>10
  <2>4. Resting(a) /\ ~budget'.silent /\ HasVolume(m)' => Source(m) \notin boxes'
    <3>1. Performs(m, {"detach", "attach", "place", "probe", "drop"})
      BY <1>1 DEF Performs
    <3> QED
      BY <1>3, <1>4, <1>10, <3>1 DEF Moving
  <2> QED
    BY <1>1, <1>3, <2>1, <2>2, <2>3, <2>4, GoneOn
<1>11. CASE StartOnTarget(a)
  BY <1>8, <1>9, <1>11 DEF StartOnTarget, StartReplica, SetupFails, Removed, tables
<1>12. CASE InsertOnTarget(a)
  BY <1>8, <1>10, <1>12 DEF InsertOnTarget, InsertReplica, SetupFails, Removed, world
<1> QED
  BY <1>11, <1>12

LEMMA VolumeMovesSo ==
  ASSUME FleetInv, VolumesOk, NEW a \in App, Volumed(a), Resting(a)' <=> Resting(a), Resting(a) => Moving(a), Spends,
         job[<<"migrate", a>>].st = "running", StopSource(a) \/ DetachVolume(a) \/ AttachVolume(a)
  PROVE  StaysSo(a)
<1> DEFINE m == <<"migrate", a>>
<1>1. job[m].at = "perform" /\ job[m].pc \in {"stop", "detach", "attach"} /\ reps' = reps /\ machine' = machine
  BY DEF StopSource, DetachVolume, AttachVolume, At, tables
<1>2. HasVolume(m)
  BY <1>1 DEF Volumed, Performs
<1>3. job[m].to \in Server /\ job[m].srv \in Server /\ None \notin Server \cup {"free"}
  BY WhileMigrated, BuiltIsServer, FleetAssumption
<1>4. budget.silent => budget'.silent
  BY DEF Spends
<1>5. Resting(a) /\ ~budget.silent => Source(m) \notin boxes \/ Source(m) \in reps
  BY <1>1 DEF Moving
<1>6. CASE StopSource(a)
  <2>1. vol' = vol /\ (budget'.silent \/ boxes' = boxes \ {Source(m)})
    <3>1. CASE boxes' = boxes \ {Source(m)}
      BY <1>6, <3>1 DEF StopSource
    <3>2. CASE HostSilent
      <4>1. budget' = [budget EXCEPT !.faults = @ - 1, !.silent = TRUE]
        BY <3>2 DEF HostSilent
      <4>2. budget'.silent
        BY <4>1 DEF Spends, BudgetOk, Alike
      <4> QED
        BY <1>6, <4>2 DEF StopSource
    <3> QED
      BY <1>6, <3>1, <3>2 DEF StopSource
  <2>2. ~budget'.silent => Source(m) \notin boxes'
    BY <2>1
  <2>3. HasVolume(m)'
    BY <1>2, <2>1 DEF HasVolume
  <2>4. ASSUME NEW pc \in {"detach", "attach"}, Goto(m, pc) PROVE StaysSo(a)
    <3>1. Goes(m, "perform", pc)
      BY <1>1, <2>4, MoveTurns
    <3> QED
      BY <1>1, <1>2, <2>2, <2>3, <3>1, GoneOn
  <2>5. CASE vol[a] = job[m].to /\ Goto(m, "place")
    <3>1. Goes(m, "perform", "place")
      BY <1>1, <2>5, MoveTurns
    <3> QED
      BY <1>1, <1>2, <2>1, <2>2, <2>5, <3>1, GoneOn
  <2> QED
    BY <1>6, <2>4, <2>5 DEF StopSource
<1>7. HasVolume(m)'
  <2>1. CASE StopSource(a)
    BY <1>2, <2>1 DEF StopSource, HasVolume
  <2>2. CASE DetachVolume(a)
    BY <1>2, <1>3, <2>2 DEF DetachVolume, VolumesOk, HasVolume
  <2>3. CASE AttachVolume(a)
    BY <1>2, <1>3, <2>3 DEF AttachVolume, VolumesOk, HasVolume
  <2> QED
    BY <2>1, <2>2, <2>3
<1>8. CASE DetachVolume(a) \/ AttachVolume(a)
  <2>1. boxes' = boxes /\ job[m].pc \in {"detach", "attach"}
    BY <1>8 DEF DetachVolume, AttachVolume, At
  <2>2. Resting(a) /\ ~budget'.silent => Source(m) \notin boxes'
    <3>1. Performs(m, {"detach", "attach", "place", "probe", "drop"})
      BY <1>1, <2>1 DEF Performs
    <3> QED
      BY <1>2, <1>4, <2>1, <3>1 DEF Moving
  <2>3. CASE MigrationThrows(m)
    BY <1>1, <1>2, <1>4, <1>5, <1>7, <2>1, <2>3, ThrownMove
  <2>4. CASE Goto(m, "attach")
    <3>1. Goes(m, "perform", "attach")
      BY <1>1, <2>4, MoveTurns
    <3> QED
      BY <1>1, <1>2, <1>7, <2>2, <3>1, GoneOn
  <2>5. CASE Goto(m, "place") /\ vol' = [vol EXCEPT ![a] = job[m].to]
    <3>1. Goes(m, "perform", "place")
      BY <1>1, <2>5, MoveTurns
    <3>2. vol'[a] = job[m].to
      BY <2>5 DEF VolumesOk
    <3> QED
      BY <1>1, <1>2, <1>7, <2>2, <3>1, <3>2, GoneOn
  <2> QED
    BY <1>8, <2>3, <2>4, <2>5 DEF DetachVolume, AttachVolume
<1> QED
  BY <1>6, <1>8

LEMMA PreparesSo ==
  ASSUME FleetInv, NEW a \in App, Volumed(a), Resting(a)' <=> Resting(a), Resting(a) => Moving(a), Spends,
         job[<<"migrate", a>>].st = "running", LoadAndValidate(a) \/ MigrateReplica(a) \/ PortPreflight(a)
  PROVE  StaysSo(a)
<1> DEFINE m == <<"migrate", a>>
<1>1. UNCHANGED <<apps, reps, boxes, vol, machine>>
  BY DEF LoadAndValidate, MigrateReplica, PortPreflight, tables, world
<1>2. HasVolume(m)' <=> HasVolume(m)
  BY <1>1 DEF HasVolume
<1>3. budget.silent => budget'.silent
  BY DEF Spends
<1>4. Ends(m) => StaysSo(a)
  BY <1>2, EndedMoves
<1>5. CASE LoadAndValidate(a)
  <2>1. job[m].at = "validate"
    BY <1>5 DEF LoadAndValidate, At
  <2>2. CASE Source(m) \in reps /\ job[m].srv # job[m].to /\ Step(m, "perform")
    <3>1. Goes(m, "perform", "start")
      BY <2>2, MoveTurns
    <3>2. job[m].sure => Early(m)
      BY <2>1 DEF Early
    <3> QED
      BY <1>1, <1>2, <2>2, <3>1, <3>2, GoneOn
  <2>3. CASE End(m, "failed")
    BY <1>4, <2>3, MoveTurns
  <2> QED
    BY <1>5, <2>2, <2>3 DEF LoadAndValidate
<1>6. job[m].at = "perform" => (Resting(a) /\ ~budget.silent => Source(m) \notin boxes \/ Source(m) \in reps)
  BY DEF Moving
<1>7. CASE MigrateReplica(a)
  <2>1. job[m].at = "perform" /\ job[m].pc = "start"
    BY <1>7 DEF MigrateReplica, At
  <2>2. CASE AlreadyMigrated(m) /\ Step(m, "verify")
    <3>1. Goes(m, "verify", "start")
      BY <2>2, MoveTurns
    <3>2. Source(m) \notin reps /\ vol[a] \in {None, job[m].to}
      BY <2>2 DEF AlreadyMigrated
    <3> QED
      BY <1>1, <1>2, <1>3, <1>6, <2>1, <3>1, <3>2, GoneOn
  <2>3. ASSUME NEW f, job' = [job EXCEPT ![m].pc = "preflight", ![m].new = f] PROVE StaysSo(a)
    <3>1. m \in Slot /\ Alike(job[m], NoJob) /\ job = [t \in Slot |-> job[t]]
      BY WhileMigrated
    <3>2. job'[m] = [job[m] EXCEPT !.pc = "preflight", !.new = f]
      BY <2>3, <3>1
    <3>3. Goes(m, "perform", "preflight")
      BY <2>1, <3>1, <3>2 DEF Goes, SameMove, Alike, NoJob
    <3>4. job[m].sure => Early(m)
      BY <2>1 DEF Early, Performs
    <3> QED
      BY <1>1, <1>2, <1>3, <1>6, <2>1, <3>3, <3>4, GoneOn
  <2>4. CASE End(m, "failed")
    BY <1>4, <2>4, MoveTurns
  <2>5. \/ AlreadyMigrated(m) /\ Step(m, "verify")
        \/ End(m, "failed")
        \/ \E f : job' = [job EXCEPT ![m].pc = "preflight", ![m].new = f]
    <3> DEFINE U == Usable(job[m].to) /\ AlreadyMigrated(m)
               P == Usable(job[m].to) /\ Source(m) \in reps /\ PortFree(job[m].to, job[m].port)
    <3>1. U => Step(m, "verify")
      BY <1>7 DEF MigrateReplica, AlreadyMigrated
    <3>2. P => job' = [job EXCEPT ![m].pc = "preflight", ![m].new = FreshName(a, Cardinality(RepsOf(a)))]
      BY <1>7 DEF MigrateReplica, AlreadyMigrated
    <3>3. ~U /\ ~P => End(m, "failed")
      BY <1>7 DEF MigrateReplica
    <3> QED
      BY <3>1, <3>2, <3>3
  <2> QED
    BY <2>2, <2>3, <2>4, <2>5
<1>8. CASE PortPreflight(a)
  <2>1. job[m].at = "perform" /\ job[m].pc = "preflight"
    BY <1>8 DEF PortPreflight, At
  <2>2. CASE HasVolume(m) /\ Goto(m, "stop")
    <3>1. Goes(m, "perform", "stop")
      BY <2>1, <2>2, MoveTurns
    <3>2. job[m].sure => Early(m)
      BY <2>1 DEF Early, Performs
    <3> QED
      BY <1>1, <1>2, <1>3, <1>6, <2>1, <2>2, <3>1, <3>2, GoneOn
  <2>3. CASE ~HasVolume(m) /\ Goto(m, "place")
    <3>1. Goes(m, "perform", "place")
      BY <2>1, <2>3, MoveTurns
    <3>2. vol'[a] \in {None, job[m].to}
      BY <1>1, <2>3 DEF HasVolume
    <3> QED
      BY <1>1, <1>2, <1>3, <1>6, <2>1, <2>3, <3>1, <3>2, GoneOn
  <2>4. CASE End(m, "failed")
    BY <1>4, <2>4, MoveTurns
  <2> QED
    BY <1>8, <2>2, <2>3, <2>4 DEF PortPreflight
<1> QED
  BY <1>5, <1>7, <1>8

LEMMA EndsSo ==
  ASSUME FleetInv, VolumesOk, NEW a \in App, Volumed(a), Resting(a)' <=> Resting(a), Resting(a) => Moving(a), Spends,
         job[<<"migrate", a>>].st = "running",
         DropSource(a) \/ SyncMoved(a) \/ RollBack(a) \/ RollBackFails(a) \/ VerifyMoved(a)
  PROVE  StaysSo(a)
<1> DEFINE m == <<"migrate", a>>
<1>1. budget.silent => budget'.silent
  BY DEF Spends
<1>2. job[m].at = "perform" => (Resting(a) /\ ~budget.silent => Source(m) \notin boxes \/ Source(m) \in reps)
  BY DEF Moving
<1>3. Performs(m, {"drop", "sync"}) /\ Resting(a) => vol[a] \in {None, job[m].to} \/ machine[job[m].to] = 0
  BY DEF Moving, Performs
<1>4. CASE DropSource(a)
  <2>1. /\ job[m].at = "perform" /\ job[m].pc = "drop" /\ UNCHANGED <<vol, machine>>
        /\ reps' = reps \ {Source(m)} /\ Goto(m, "sync")
    BY <1>4 DEF DropSource, At
  <2>2. HasVolume(m)' <=> HasVolume(m)
    BY <2>1 DEF HasVolume
  <2>3. Goes(m, "perform", "sync")
    BY <2>1, MoveTurns
  <2>4. Resting(a) /\ ~budget'.silent => Source(m) \notin boxes'
    <3>1. CASE HasVolume(m)
      <4>1. boxes' = boxes
        BY <1>4, <3>1 DEF DropSource
      <4>2. Performs(m, {"detach", "attach", "place", "probe", "drop"})
        BY <2>1 DEF Performs
      <4> QED
        BY <1>1, <3>1, <4>1, <4>2 DEF Moving
    <3>2. CASE ~HasVolume(m) /\ HostSilent
      <4>1. budget' = [budget EXCEPT !.faults = @ - 1, !.silent = TRUE]
        BY <3>2 DEF HostSilent
      <4>2. budget'.silent
        BY <4>1 DEF Spends, BudgetOk, Alike
      <4> QED
        BY <4>2
    <3>3. CASE ~HasVolume(m) /\ ~HostSilent
      BY <1>4, <3>3 DEF DropSource
    <3> QED
      BY <3>1, <3>2, <3>3
  <2>5. Resting(a) => vol'[a] \in {None, job[m].to} \/ machine'[job[m].to] = 0
    BY <1>3, <2>1 DEF Performs
  <2> QED
    BY <2>1, <2>2, <2>3, <2>4, <2>5, GoneOn
<1>5. CASE SyncMoved(a)
  <2>1. job[m].at = "perform" /\ job[m].pc = "sync" /\ UNCHANGED <<vol, machine, reps, boxes>>
    BY <1>5 DEF SyncMoved, At, world
  <2>2. HasVolume(m)' <=> HasVolume(m)
    BY <2>1 DEF HasVolume
  <2>3. CASE Step(m, "verify")
    <3>1. Goes(m, "verify", "start")
      BY <2>3, MoveTurns
    <3>2. Resting(a) => Source(m) \notin reps
      BY <2>1 DEF Moving, Performs
    <3>3. Resting(a) => vol'[a] \in {None, job[m].to} \/ machine'[job[m].to] = 0
      BY <1>3, <2>1 DEF Performs
    <3> QED
      BY <1>1, <1>2, <2>1, <2>2, <3>1, <3>2, <3>3, GoneOn
  <2>4. CASE MigrationThrows(m)
    BY <1>1, <1>2, <2>1, <2>2, <2>4, ThrownMove
  <2> QED
    BY <1>5, <2>3, <2>4 DEF SyncMoved
<1>6. CASE RollBack(a) \/ RollBackFails(a)
  <2>1. HasVolume(m)
    BY <1>6 DEF RollBack, RollBackFails, At, Volumed, Performs
  <2>2. Ends(m)
    <3>1. CASE RollBack(a)
      BY <3>1, MoveTurns DEF RollBack
    <3>2. CASE RollBackFails(a)
      <4>1. m \in Slot /\ Alike(job[m], NoJob) /\ job = [t \in Slot |-> job[t]]
        BY WhileMigrated
      <4>2. job'[m] = [job[m] EXCEPT !.st = "failed", !.lock = {}, !.sure = FALSE]
        BY <3>2, <4>1 DEF RollBackFails
      <4> QED
        BY <4>1, <4>2 DEF Ends, SameMove, Alike, NoJob
    <3> QED
      BY <1>6, <3>1, <3>2
  <2> QED
    BY <2>1, <2>2, EndedMoves
<1>7. CASE VerifyMoved(a)
  <2>1. HasVolume(m)' <=> HasVolume(m)
    BY <1>7 DEF VerifyMoved, world, HasVolume
  <2>2. Ends(m)
    BY <1>7, MoveTurns DEF VerifyMoved
  <2> QED
    BY <2>1, <2>2, EndedMoves
<1> QED
  BY <1>4, <1>5, <1>6, <1>7

LEMMA OwnMoveStaysSo ==
  ASSUME FleetInv, VolumesOk, NEW a \in App, Volumed(a), Resting(a) => Moving(a), Spends, Moves(a)
  PROVE  Volumed(a)' /\ (Resting(a)' => Moving(a)')
<1> DEFINE m == <<"migrate", a>>
           d == <<"deploy", a>>
<1>1. Still(d)
  BY MovesKeep, JobsKept, Slots DEF Keeps, StepTo, FleetInv
<1>2. Resting(a)' <=> Resting(a)
  BY <1>1 DEF Resting, Still
<1>3. StaysSo(a)
  BY <1>2, MigrationBeginsSo, PreparesSo, VolumeMovesSo, ReplicaMovesSo, EndsSo DEF Moves
<1> QED
  BY <1>2, <1>3 DEF StaysSo

(* A deployment of the app itself has nothing to do with its migration: it *)
(* is never one with a volume.                                             *)
LEMMA OwnDeployMovesNothing ==
  ASSUME FleetInv, NEW a \in App, Volumed(a), Deploys(a)
  PROVE  Volumed(a)' /\ ~Resting(a)'
<1> DEFINE m == <<"migrate", a>>
           d == <<"deploy", a>>
<1>1. Keeps(d) /\ d \in Slot /\ m \in Slot /\ m # d
  BY DeploysKeep, Slots
<1>2. Still(m)
  BY <1>1, JobsKept DEF Keeps, StepTo, FleetInv
<1>3. a \notin Portable
  BY DEF Deploys, Deploy, Volumed, Resting
<1>4. vol' = vol
  <2>1. CASE ScaleStarts(a) \/ ScaleInserts(a)
    BY <2>1 DEF ScaleStarts, ScaleInserts, StartReplica, InsertReplica, SetupFails, world
  <2>2. CASE \/ Deploy(a) \/ PickServer(a) \/ OwnRow(a) \/ OwnMachine(a) \/ OwnReady(a) \/ InsertApp(a)
             \/ RunContainer(a) \/ RunFails(a) \/ HealthCheck(a) \/ ReserveHostPort(a) \/ FinalizeDeploy(a)
             \/ UndoRun(a) \/ UndoInsert(a) \/ UndoPick(a)
    BY <2>2 DEF Deploy, PickServer, OwnRow, OwnMachine, OwnReady, InsertApp, RunContainer, RunFails, HealthCheck,
                ReserveHostPort, FinalizeDeploy, UndoRun, UndoInsert, UndoPick, world
  <2> QED
    BY <2>1, <2>2 DEF Deploys
<1>5. Volumed(a)'
  <2>1. Performs(m, {"stop", "detach", "attach", "back"})' => Performs(m, {"stop", "detach", "attach", "back"})
    BY <1>2 DEF Performs, Still
  <2> QED
    BY <1>3, <1>4, <2>1 DEF Volumed, HasVolume
<1>6. ~Resting(a)'
  <2>1. CASE Deploy(a)
    <3>1. job'[d].st = "running"
      BY <1>1, <2>1 DEF Deploy, Request, FleetInv, JobsOk, NoJob
    <3> QED
      BY <3>1 DEF Resting
  <2>2. CASE job[d].st # "idle"
    <3>1. job'[d].st # "idle"
      BY <1>1, <2>2, JobsLast DEF Keeps, StepTo, FleetInv
    <3> QED
      BY <3>1 DEF Resting
  <2> QED
    BY <2>1, <2>2 DEF Deploys
<1> QED
  BY <1>5, <1>6

LEMMA MoveInvBegins == ASSUME FleetInit PROVE MoveInv
<1>1. VolumesOk
  BY DEF FleetInit, VolumesOk
<1>2. Old \subseteq Server /\ DOMAIN Home \subseteq App /\ Portable \subseteq DOMAIN Home
      /\ \A a \in DOMAIN Home : Home[a] \in Old
  BY FleetAssumption
<1>3. BoxesOk
  BY <1>2 DEF FleetInit, BoxesOk, Container
<1>4. OldOk
  BY <1>2 DEF FleetInit, OldOk
<1>5. \A s \in Slot : job[s] = NoJob
  BY DEF FleetInit
<1>6. ASSUME NEW a \in App PROVE Volumed(a) /\ Moving(a)
  <2> DEFINE m == <<"migrate", a>>
  <2>1. job[m].st = "idle" /\ job[<<"deploy", a>>].st = "idle"
    BY <1>5, Slots DEF NoJob
  <2>2. HasVolume(m) => a \in Portable /\ vol[a] = Home[a]
    BY DEF FleetInit, HasVolume
  <2>3. Volumed(a)
    BY <2>1, <2>2 DEF Volumed, Resting, Performs
  <2>4. \A r \in RepsOf(a) : a \in DOMAIN Home /\ r = FirstReplica(a)
    BY DEF FleetInit, RepsOf, FirstReplica, Container
  <2>5. HasVolume(m) => Unmoved(a)
    BY <1>2, <2>2 DEF FleetInit, Unmoved, FirstReplica
  <2>6. (\A pcs : ~Performs(m, pcs)) /\ ~Verifies(m)
    BY <2>1 DEF Performs, Verifies
  <2> QED
    BY <2>1, <2>3, <2>4, <2>5, <2>6 DEF Moving
<1> QED
  BY <1>1, <1>3, <1>4, <1>6 DEF MoveInv

LEMMA VolumesOkLasts == ASSUME VolumesOk, Next PROVE VolumesOk'
<1> SUFFICES vol' = vol \/ (\E a, v : vol' = [vol EXCEPT ![a] = v]) \/ \E f : vol' = [a \in App |-> f[a]]
  BY DEF VolumesOk
<1>1. CASE Crash
  BY <1>1 DEF Crash, world
<1>2. ASSUME NEW n \in Server, Demolish(n) PROVE \E f : vol' = [a \in App |-> f[a]]
  <2>1. vol' = [a \in App |-> [b \in App |-> IF vol[b] = n THEN "free" ELSE vol[b]][a]]
    BY <1>2 DEF Demolish
  <2> QED
    BY <2>1
<1>3. ASSUME NEW b, DestroyApp(b) PROVE \E a, v : vol' = [vol EXCEPT ![a] = v]
  BY <1>3 DEF DestroyApp
<1>4. ASSUME NEW n \in Server, Provisions(n) PROVE vol' = vol \/ Demolish(n)
  BY <1>4 DEF Provisions, ProvisionServer, InsertServerRow, CreateCloudServer, BootServer, BootFails, MarkReady,
              UndoCreate, UndoCreateFails, UndoRow, world
<1>5. ASSUME NEW n \in Server, Destroys(n) PROVE vol' = vol \/ Demolish(n) \/ \E b : DestroyApp(b)
  BY <1>5 DEF Destroys, DestroyServer, ListApps, ChildrenOver, DeleteCloudServer, DeleteCloudServerFails,
              DeleteServerRows, ChildDestroys, ChildEnds, world
<1>6. ASSUME NEW n \in Server, Collects(n) PROVE vol' = vol \/ Demolish(n)
  BY <1>6 DEF Collects, GcChecks, GcDeletes, GcFails, GcForgets, world
<1>7. ASSUME NEW a \in App, Deploys(a) PROVE vol' = vol
  <2>1. CASE ScaleStarts(a) \/ ScaleInserts(a)
    BY <2>1 DEF ScaleStarts, ScaleInserts, StartReplica, InsertReplica, SetupFails, world
  <2>2. CASE \/ Deploy(a) \/ PickServer(a) \/ OwnRow(a) \/ OwnMachine(a) \/ OwnReady(a) \/ InsertApp(a)
             \/ RunContainer(a) \/ RunFails(a) \/ HealthCheck(a) \/ ReserveHostPort(a) \/ FinalizeDeploy(a)
             \/ UndoRun(a) \/ UndoInsert(a) \/ UndoPick(a)
    BY <2>2 DEF Deploy, PickServer, OwnRow, OwnMachine, OwnReady, InsertApp, RunContainer, RunFails, HealthCheck,
                ReserveHostPort, FinalizeDeploy, UndoRun, UndoInsert, UndoPick, world
  <2> QED
    BY <1>7, <2>1, <2>2 DEF Deploys
<1>8. ASSUME NEW a \in App, Moves(a) PROVE vol' = vol \/ \E v : vol' = [vol EXCEPT ![a] = v]
  <2>1. CASE StartOnTarget(a) \/ InsertOnTarget(a)
    BY <2>1 DEF StartOnTarget, InsertOnTarget, StartReplica, InsertReplica, SetupFails, world
  <2>2. CASE DetachVolume(a) \/ AttachVolume(a) \/ RollBack(a) \/ RollBackFails(a)
    BY <2>2 DEF DetachVolume, AttachVolume, RollBack, RollBackFails
  <2>3. CASE (\E r \in reps, n \in Server : Migrate(a, r, n)) \/ LoadAndValidate(a) \/ MigrateReplica(a)
             \/ PortPreflight(a) \/ StopSource(a) \/ DropSource(a) \/ SyncMoved(a) \/ VerifyMoved(a)
    BY <2>3 DEF Migrate, LoadAndValidate, MigrateReplica, PortPreflight, StopSource, DropSource, SyncMoved,
                VerifyMoved, world
  <2> QED
    BY <1>8, <2>1, <2>2, <2>3 DEF Moves
<1>9. ASSUME NEW a \in App, DestroyRequested(a) PROVE DestroyApp(a)
  BY <1>9 DEF DestroyRequested
<1> QED
  BY <1>1, <1>2, <1>3, <1>4, <1>5, <1>6, <1>7, <1>8, <1>9 DEF Next

LEMMA EveryStepMovesSo == ASSUME FleetInv, FleetInv', DeployInv, MoveInv, Next PROVE MoveInv'
<1>1. VolumesOk' /\ BoxesOk' /\ OldOk'
  BY VolumesOkLasts, BoxesOkLasts, OldOkLasts DEF MoveInv
<1>2. Spends
  BY EveryStepSpends DEF DeployInv
<1>3. ASSUME NEW a \in App PROVE Volumed(a)' /\ (Resting(a)' => Moving(a)')
  <2>1. VolumesOk /\ Volumed(a) /\ (Resting(a) => Moving(a))
    BY DEF MoveInv
  <2>2. CASE Deploys(a)
    BY <2>1, <2>2, OwnDeployMovesNothing
  <2>3. CASE Moves(a)
    BY <1>2, <2>1, <2>3, OwnMoveStaysSo
  <2>4. CASE ~Deploys(a) /\ ~Moves(a)
    BY <1>1, <2>4, OthersMoveNothing
  <2> QED
    BY <2>2, <2>3, <2>4
<1> QED
  BY <1>1, <1>3 DEF MoveInv

LEMMA MoveInvHolds == Spec => []MoveInv
<1>1. FleetInit => MoveInv
  BY MoveInvBegins
<1>2. FleetInv /\ FleetInv' /\ DeployInv /\ MoveInv /\ [Next]_vars => MoveInv'
  <2>1. ASSUME MoveInv, UNCHANGED vars PROVE MoveInv'
    BY <2>1 DEF vars, MoveInv, VolumesOk, BoxesOk, OldOk, Volumed, Moving, Resting, Performs, Verifies, Early, Held,
                Unmoved, FirstReplica, Source, HasVolume, RepsOf
  <2> QED
    BY <2>1, EveryStepMovesSo
<1> QED
  BY <1>1, <1>2, FleetInvHolds, DeployInvHolds, PTL DEF Spec

(* Nobody else ends a migration. *)
LEMMA OnlyItselfEnds ==
  ASSUME FleetInv, MoveInv, [Next]_vars, NEW a \in App, NEW st \in {"done", "failed"}, Ended(<<"migrate", a>>, st)
  PROVE  Moves(a) /\ Next
<1> DEFINE m == <<"migrate", a>>
<1>1. Next
  BY DEF vars, Ended
<1>2. CASE Deploys(a)
  <2>1. Still(m)
    BY <1>2, DeploysKeep, Slots, JobsKept DEF Keeps, StepTo, FleetInv
  <2> QED
    BY <2>1 DEF Still, Ended
<1>3. CASE ~Deploys(a) /\ ~Moves(a)
  <2>1. Waits(m) /\ Alike(job[m], NoJob)
    BY <1>1, <1>3, OthersSpare, Slots DEF MoveInv, FleetInv, JobsOk
  <2> QED
    BY <2>1 DEF Waits, Ended, Alike, NoJob
<1> QED
  BY <1>1, <1>2, <1>3

LEMMA DoneIsMoved ==
  ASSUME FleetInv, MoveInv, Spends, NEW a \in App, Moves(a), Ended(<<"migrate", a>>, "done"), ~budget'.silent
  PROVE  /\ \E r \in reps' : r.app = a /\ r.srv = job[<<"migrate", a>>].to /\ r \in boxes'
         /\ Resting(a) => Source(<<"migrate", a>>) \notin reps' \cup boxes'
         /\ vol'[a] \in {None, job[<<"migrate", a>>].to}
<1> DEFINE m == <<"migrate", a>>
<1>1. job[m].st = "running" /\ VerifyMoved(a)
  <2>1. \A r \in reps, n \in Server : Migrate(a, r, n) => job'[m].st = "running"
    BY Slots DEF Migrate, FleetInv, JobsOk, NoJob
  <2>2. job[m].st = "running"
    BY <2>1 DEF Moves, Ended
  <2>3. m \in Slot /\ Alike(job[m], NoJob) /\ job = [t \in Slot |-> job[t]]
    BY <2>2, WhileMigrated
  <2>4. /\ (\E pc : Goto(m, pc)) \/ (\E at : Step(m, at)) \/ End(m, "failed") => job'[m].st # "done"
    <3>1. ASSUME NEW pc, Goto(m, pc) PROVE job'[m].st # "done"
      <4>1. Goes(m, job[m].at, pc)
        BY <2>2, <3>1, MoveTurns
      <4> QED
        BY <2>2, <4>1 DEF Goes
    <3>2. ASSUME NEW at, Step(m, at) PROVE job'[m].st # "done"
      <4>1. Goes(m, at, "start")
        BY <2>2, <3>2, MoveTurns
      <4> QED
        BY <2>2, <4>1 DEF Goes
    <3>3. ASSUME End(m, "failed") PROVE job'[m].st # "done"
      <4>1. job'[m] = [job[m] EXCEPT !.st = "failed", !.lock = {}]
        BY <2>3, <3>3 DEF End
      <4> QED
        BY <2>3, <4>1 DEF Alike, NoJob
    <3> QED
      BY <3>1, <3>2, <3>3
  <2>5. ASSUME NEW f, job' = [job EXCEPT ![m].pc = "preflight", ![m].new = f] PROVE job'[m].st # "done"
    <3>1. job'[m] = [job[m] EXCEPT !.pc = "preflight", !.new = f]
      BY <2>3, <2>5
    <3> QED
      BY <2>2, <2>3, <3>1 DEF Alike, NoJob
  <2>6. ASSUME job' = [job EXCEPT ![m].st = "failed", ![m].lock = {}, ![m].sure = FALSE] PROVE job'[m].st # "done"
    <3>1. job'[m] = [job[m] EXCEPT !.st = "failed", !.lock = {}, !.sure = FALSE]
      BY <2>3, <2>6
    <3> QED
      BY <2>3, <3>1 DEF Alike, NoJob
  <2>7. job'[m].st = "done"
    BY DEF Ended
  <2>8. ~MigrationThrows(m)
    BY <2>4, <2>7 DEF MigrationThrows
  <2>9. ~StartOnTarget(a) /\ ~InsertOnTarget(a)
    BY <2>4, <2>7, <2>8 DEF StartOnTarget, InsertOnTarget, StartReplica, InsertReplica, SetupFails
  <2>10. ~LoadAndValidate(a) /\ ~PortPreflight(a) /\ ~StopSource(a) /\ ~DetachVolume(a) /\ ~AttachVolume(a)
         /\ ~DropSource(a) /\ ~SyncMoved(a) /\ ~RollBack(a) /\ ~RollBackFails(a)
    BY <2>4, <2>6, <2>7, <2>8 DEF LoadAndValidate, PortPreflight, StopSource, DetachVolume, AttachVolume, DropSource,
                                  SyncMoved, RollBack, RollBackFails
  <2>11. ~MigrateReplica(a)
    BY <2>4, <2>5, <2>7 DEF MigrateReplica
  <2>12. \A r \in reps, n \in Server : ~Migrate(a, r, n)
    BY <2>1, <2>7
  <2> QED
    BY <2>2, <2>9, <2>10, <2>11, <2>12 DEF Moves
<1>2. UNCHANGED <<reps, boxes, vol, machine>> /\ Verifies(m)
  BY <1>1 DEF VerifyMoved, world, At, Verifies
<1>3. PICK r \in OnTarget(m) : r \in boxes
  <2>1. ~End(m, "failed")
    <3>1. ASSUME End(m, "failed") PROVE FALSE
      <4>1. m \in Slot /\ Alike(job[m], NoJob) /\ job = [t \in Slot |-> job[t]]
        BY <1>1, WhileMigrated
      <4>2. job'[m] = [job[m] EXCEPT !.st = "failed", !.lock = {}]
        BY <3>1, <4>1 DEF End
      <4> QED
        BY <4>1, <4>2 DEF Alike, NoJob, Ended
    <3> QED
      BY <3>1
  <2> QED
    BY <1>1, <2>1 DEF VerifyMoved
<1>4. r \in reps /\ r.app = a /\ r.srv = job[m].to
  BY <1>3 DEF OnTarget, RepsOf
<1>5. vol[a] \in {None, job[m].to}
  <2>1. CASE a \in Portable
    <3>1. Moving(a) /\ machine[job[m].to] # 0
      BY <1>3, <1>4, <2>1 DEF MoveInv, Volumed, BoxesOk
    <3> QED
      BY <1>2, <3>1 DEF Moving
  <2>2. CASE a \notin Portable
    BY <2>2 DEF MoveInv, Volumed, HasVolume
  <2> QED
    BY <2>1, <2>2
<1>6. Resting(a) => Source(m) \notin reps \cup boxes
  <2>1. ~budget.silent
    BY DEF Spends
  <2> QED
    BY <1>1, <1>2, <2>1 DEF MoveInv, Moving, Verifies
<1> QED
  BY <1>2, <1>3, <1>4, <1>5, <1>6

LEMMA FailedIsAsBefore ==
  ASSUME FleetInv, MoveInv, Spends, NEW a \in App, Moves(a), Ended(<<"migrate", a>>, "failed"), ~budget'.silent,
         job[<<"migrate", a>>].at = "perform", job'[<<"migrate", a>>].sure,
         machine'[job[<<"migrate", a>>].srv] > 0, a \in apps', HasVolume(<<"migrate", a>>)
  PROVE  /\ vol'[a] = job[<<"migrate", a>>].srv
         /\ \E b \in boxes' : b.srv = job[<<"migrate", a>>].srv /\ (b.app = a \/ b.port = job[<<"migrate", a>>].port)
<1> DEFINE m == <<"migrate", a>>
           src == job[m].srv
<1>1. Moving(a)
  BY DEF MoveInv, Volumed
<1>2. job[m].st = "running"
  <2>1. job[m].st = "idle" => job[m] = NoJob
    BY Slots DEF FleetInv, JobsOk
  <2>2. NoJob.at = "none"
    BY DEF NoJob
  <2>3. job[m].st # "idle"
    BY <2>1, <2>2
  <2> QED
    BY <2>3 DEF Moves, Migrate
<1>3. m \in Slot /\ Alike(job[m], NoJob) /\ job = [t \in Slot |-> job[t]] /\ src \in Server
  BY <1>2, WhileMigrated, BuiltIsServer
<1>4. (\A pc : ~Goto(m, pc)) /\ (\A at : ~Step(m, at))
  <2>1. ASSUME NEW pc, Goto(m, pc) PROVE FALSE
    <3>1. Goes(m, job[m].at, pc)
      BY <1>2, <2>1, MoveTurns
    <3> QED
      BY <1>2, <3>1 DEF Goes, Ended
  <2>2. ASSUME NEW at, Step(m, at) PROVE FALSE
    <3>1. Goes(m, at, "start")
      BY <1>2, <2>2, MoveTurns
    <3> QED
      BY <1>2, <3>1 DEF Goes, Ended
  <2> QED
    BY <2>1, <2>2
<1>5. ~MigrationThrows(m)
  BY <1>4 DEF MigrationThrows
<1>6. ~StartOnTarget(a) /\ ~InsertOnTarget(a)
  BY <1>4, <1>5 DEF StartOnTarget, InsertOnTarget, StartReplica, InsertReplica, SetupFails
<1>7. ~StopSource(a) /\ ~DetachVolume(a) /\ ~AttachVolume(a) /\ ~DropSource(a) /\ ~SyncMoved(a)
  BY <1>4, <1>5 DEF StopSource, DetachVolume, AttachVolume, DropSource, SyncMoved
<1>8. ~LoadAndValidate(a) /\ ~VerifyMoved(a)
  BY DEF LoadAndValidate, VerifyMoved, At
<1>9. ~RollBackFails(a)
  <2>1. ASSUME RollBackFails(a) PROVE FALSE
    <3>1. job'[m] = [job[m] EXCEPT !.st = "failed", !.lock = {}, !.sure = FALSE]
      BY <1>3, <2>1 DEF RollBackFails
    <3>2. job'[m].sure = FALSE
      BY <1>3, <3>1 DEF Alike, NoJob
    <3> QED
      BY <3>2
  <2> QED
    BY <2>1
<1>10. CASE RollBack(a)
  <2>1. machine' = machine /\ Up(src)
    BY <1>10 DEF RollBack, Up
  <2>2. vol'[a] = src
    BY <1>10, <2>1 DEF RollBack, MoveInv, VolumesOk
  <2>3. Source(m).srv = src /\ Source(m).app = a /\ Source(m).port = job[m].port
    BY DEF Source, Container
  <2>4. CASE Startable(src, Source(m))
    <3>1. Source(m) \in boxes'
      BY <1>10, <2>4 DEF RollBack, Started
    <3> QED
      BY <2>2, <2>3, <3>1
  <2>5. CASE ~Startable(src, Source(m))
    <3>1. PICK b \in boxes : b.srv = src /\ b.port = Source(m).port
      BY <2>1, <2>5 DEF Startable
    <3>2. boxes' = boxes
      BY <1>10, <2>5 DEF RollBack
    <3> QED
      BY <2>2, <2>3, <3>1, <3>2
  <2> QED
    BY <2>4, <2>5
<1>11. CASE MigrateReplica(a) \/ PortPreflight(a)
  <2>1. UNCHANGED <<apps, boxes, vol, machine>>
    BY <1>11 DEF MigrateReplica, PortPreflight, world
  <2>2. job[m].pc \in {"start", "preflight"}
    BY <1>11 DEF MigrateReplica, PortPreflight, At
  <2>3. End(m, "failed")
    <3>1. CASE PortPreflight(a)
      BY <1>4, <3>1 DEF PortPreflight
    <3>2. CASE MigrateReplica(a)
      <4>1. ASSUME NEW f, job' = [job EXCEPT ![m].pc = "preflight", ![m].new = f] PROVE FALSE
        <5>1. job'[m] = [job[m] EXCEPT !.pc = "preflight", !.new = f]
          BY <1>3, <4>1
        <5> QED
          BY <1>2, <1>3, <5>1 DEF Alike, NoJob, Ended
      <4> QED
        BY <1>4, <3>2, <4>1 DEF MigrateReplica
    <3> QED
      BY <1>11, <3>1, <3>2
  <2>4. job'[m] = [job[m] EXCEPT !.st = "failed", !.lock = {}]
    BY <1>3, <2>3 DEF End
  <2>5. job'[m].sure = job[m].sure
    BY <1>3, <2>4 DEF Alike, NoJob
  <2>6. Early(m)
    BY <1>2, <2>2, <2>5 DEF Early, Performs
  <2>7. Source(m) = FirstReplica(a)
    BY <1>1, <1>2 DEF Moving, Held
  <2>8. src = Home[a]
    BY <2>7 DEF Source, FirstReplica, Container
  <2>9. machine[Home[a]] # 0
    BY <2>1, <2>8
  <2>10. Unmoved(a)
    BY <1>1, <2>1, <2>6, <2>9 DEF Moving
  <2>11. FirstReplica(a) \in boxes' /\ FirstReplica(a).srv = src /\ FirstReplica(a).app = a
    BY <2>1, <2>8, <2>10 DEF Unmoved, FirstReplica, Container
  <2> QED
    BY <2>1, <2>8, <2>10, <2>11 DEF Unmoved
<1>12. \A r \in reps, n \in Server : ~Migrate(a, r, n)
  BY <1>2 DEF Migrate
<1> QED
  BY <1>2, <1>6, <1>7, <1>8, <1>9, <1>10, <1>11, <1>12 DEF Moves

(* A migration that is done has moved the replica with its container and   *)
(* volume; one that failed left or put them where they were.               *)
THEOREM MigrationMovesOrRestores == Spec => MigratedOrAsBefore
<1> DEFINE Served(a) ==
             LET m == <<"migrate", a>>
                 src == job[m].srv
             IN  ~budget'.silent =>
                   /\ Ended(m, "done") =>
                        /\ \E r \in reps' : r.app = a /\ r.srv = job[m].to /\ r \in boxes'
                        /\ job[<<"deploy", a>>].st = "idle" => Source(m) \notin reps' \cup boxes'
                        /\ vol'[a] \in {None, job[m].to}
                   /\ Ended(m, "failed") /\ job[m].at = "perform" /\ job'[m].sure /\ machine'[src] > 0
                      /\ a \in apps' /\ HasVolume(m) =>
                        vol'[a] = src /\ \E b \in boxes' : b.srv = src /\ (b.app = a \/ b.port = job[m].port)
<1>1. FleetInv /\ DeployInv /\ MoveInv /\ [Next]_vars => [\A a \in App : Served(a)]_vars
  <2> SUFFICES ASSUME FleetInv, DeployInv, MoveInv, [Next]_vars, NEW a \in App PROVE Served(a)
    OBVIOUS
  <2> DEFINE m == <<"migrate", a>>
  <2>1. Ended(m, "done") \/ Ended(m, "failed") => Moves(a) /\ Spends
    BY OnlyItselfEnds, EveryStepSpends DEF DeployInv
  <2>2. Ended(m, "done") /\ ~budget'.silent =>
          /\ \E r \in reps' : r.app = a /\ r.srv = job[m].to /\ r \in boxes'
          /\ job[<<"deploy", a>>].st = "idle" => Source(m) \notin reps' \cup boxes'
          /\ vol'[a] \in {None, job[m].to}
    BY <2>1, DoneIsMoved DEF Resting
  <2>3. Ended(m, "failed") /\ ~budget'.silent /\ job[m].at = "perform" /\ job'[m].sure /\ machine'[job[m].srv] > 0
        /\ a \in apps' /\ HasVolume(m) =>
          vol'[a] = job[m].srv /\ \E b \in boxes' : b.srv = job[m].srv /\ (b.app = a \/ b.port = job[m].port)
    BY <2>1, FailedIsAsBefore
  <2> QED
    BY <2>2, <2>3
<1> QED
  BY <1>1, FleetInvHolds, DeployInvHolds, MoveInvHolds, PTL DEF Spec, MigratedOrAsBefore
=============================================================================
