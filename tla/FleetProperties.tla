--------------------------- MODULE FleetProperties ---------------------------
(***************************************************************************)
(* What the operations on servers, apps and replicas promise together.     *)
(***************************************************************************)
EXTENDS FleetMoves

(* However often the engine dies while it provisions, and whatever answer  *)
(* of the provider is lost, no server is created twice: the name of the    *)
(* machine carries the number of the operation and is looked up before     *)
(* another is ordered (provision-server.ts).                               *)
ProvisionedOnce == \A s \in Server : machine[s] <= 1

(* The row of a server the provider knows is deleted only when its machine *)
(* is: a machine without a row would run, and be paid for, unseen.  Only   *)
(* the destruction of a server whose provisioning it overtakes misses the  *)
(* machine.                                                                *)
ForgetsNoMachine ==
  [][\A s \in Server :
       row[s].known /\ row'[s].st = "none" =>
         machine'[s] = 0 \/ (s \notin Old /\ At(<<"destroy", s>>, "rows", "start"))]_vars

Ended(s, st) == job[s].st # st /\ job'[s].st = st

(* A deployment that ends compensated leaves no app, no replica and not    *)
(* the container it started, wherever the engine died on the way, if every *)
(* host did answer, the server it picked is still known and no migration   *)
(* took hold of the app meanwhile.                                         *)
CompensatedDeployIsGone ==
  [][\A a \in App :
       Ended(<<"deploy", a>>, "compensated") /\ ~budget'.silent
       /\ Here(job[<<"deploy", a>>].srv) /\ job[<<"migrate", a>>].st = "idle" =>
         a \notin apps' /\ {r \in reps' : r.app = a} = {} /\ ~\E b \in boxes' : b.app = a /\ b.n = 1]_vars

(* A migration that is done has moved the replica, its container and its   *)
(* volume; one that failed, unless the engine died in it or its rollback   *)
(* failed as well, has the volume and the container at the source again,   *)
(* as long as that server exists and nobody took the port meanwhile.       *)
(* (That nothing is left under the old name is said of apps deployed in    *)
(* the beginning: a deployment that still adds replicas does not wait for  *)
(* the migration and may give the name of the one that moved to another.)  *)
MigratedOrAsBefore ==
  [][\A a \in App :
       LET m == <<"migrate", a>>
           src == job[m].srv
       IN  ~budget'.silent =>
             /\ Ended(m, "done") =>
                  /\ \E r \in reps' : r.app = a /\ r.srv = job[m].to /\ r \in boxes'
                  /\ job[<<"deploy", a>>].st = "idle" => Source(m) \notin reps' \cup boxes'
                  /\ vol'[a] \in {None, job[m].to}
             /\ Ended(m, "failed") /\ job[m].at = "perform" /\ job'[m].sure /\ machine'[src] > 0
                /\ a \in apps' /\ HasVolume(m) =>
                  vol'[a] = src /\ \E b \in boxes' : b.srv = src /\ (b.app = a \/ b.port = job[m].port)]_vars

(* What ops/migrate.ts says of the order of a migration: nothing is taken  *)
(* down before the target's port is the migration's own.  Until it starts  *)
(* the new container no other app's comes to listen there, but the first   *)
(* one of an app, whose port is chosen without a look at the claims, and   *)
(* one that another migration gave up and its rollback starts again.       *)
ClaimedPortIsFree ==
  [][\A m \in {"migrate"} \X App :
       job[m].at = "perform" /\ job[m].pc \in {"stop", "detach", "attach", "place"}
       /\ Claim(m, job[m].to, job[m].port) \in held =>
         \A x \in boxes' \ boxes :
           x.srv = job[m].to /\ x.port = job[m].port =>
             \/ x.app = m[2] \/ x.n = 1
             \/ \E b \in App : At(<<"migrate", b>>, "perform", "back") /\ x = Source(<<"migrate", b>>)]_vars

(* What migrate.ts says of a retry: it finds how far a former attempt came *)
(* and goes on, or rolls back; the app does not stay down.                 *)
ResumedMigrationServes ==
  [][\A a \in App :
       Ended(<<"migrate", a>>, "failed") => \E b \in boxes' : b.app = a]_vars
=============================================================================
