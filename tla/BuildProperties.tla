-------------------------- MODULE BuildProperties --------------------------
(***************************************************************************)
(* What builds on shared workers must keep, whatever expires, crashes or   *)
(* is finalized while they run.                                            *)
(***************************************************************************)
EXTENDS BuildLeases

Slots == INSTANCE FencedSlots WITH Slot <- Worker

(* A result is returned only under the newest lease of its worker, once,   *)
(* so a build that lost its slot can never follow up on the one that got   *)
(* it: the heartbeats, expiry, reaping and renewal of                      *)
(* build-worker-leases.ts with the fence of withWorker implement           *)
(* FencedSlots.                                                            *)
FencedPublication == Slots!Spec

(* An operation never has two slots, fail-over and resumption included:    *)
(* tryAcquireBuildWorkerLease gives the old one up, or inserting the new   *)
(* one would break the UNIQUE(operation_id) it silently catches.           *)
OneSlotPerOperation ==
  \A v, w \in Worker : Leased(v) /\ Leased(w) /\ leases[v].op = leases[w].op => v = w

(* A run of withWorker that ends, by result, error or fail-over, leaves no *)
(* lease behind; only a crash may.                                         *)
LeavesNoLease ==
  [][\A o \in Op :
       /\ runner[o].pc \in {"working", "saved"}
       /\ runner'[o].pc \in {"idle", "probing"}
       /\ ~Crash
       => \A w \in Worker : leases'[w] # None => leases'[w].token # runner[o].token]_vars

(* "No capacity" is told only when every healthy candidate is leased to    *)
(* another operation that is alive and has kept its lease alive: neither   *)
(* an expired lease, nor one of an operation that is over, nor the         *)
(* operation's own blocks a worker.                                        *)
RefusalIsHonest ==
  [][\A o \in Op :
       Answered(o) /\ runner'[o] # runner[o] /\ runner'[o].pc # "working" /\ ~Crash
         => \A w \in runner[o].candidates :
              Eligible(w) => /\ Leased(w)
                             /\ leases[w].op # o
                             /\ status[leases[w].op] # "over"
                             /\ leases[w].left > 0]_vars

(* The second attempt of withBuildFailover starts with nothing recorded    *)
(* and never on the worker that failed.                                    *)
FailoverIsClean ==
  \A o \in Op :
    runner[o].attempt = 2 =>
      /\ runner[o].pc = "probing" => Recorded(o) = {}
      /\ runner[o].worker \notin runner[o].excluded

(* Everything recorded for an operation comes from one worker, and the     *)
(* checkpoint is only there when it vouches for every target: what a       *)
(* resumed operation adopts is one build, never a mixture.                 *)
OneBuildPerOperation ==
  \A o \in Op :
    /\ \A t, u \in Recorded(o) : artifacts[o][t].worker = artifacts[o][u].worker
    /\ checkpoint[o] # None =>
         \A t \in Target : artifacts[o][t] # None /\ artifacts[o][t].worker = checkpoint[o]

(* A digest that was recorded is never replaced, not even by the build     *)
(* that a resumed operation runs again.                                    *)
DigestsAreFinal ==
  [][\A o \in Op : \A t \in Recorded(o) : artifacts'[o][t] = artifacts[o][t]]_vars

(* The step succeeds only when every target has a recorded digest, whether *)
(* it built them or recovered them.                                        *)
BuiltIsWhole == \A o \in Op : status[o] = "built" => Recorded(o) = Target
=============================================================================
