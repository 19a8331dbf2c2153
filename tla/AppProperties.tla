---------------------------- MODULE AppProperties ----------------------------
(***************************************************************************)
(* What an app must keep while everything that acts on it interleaves.     *)
(***************************************************************************)
EXTENDS AppLifecycle

(* A volume is single-writer state: of an app with a volume, at most one   *)
(* container exists that is not stopped, whatever is lost and comes back.  *)
VolumeSingleWriter ==
  app.volume =>
    Cardinality({x \in Server \X Name : box[x[1]][x[2]] \in {"running", "paused"}}) <= 1

(* Whoever starts, stops or removes containers of the app does it alone:   *)
(* a wake for a connection, a convergence, an attestation pass and an      *)
(* operation never overlap, also after a crash.                            *)
ActsAlone ==
  Cardinality({a \in {"tick", "waker", "runtime", "op"} :
                 \/ a = "tick" /\ tick.pc \in Converging
                 \/ a = "waker" /\ waker = "waking"
                 \/ a = "runtime" /\ runtime # {}
                 \/ a = "op" /\ op.live}) <= 1

(* A woken app stays up for its idle window: no convergence that was       *)
(* decided before it fell asleep, by what was desired then, puts it to     *)
(* sleep again.                                                            *)
WokenStaysUp ==
  [][tick.pc = "stop" /\ app.st # "sleeping" /\ app'.st = "sleeping" => ~app.recent]_vars
=============================================================================
