------------------------------ MODULE MCEngine ------------------------------
(***************************************************************************)
(* Request shapes for model checking Engine.  Each scenario is a small set *)
(* of envelopes the panel really enqueues, cut down to the steps that      *)
(* matter to what its runs ask.                                            *)
(***************************************************************************)
EXTENDS EngineProperties

(* A step-less shape the scenarios fill in. *)
Blank == [keys |-> {}, identity |-> {}, known |-> TRUE, destroys |-> FALSE,
          steps |-> 1, undo |-> {}, probed |-> {}, goneCheck |-> {},
          effect |-> {}, spawns |-> {}]

MCKey == {"app:7", "app:create:web", "stack:2"}
MCMemberKey == {"app:7", "app:create:web"}
AppKeys == {"app:7", "app:create:web"}

(* Two deployments of one app.  `deploy` creates it: a volume, a container *)
(* and a last step that has nothing to undo and may fail.  `redeploy` also *)
(* records the volume as its own, and serialises with it.                  *)
SagaShape ==
  [deploy |->
     [Blank EXCEPT !.keys = {"app:7"}, !.identity = AppKeys, !.steps = 3,
        !.undo = {1, 2}, !.probed = {1}, !.goneCheck = {1},
        !.effect = {<<1, "volume">>, <<2, "container">>}],
   redeploy |->
     [Blank EXCEPT !.keys = {"app:7"}, !.identity = AppKeys, !.steps = 1,
        !.undo = {1}, !.probed = {1},
        !.effect = {<<1, "volume">>}],
   legacy |->
     [Blank EXCEPT !.keys = {"app:7"}, !.identity = AppKeys, !.known = FALSE]]
SagaRequest == DOMAIN SagaShape

(* A stack deployment, its member, and a user's redeployment of it.        *)
FamilyShape ==
  [stack |->
     [Blank EXCEPT !.keys = {"stack:2"}, !.identity = {"stack:2"}, !.steps = 2,
        !.spawns = {<<1, "member">>}],
   member |->
     [Blank EXCEPT !.keys = {"app:create:web"}, !.identity = AppKeys,
        !.undo = {1}, !.effect = {<<1, "container">>}],
   redeploy |->
     [Blank EXCEPT !.keys = {"app:7", "stack:2"}, !.identity = AppKeys \cup {"stack:2"}]]
FamilyRequest == DOMAIN FamilyShape

(* A stack teardown that spawns a destroy child, and a new deployment of   *)
(* the same stack.                                                         *)
TeardownShape ==
  [teardown |->
     [Blank EXCEPT !.keys = {"stack:2"}, !.identity = {"stack:2"}, !.steps = 2,
        !.spawns = {<<1, "destroyMember">>}],
   destroyMember |->
     [Blank EXCEPT !.keys = {"app:7"}, !.identity = AppKeys, !.destroys = TRUE],
   stack |->
     [Blank EXCEPT !.keys = {"stack:2"}, !.identity = {"stack:2"}]]
TeardownRequest == DOMAIN TeardownShape
=============================================================================
