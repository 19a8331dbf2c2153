---------------------------- MODULE KeyedSections ----------------------------
(***************************************************************************)
(* What "per-resource serialization" promises, and nothing of how: clients *)
(* ask for a set of keys and enter a section; two clients inside at once   *)
(* never share a key; a section ends on its own or with everybody's when   *)
(* the process dies.  Engine implements it, with operations as clients.    *)
(***************************************************************************)
CONSTANTS Client, Key

VARIABLES
  wants,   \* wants[c]: the keys c asked for
  inside   \* the clients in their section

vars == <<wants, inside>>

Init ==
  /\ wants = [c \in Client |-> {}]
  /\ inside = {}

(* A client says what it needs, once, and not while it is inside. *)
Ask(c) ==
  /\ c \notin inside
  /\ wants[c] = {}
  /\ \E keys \in SUBSET Key : wants' = [wants EXCEPT ![c] = keys]
  /\ UNCHANGED inside

Enter(c) ==
  /\ c \notin inside
  /\ \A d \in inside : wants[c] \cap wants[d] = {}
  /\ inside' = inside \cup {c}
  /\ UNCHANGED wants

Leave(c) ==
  /\ c \in inside
  /\ inside' = inside \ {c}
  /\ UNCHANGED wants

Reset ==
  /\ inside' = {}
  /\ UNCHANGED wants

Next ==
  \/ \E c \in Client : Ask(c) \/ Enter(c) \/ Leave(c)
  \/ Reset

Spec == Init /\ [][Next]_vars
=============================================================================
