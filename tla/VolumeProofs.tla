---------------------------- MODULE VolumeProofs ----------------------------
(***************************************************************************)
(* Manifests do what they say: ManifestIsApplied, for any apps, volumes,   *)
(* paths, faults and requests.                                             *)
(*                                                                         *)
(* Nothing that is done for one app changes the row, the manifest or the   *)
(* operations of another, except that it may supersede them.  So the       *)
(* invariant is about one app at a time: r is its row, m its manifest, j   *)
(* its operations, one of each kind, and n the faults that are left.       *)
(***************************************************************************)
EXTENDS VolumeProperties, TLAPS

(***************************************************************************)
(* Types                                                                   *)
(***************************************************************************)
Row ==
  [here : BOOLEAN, doomed : BOOLEAN, vol : Vol \cup {None}, path : Path \cup {None},
   adopted : BOOLEAN, driver : BOOLEAN,
   box : {Down} \cup [vol : Vol \cup {None}, path : Path \cup {None}], cur : BOOLEAN]
StepName == {"create", "record", "attach", "update"}
JobRow ==
  [st : {"idle", "pending", "running", "undoing", "owing", "done", "failed", "compensated"},
   lock : SUBSET (App \cup Vol), at : Nat, vol : Vol \cup {None}, path : Path \cup {None},
   old : Path \cup {None}, left : SUBSET StepName, owes : SUBSET StepName,
   soft : BOOLEAN, sup : BOOLEAN]
Want == [vol : Vol \cup {None, New}, path : Path \cup {None}]
ManRow ==
  [st : {"idle", "active", "done", "failed"}, at : Nat, mode : Modes \cup {None},
   want : Want \cup {None}, kids : SUBSET (Kind \cup {"redeploy", "reload"}), waits : Kind \cup {None}]

TypeOK ==
  /\ app \in [App -> Row]
  /\ job \in [Slot -> JobRow]
  /\ man \in [App -> ManRow]
  /\ \A a \in App : man[a].st = "active" => man[a].want \in Want /\ man[a].mode \in Modes /\ man[a].at > 0
  /\ budget \in [faults : 0 .. MaxFaults, edits : Nat]

(***************************************************************************)
(* One app                                                                 *)
(***************************************************************************)
Jobs(a) == [k \in Kind |-> job[<<a, k>>]]
Keyed == Kind \ {"resize"}
Worker == Keyed \ {"destroy"}
Taker == {"attach", "adopt"}
Late == {"attach", "adopt", "resize", "remount", "reload"}
Later == {"resize", "remount", "reload"}

Lives(j) == j.st \in {"pending", "running", "undoing", "owing"}
Works(j) == j.st \in {"running", "undoing"}
In(j, i) == j.st = "running" /\ j.at = i

Stays(r) == r.here = TRUE /\ r.doomed = FALSE
Active(m) == m.st = "active"
Wrong(r, m) ==
  \/ m.want.vol \in Vol /\ r.vol # m.want.vol
  \/ m.want.vol = New /\ r.adopted = TRUE
Right(r, m) == r.vol # None => m.want.vol # None /\ ~Wrong(r, m)
Wanted(r, m) == m.want.vol # None /\ r.vol # None /\ r.path = m.want.path /\ ~Wrong(r, m)
AsAsked(r, m) == IF m.want.vol = None THEN r.vol = None ELSE Wanted(r, m)
Takes(m) == IF m.want.vol = New THEN "attach" ELSE "adopt"

(* An operation that takes a volume and has not recorded it yet, and a     *)
(* detachment that has not cleared it.                                     *)
Unrecorded(r, x) == x.st = "pending" \/ In(x, 1) \/ (In(x, 2) /\ r.vol = None)
Uncleared(r, x) == x.st = "pending" \/ (x.st = "running" /\ x.at <= 2 /\ r.vol # None)

(* The step of a running operation is one it has, and only some of the     *)
(* operations have anything to undo.                                       *)
Within(k, x) ==
  /\ x.st = "running" => x.at \in (IF k = "resize" THEN {1} ELSE {1, 2, 3})
  /\ x.st \in {"undoing", "owing"} => k \in {"attach", "adopt", "remount"}

Keys(a, m, j) ==
  /\ \A k \in Kind : Within(k, j[k])
  /\ \A k \in Keyed : Lives(j[k]) => a \in j[k].lock
  /\ \A k, l \in Keyed : Works(j[k]) /\ Works(j[l]) => k = l
  /\ \A k, l \in Keyed : Lives(j[k]) /\ Lives(j[l]) /\ j[k].sup = FALSE /\ j[l].sup = FALSE => k = l
  /\ Active(m) => \A k \in Worker : Lives(j[k]) /\ k \notin m.kids => j[k].sup = TRUE

Recording(r, j) ==
  \A k \in Taker :
    /\ Lives(j[k]) => j[k].path # None
    /\ Lives(j[k]) /\ k = "adopt" => j[k].vol # None
    /\ In(j[k], 2) \/ In(j[k], 3) => j[k].vol # None
    /\ (In(j[k], 2) /\ r.vol # None) \/ In(j[k], 3) =>
         r.vol = j[k].vol /\ r.path = j[k].path /\ (r.adopted = TRUE <=> k = "adopt")

Mounting(r, x) ==
  /\ Lives(x) => x.path # None
  /\ In(x, 2) \/ In(x, 3) => r.vol # None /\ r.vol = x.vol /\ x.old # None
  /\ In(x, 3) => r.path = x.path
  /\ x.st \in {"undoing", "owing"} /\ x.sup = FALSE => r.vol # None /\ x.old # None

Rows(r, j) ==
  /\ r.vol = None <=> r.path = None
  /\ Recording(r, j)
  /\ In(j["detach"], 3) => r.vol = None
  /\ Mounting(r, j["remount"])

(* Where a manifest is, and what it has found.                             *)
Waits(m) ==
  /\ m.waits = "detach" => m.at = 2 /\ m.kids \cap Late = {}
  /\ m.waits \in Taker => m.at = 3
  /\ m.waits = "resize" => m.at = 4
  /\ m.waits = "remount" => m.at = 5
  /\ m.waits # None => m.waits \in m.kids /\ m.waits # "destroy"

Phases(m, j) ==
  Active(m) =>
    /\ m.at \in 1 .. 7
    /\ m.want.vol = None <=> m.want.path = None
    /\ m.mode = "candidate" /\ (m.at > 1 \/ m.kids # {}) => "redeploy" \in m.kids
    /\ \A k \in Taker : k \in m.kids => k = Takes(m)
    /\ m.kids \cap {"attach", "adopt", "resize", "remount"} # {} => m.want.vol # None
    /\ Waits(m)
    /\ m.at = 4 /\ m.waits = None => Takes(m) \in m.kids /\ m.want.vol # None /\ j[Takes(m)].st = "done"
    /\ m.at = 5 => "resize" \in m.kids
    /\ m.at = 6 => "remount" \in m.kids /\ j["remount"].st = "done"
    /\ m.at = 7 => "reload" \in m.kids

Taking(r, m, j) ==
  \A k \in Taker :
    /\ Unrecorded(r, j[k]) =>
         /\ Active(m) /\ k \in m.kids /\ m.kids \cap Later = {}
         /\ r.vol = None /\ m.at <= 3 /\ m.waits \in {None, k}
    /\ Active(m) /\ k \in m.kids =>
         /\ Lives(j[k]) => j[k].path = m.want.path /\ (k = "adopt" => j[k].vol = m.want.vol)
         /\ j[k].st = "done" => r.vol # None

Detached(r, m, x) ==
  /\ Uncleared(r, x) =>
       /\ Active(m) /\ "detach" \in m.kids /\ r.vol # None /\ ~Right(r, m)
       /\ m.at <= 2 /\ m.waits \in {None, "detach"}
  /\ Active(m) /\ "detach" \in m.kids /\ x.st = "done" => r.vol = None \/ m.kids \cap Late # {}

Settled(r, m, j) ==
  Active(m) =>
    /\ m.at >= 3 \/ m.kids \cap Late # {} => Right(r, m)
    /\ m.kids \cap Later # {} /\ m.want.vol # None => r.vol # None \/ Takes(m) \in m.kids
    /\ m.kids \cap {"remount", "reload"} # {} => \A k \in Taker : Lives(j[k]) => j[k].sup = TRUE

Stray(m, x) == "remount" \notin m.kids /\ x.st # "idle"
Remounts(r, m, x) ==
  Active(m) =>
    /\ "remount" \in m.kids =>
         /\ Lives(x) => x.path = m.want.path
         /\ x.st \in {"pending", "owing"} \/ In(x, 1) \/ (x.st = "undoing" /\ x.left = {}) => r.path # m.want.path
         /\ x.st \in {"undoing", "owing"} \/ In(x, 2) \/ In(x, 3) => x.old # m.want.path
         /\ x.st = "done" \/ In(x, 3) => Wanted(r, m)
    /\ m.at = 7 /\ ~Stray(m, x) => AsAsked(r, m) /\ (Lives(x) => x.sup = TRUE)

(* Nothing has failed so far.                                              *)
CalmKids(m, j, n) ==
  n = MaxFaults =>
    \A k \in Kind \ {"destroy"} : Lives(j[k]) =>
      Active(m) /\ m.waits = k /\ j[k].st \in {"pending", "running"}
CalmBox(r, m, n) ==
  n = MaxFaults /\ Active(m) /\ m.mode = "config" =>
    /\ r.cur = TRUE => r.vol = None \/ Wanted(r, m)
    /\ r.cur = TRUE /\ r.box # Down => r.box = [vol |-> r.vol, path |-> r.path]
    /\ "reload" \in m.kids => m.at = 7 /\ r.box = [vol |-> r.vol, path |-> r.path]

Whole(r, m, j, n) ==
  /\ Rows(r, j) /\ Phases(m, j) /\ Taking(r, m, j) /\ Detached(r, m, j["detach"])
  /\ Settled(r, m, j) /\ Remounts(r, m, j["remount"]) /\ CalmBox(r, m, n)

AppInv(a, r, m, j, n) ==
  /\ Keys(a, m, j) /\ CalmKids(m, j, n)
  /\ Stays(r) => Whole(r, m, j, n)

VolInv == \A a \in App : AppInv(a, app[a], man[a], Jobs(a), budget.faults)

Typed(r, m, j, n) ==
  /\ r \in Row /\ m \in ManRow /\ j \in [Kind -> JobRow] /\ n \in 0 .. MaxFaults
  /\ Active(m) => m.want \in Want /\ m.mode \in Modes

(***************************************************************************)
(* What happens elsewhere                                                  *)
(***************************************************************************)
(* The operations are the same, but some may be superseded now.            *)
Alike(x, y) ==
  /\ y.st = x.st /\ y.lock = x.lock /\ y.at = x.at /\ y.vol = x.vol /\ y.path = x.path
  /\ y.old = x.old /\ y.left = x.left /\ y.owes = x.owes
  /\ x.sup = TRUE => y.sup = TRUE

(* To be superseded does no harm, and neither does it that less may fail.  *)
LEMMA Superseded ==
  ASSUME NEW a, NEW r, NEW m, NEW j, NEW n, NEW j2, NEW n2,
         Typed(r, m, j, n), Typed(r, m, j2, n2), n2 <= n,
         \A k \in Kind : Alike(j[k], j2[k]), AppInv(a, r, m, j, n)
  PROVE  AppInv(a, r, m, j2, n2)
<1>a. /\ "attach" \in Kind /\ "adopt" \in Kind /\ "detach" \in Kind /\ "remount" \in Kind
      /\ Worker \subseteq Keyed /\ Keyed \subseteq Kind /\ Taker \subseteq Worker
  BY DEF Kind, Keyed, Worker, Taker
<1>s. \A k \in Kind : j[k].sup \in BOOLEAN /\ j2[k].sup \in BOOLEAN
  BY DEF Typed, JobRow
<1>l. \A k \in Kind : (Lives(j2[k]) <=> Lives(j[k])) /\ (Works(j2[k]) <=> Works(j[k]))
  BY DEF Alike, Lives, Works
<1>i. \A k \in Kind, i \in Nat : In(j2[k], i) <=> In(j[k], i)
  BY DEF Alike, In
<1>n. n2 = MaxFaults => n = MaxFaults
  BY BoundAssumption DEF Typed
<1>k. Keys(a, m, j2)
  BY <1>a, <1>s, <1>l DEF AppInv, Keys, Within, Alike
<1>c. CalmKids(m, j2, n2)
  BY <1>n, <1>l DEF AppInv, CalmKids, Alike
<1>1. ASSUME Stays(r) PROVE Whole(r, m, j2, n2)
  <2>w. Whole(r, m, j, n)
    BY <1>1 DEF AppInv
  <2>1. Rows(r, j2)
    BY <2>w, <1>a, <1>s, <1>l, <1>i DEF Whole, Rows, Recording, Mounting, Alike
  <2>2. Phases(m, j2)
    BY <2>w, <1>a DEF Whole, Phases, Alike, Takes, Taker
  <2>3. Taking(r, m, j2)
    BY <2>w, <1>a, <1>l, <1>i DEF Whole, Taking, Unrecorded, Alike
  <2>4. Detached(r, m, j2["detach"])
    BY <2>w, <1>a DEF Whole, Detached, Uncleared, Alike
  <2>5. Settled(r, m, j2)
    BY <2>w, <1>a, <1>l DEF Whole, Settled, Alike
  <2>6. Remounts(r, m, j2["remount"])
    BY <2>w, <1>a, <1>l, <1>i DEF Whole, Remounts, Stray, Alike
  <2>7. CalmBox(r, m, n2)
    BY <2>w, <1>n DEF Whole, CalmBox
  <2> QED BY <2>1, <2>2, <2>3, <2>4, <2>5, <2>6, <2>7 DEF Whole
<1> QED BY <1>k, <1>c, <1>1 DEF AppInv

(* A manifest that starts over knows less.                                 *)
LEMMA Restarted ==
  ASSUME NEW a, NEW r, NEW m, NEW j, NEW n, NEW m2, NEW n2,
         Typed(r, m, j, n), Typed(r, m2, j, n2), n2 < n, AppInv(a, r, m, j, n),
         m2 = IF m.st = "active" THEN [m EXCEPT !.at = 1, !.waits = None] ELSE m
  PROVE  AppInv(a, r, m2, j, n2)
<1>m. /\ m2.st = m.st /\ m2.mode = m.mode /\ m2.want = m.want /\ m2.kids = m.kids
      /\ Active(m) => m2.at = 1 /\ m2.waits = None
  BY DEF Typed, ManRow, Active
<1>n. n2 # MaxFaults
  BY BoundAssumption DEF Typed
<1>k. Keys(a, m2, j)
  BY <1>m DEF AppInv, Keys, Active
<1>c. CalmKids(m2, j, n2)
  BY <1>n DEF CalmKids
<1>1. ASSUME Stays(r) PROVE Whole(r, m2, j, n2)
  <2>w. Whole(r, m, j, n)
    BY <1>1 DEF AppInv
  <2>s. \A k \in Kind : None # k
    BY NamesAssumption
  <2>2. Phases(m2, j)
    BY <2>w, <1>m, <2>s DEF Whole, Phases, Active, Takes, Waits, Kind, Taker
  <2>3. Taking(r, m2, j)
    BY <2>w, <1>m DEF Whole, Taking, Active
  <2>4. Detached(r, m2, j["detach"])
    BY <2>w, <1>m DEF Whole, Detached, Active, Right, Wrong
  <2>5. Settled(r, m2, j)
    BY <2>w, <1>m DEF Whole, Settled, Active, Right, Wrong, Takes
  <2>6. Remounts(r, m2, j["remount"])
    BY <2>w, <1>m DEF Whole, Remounts, Active, Stray, AsAsked, Wanted, Wrong
  <2>7. CalmBox(r, m2, n2)
    BY <1>n DEF CalmBox
  <2> QED BY <2>w, <2>2, <2>3, <2>4, <2>5, <2>6, <2>7 DEF Whole
<1> QED BY <1>k, <1>c, <1>1 DEF AppInv

(***************************************************************************)
(* An operation moves                                                      *)
(***************************************************************************)
(* What a move of operation k must not do to the keys, and to the calm.    *)
LEMMA KeysKept ==
  ASSUME NEW a, NEW m, NEW j \in [Kind -> JobRow], NEW k \in Kind, NEW x, Keys(a, m, j),
         Within(k, x),
         Lives(x) => Lives(j[k]) /\ x.lock = j[k].lock /\ x.sup = j[k].sup,
         Works(x) => Works(j[k]) \/ k = "resize" \/ \A l \in Keyed : ~Works(j[l])
  PROVE  Keys(a, m, [j EXCEPT ![k] = x])
<1> DEFINE j2 == [j EXCEPT ![k] = x]
<1>1. j2[k] = x /\ \A l \in Kind \ {k} : j2[l] = j[l]
  OBVIOUS
<1> HIDE DEF j2
<1>2. Keyed \subseteq Kind /\ Worker \subseteq Keyed
  BY DEF Kind, Keyed, Worker
<1>3. \A l \in Kind : Within(l, j2[l])
  BY <1>1 DEF Keys
<1>4. \A l \in Keyed : Lives(j2[l]) => a \in j2[l].lock
  BY <1>1, <1>2 DEF Keys
<1>5. ASSUME NEW l \in Keyed, NEW o \in Keyed, Works(j2[l]), Works(j2[o]) PROVE l = o
  BY <1>1, <1>2, <1>5 DEF Keys, Keyed
<1>6. ASSUME NEW l \in Keyed, NEW o \in Keyed, Lives(j2[l]), Lives(j2[o]),
             j2[l].sup = FALSE, j2[o].sup = FALSE
      PROVE  l = o
  BY <1>1, <1>2, <1>6 DEF Keys
<1>7. Active(m) => \A l \in Worker : Lives(j2[l]) /\ l \notin m.kids => j2[l].sup = TRUE
  BY <1>1, <1>2 DEF Keys
<1>8. Keys(a, m, j2)
  BY <1>3, <1>4, <1>5, <1>6, <1>7 DEF Keys
<1> QED BY <1>8 DEF j2

LEMMA CalmKept ==
  ASSUME NEW m, NEW j \in [Kind -> JobRow], NEW n \in 0 .. MaxFaults, NEW n2 \in 0 .. MaxFaults,
         NEW k \in Kind, NEW x, n2 <= n, CalmKids(m, j, n),
         Lives(x) => Lives(j[k]) /\ (x.st \in {"pending", "running"} \/ x.st = j[k].st \/ n2 # MaxFaults)
  PROVE  CalmKids(m, [j EXCEPT ![k] = x], n2)
<1> DEFINE j2 == [j EXCEPT ![k] = x]
<1>1. j2[k] = x /\ \A l \in Kind \ {k} : j2[l] = j[l]
  OBVIOUS
<1>2. n2 = MaxFaults => n = MaxFaults
  BY BoundAssumption 
<1> HIDE DEF j2
<1>3. CalmKids(m, j2, n2)
  BY <1>1, <1>2 DEF CalmKids, Lives
<1> QED BY <1>3 DEF j2

(* The names of the kinds, as the leaves below need them.                  *)
LEMMA Kinds ==
  /\ \A k \in {"attach", "adopt", "detach", "resize", "remount", "destroy"} : k \in Kind /\ k # None
  /\ Taker \subseteq Worker /\ Worker \subseteq Keyed /\ Keyed \subseteq Kind
  /\ Taker = {"attach", "adopt"} /\ Worker = {"attach", "adopt", "detach", "remount"}
BY NamesAssumption DEF Kind, Keyed, Worker, Taker

(* The rows differ in what a move changes: where it is.                    *)
SameJob(x, y) == y.lock = x.lock /\ y.path = x.path /\ y.sup = x.sup

LEMMA Begins ==
  ASSUME NEW a, NEW r, NEW m, NEW j, NEW n, NEW k \in Kind, NEW x \in JobRow,
         Typed(r, m, j, n), AppInv(a, r, m, j, n),
         j[k].st = "pending", x.st = "running", x.at = 1, SameJob(j[k], x), x.vol = j[k].vol,
         k # "resize" => \A l \in Keyed : ~Works(j[l])
  PROVE  AppInv(a, r, m, [j EXCEPT ![k] = x], n)
<1> DEFINE j2 == [j EXCEPT ![k] = x]
<1>t. j \in [Kind -> JobRow] /\ n \in 0 .. MaxFaults /\ n <= n
  BY BoundAssumption DEF Typed
<1>1. j2[k] = x /\ \A l \in Kind \ {k} : j2[l] = j[l]
  BY <1>t
<1>x. x.lock = j[k].lock /\ x.path = j[k].path /\ x.sup = j[k].sup
  BY DEF SameJob
<1>l. Lives(x) /\ Lives(j[k])
  BY DEF Lives
<1>w. Within(k, x)
  BY DEF Within
<1>k. Keys(a, m, j2)
  BY <1>t, <1>x, <1>l, <1>w, KeysKept DEF AppInv
<1>c. CalmKids(m, j2, n)
  BY <1>t, <1>l, CalmKept DEF AppInv
<1> HIDE DEF j2
<1>2. ASSUME Stays(r) PROVE Whole(r, m, j2, n)
  <2>w. Whole(r, m, j, n)
    BY <1>2 DEF AppInv
  <2>1. Rows(r, j2)
    BY <2>w, <1>1, <1>x, <1>l, Kinds DEF Whole, Rows, Recording, Mounting, In
  <2>2. Phases(m, j2)
    BY <2>w, <1>1, <1>x, Kinds DEF Whole, Phases, Takes
  <2>3. Taking(r, m, j2)
    BY <2>w, <1>1, <1>x, <1>l, Kinds DEF Whole, Taking, Unrecorded, In
  <2>4. Detached(r, m, j2["detach"])
    BY <2>w, <1>1, <1>x, Kinds DEF Whole, Detached, Uncleared
  <2>5. Settled(r, m, j2)
    BY <2>w, <1>1, <1>x, <1>l, Kinds DEF Whole, Settled
  <2>6. Remounts(r, m, j2["remount"])
    BY <2>w, <1>1, <1>x, <1>l, Kinds DEF Whole, Remounts, Stray, In
  <2> QED BY <2>w, <2>1, <2>2, <2>3, <2>4, <2>5, <2>6 DEF Whole
<1>3. AppInv(a, r, m, j2, n)
  BY <1>k, <1>c, <1>2 DEF AppInv
<1> QED BY <1>3 DEF j2

(* A volume is created, or attached.                                       *)
LEMMA TakerGoes ==
  ASSUME NEW a, NEW r, NEW m, NEW j, NEW n, NEW k \in Kind, NEW x \in JobRow,
         Typed(r, m, j, n), AppInv(a, r, m, j, n),
         k \in Taker,
         In(j[k], 1),
         x.st = "running",
         x.at \in {1, 2},
         SameJob(j[k], x),
         k = "adopt" => x.vol = j[k].vol,
         Stays(r) => r.vol = None /\ x.vol # None
  PROVE  AppInv(a, r, m, [j EXCEPT ![k] = x], n)
<1> DEFINE j2 == [j EXCEPT ![k] = x]
<1>t. j \in [Kind -> JobRow] /\ n \in 0 .. MaxFaults /\ n <= n /\ k \in Kind
  BY BoundAssumption, Kinds DEF Typed
<1>1. j2[k] = x /\ \A l \in Kind \ {k} : j2[l] = j[l]
  BY <1>t
<1>x. x.lock = j[k].lock /\ x.path = j[k].path /\ x.sup = j[k].sup
  BY DEF SameJob
<1>l. Lives(x) /\ Lives(j[k]) /\ Works(j[k])
  BY DEF Lives, Works, In
<1>w. Within(k, x)
  BY Kinds DEF Within, Taker
<1>k. Keys(a, m, j2)
  BY <1>t, <1>x, <1>l, <1>w, KeysKept DEF AppInv
<1>c. CalmKids(m, j2, n)
  BY <1>t, <1>l, CalmKept DEF AppInv
<1> HIDE DEF j2
<1>2. ASSUME Stays(r) PROVE Whole(r, m, j2, n)
  <2>w. Whole(r, m, j, n)
    BY <1>2 DEF AppInv
  <2>1. Rows(r, j2)
    BY <2>w, <1>1, <1>2, <1>x, <1>l, Kinds DEF Whole, Rows, Recording, Mounting, In
  <2>2. Phases(m, j2)
    BY <2>w, <1>1, <1>2, <1>x, <1>l, Kinds DEF Whole, Phases, Takes, In
  <2>3. Taking(r, m, j2)
    BY <2>w, <1>1, <1>2, <1>x, <1>l, Kinds DEF Whole, Taking, Unrecorded, In
  <2>4. Detached(r, m, j2["detach"])
    BY <2>w, <1>1, <1>2, <1>x, <1>l, Kinds DEF Whole, Detached, Uncleared, In
  <2>5. Settled(r, m, j2)
    BY <2>w, <1>1, <1>2, <1>x, <1>l, Kinds DEF Whole, Settled
  <2>6. Remounts(r, m, j2["remount"])
    BY <2>w, <1>1, <1>2, <1>x, <1>l, Kinds DEF Whole, Remounts, Stray, In
  <2> QED BY <2>w, <2>1, <2>2, <2>3, <2>4, <2>5, <2>6 DEF Whole
<1>3. AppInv(a, r, m, j2, n)
  BY <1>k, <1>c, <1>2 DEF AppInv
<1> QED BY <1>3 DEF j2

(* A volume is detached.                                                   *)
LEMMA DetachGoes ==
  ASSUME NEW a, NEW r, NEW m, NEW j, NEW n, NEW x \in JobRow,
         Typed(r, m, j, n), AppInv(a, r, m, j, n),
         In(j["detach"], 1),
         x.st = "running",
         x.at \in {1, 2},
         SameJob(j["detach"], x)
  PROVE  AppInv(a, r, m, [j EXCEPT !["detach"] = x], n)
<1> DEFINE j2 == [j EXCEPT !["detach"] = x]
<1>t. j \in [Kind -> JobRow] /\ n \in 0 .. MaxFaults /\ n <= n /\ "detach" \in Kind
  BY BoundAssumption, Kinds DEF Typed
<1>1. j2["detach"] = x /\ \A l \in Kind \ {"detach"} : j2[l] = j[l]
  BY <1>t
<1>x. x.lock = j["detach"].lock /\ x.path = j["detach"].path /\ x.sup = j["detach"].sup
  BY DEF SameJob
<1>l. Lives(x) /\ Lives(j["detach"]) /\ Works(j["detach"])
  BY DEF Lives, Works, In
<1>w. Within("detach", x)
  BY Kinds DEF Within, Taker
<1>k. Keys(a, m, j2)
  BY <1>t, <1>x, <1>l, <1>w, KeysKept DEF AppInv
<1>c. CalmKids(m, j2, n)
  BY <1>t, <1>l, CalmKept DEF AppInv
<1> HIDE DEF j2
<1>2. ASSUME Stays(r) PROVE Whole(r, m, j2, n)
  <2>w. Whole(r, m, j, n)
    BY <1>2 DEF AppInv
  <2>1. Rows(r, j2)
    BY <2>w, <1>1, <1>2, <1>x, <1>l, Kinds DEF Whole, Rows, Recording, Mounting, In
  <2>2. Phases(m, j2)
    BY <2>w, <1>1, <1>2, <1>x, <1>l, Kinds DEF Whole, Phases, Takes, In
  <2>3. Taking(r, m, j2)
    BY <2>w, <1>1, <1>2, <1>x, <1>l, Kinds DEF Whole, Taking, Unrecorded, In
  <2>4. Detached(r, m, j2["detach"])
    BY <2>w, <1>1, <1>2, <1>x, <1>l, Kinds DEF Whole, Detached, Uncleared, In
  <2>5. Settled(r, m, j2)
    BY <2>w, <1>1, <1>2, <1>x, <1>l, Kinds DEF Whole, Settled
  <2>6. Remounts(r, m, j2["remount"])
    BY <2>w, <1>1, <1>2, <1>x, <1>l, Kinds DEF Whole, Remounts, Stray, In
  <2> QED BY <2>w, <2>1, <2>2, <2>3, <2>4, <2>5, <2>6 DEF Whole
<1>3. AppInv(a, r, m, j2, n)
  BY <1>k, <1>c, <1>2 DEF AppInv
<1> QED BY <1>3 DEF j2

(* The mount is looked at.                                                 *)
LEMMA MountGoes ==
  ASSUME NEW a, NEW r, NEW m, NEW j, NEW n, NEW x \in JobRow,
         Typed(r, m, j, n), AppInv(a, r, m, j, n),
         In(j["remount"], 1),
         x.st = "running",
         x.at \in {1, 2},
         SameJob(j["remount"], x),
         Stays(r) => r.vol # None /\ x.vol = r.vol /\ x.old = r.path
  PROVE  AppInv(a, r, m, [j EXCEPT !["remount"] = x], n)
<1> DEFINE j2 == [j EXCEPT !["remount"] = x]
<1>t. j \in [Kind -> JobRow] /\ n \in 0 .. MaxFaults /\ n <= n /\ "remount" \in Kind
  BY BoundAssumption, Kinds DEF Typed
<1>1. j2["remount"] = x /\ \A l \in Kind \ {"remount"} : j2[l] = j[l]
  BY <1>t
<1>x. x.lock = j["remount"].lock /\ x.path = j["remount"].path /\ x.sup = j["remount"].sup
  BY DEF SameJob
<1>l. Lives(x) /\ Lives(j["remount"]) /\ Works(j["remount"])
  BY DEF Lives, Works, In
<1>w. Within("remount", x)
  BY Kinds DEF Within, Taker
<1>k. Keys(a, m, j2)
  BY <1>t, <1>x, <1>l, <1>w, KeysKept DEF AppInv
<1>c. CalmKids(m, j2, n)
  BY <1>t, <1>l, CalmKept DEF AppInv
<1> HIDE DEF j2
<1>2. ASSUME Stays(r) PROVE Whole(r, m, j2, n)
  <2>w. Whole(r, m, j, n)
    BY <1>2 DEF AppInv
  <2>1. Rows(r, j2)
    BY <2>w, <1>1, <1>2, <1>x, <1>l, Kinds DEF Whole, Rows, Recording, Mounting, In
  <2>2. Phases(m, j2)
    BY <2>w, <1>1, <1>2, <1>x, <1>l, Kinds DEF Whole, Phases, Takes, In
  <2>3. Taking(r, m, j2)
    BY <2>w, <1>1, <1>2, <1>x, <1>l, Kinds DEF Whole, Taking, Unrecorded, In
  <2>4. Detached(r, m, j2["detach"])
    BY <2>w, <1>1, <1>2, <1>x, <1>l, Kinds DEF Whole, Detached, Uncleared, In
  <2>5. Settled(r, m, j2)
    BY <2>w, <1>1, <1>2, <1>x, <1>l, Kinds DEF Whole, Settled
  <2>6. Remounts(r, m, j2["remount"])
    BY <2>w, <1>1, <1>2, <1>x, <1>l, Kinds DEF Whole, Remounts, Stray, In
  <2> QED BY <2>w, <2>1, <2>2, <2>3, <2>4, <2>5, <2>6 DEF Whole
<1>3. AppInv(a, r, m, j2, n)
  BY <1>k, <1>c, <1>2 DEF AppInv
<1> QED BY <1>3 DEF j2

(* The row keeps what is recorded of the volume; the container need not.   *)
SameRow(r, r2) ==
  /\ r2.here = r.here /\ r2.doomed = r.doomed
  /\ r2.vol = r.vol /\ r2.path = r.path /\ r2.adopted = r.adopted

(* An operation ends without being done.                                   *)
LEMMA Ends ==
  ASSUME NEW a, NEW r, NEW m, NEW j, NEW n, NEW k \in Kind, NEW x \in JobRow,
         NEW r2 \in Row,
         NEW n2 \in 0 .. MaxFaults, n2 <= n,
         Typed(r, m, j, n), AppInv(a, r, m, j, n),
         Lives(j[k]),
         x.st \in {"failed", "compensated"},
         SameRow(r, r2),
         r2 = r \/ n2 # MaxFaults
  PROVE  AppInv(a, r2, m, [j EXCEPT ![k] = x], n2)
<1> DEFINE j2 == [j EXCEPT ![k] = x]
<1>t. j \in [Kind -> JobRow] /\ n \in 0 .. MaxFaults /\ n <= n /\ k \in Kind
  BY BoundAssumption, Kinds DEF Typed
<1>1. j2[k] = x /\ \A l \in Kind \ {k} : j2[l] = j[l]
  BY <1>t
<1>x. x.st # "running"
  OBVIOUS
<1>r. r2.here = r.here /\ r2.doomed = r.doomed /\ r2.vol = r.vol /\ r2.path = r.path /\ r2.adopted = r.adopted
  BY DEF SameRow
<1>n. n2 = MaxFaults => n = MaxFaults
  BY <1>t, BoundAssumption
<1>l. ~Lives(x) /\ ~Works(x)
  BY DEF Lives, Works
<1>w. Within(k, x)
  BY Kinds DEF Within, Taker
<1>k. Keys(a, m, j2)
  BY <1>t, <1>x, <1>l, <1>w, KeysKept DEF AppInv
<1>c. CalmKids(m, j2, n2)
  BY <1>t, <1>l, CalmKept DEF AppInv
<1> HIDE DEF j2
<1>2. ASSUME Stays(r2) PROVE Whole(r2, m, j2, n2)
  <2>s. Stays(r)
    BY <1>2, <1>r DEF Stays
  <2>w. Whole(r, m, j, n)
    BY <2>s DEF AppInv
  <2>1. Rows(r2, j2)
    BY <2>w, <1>1, <1>2, <1>x, <1>l, <1>r, Kinds DEF Whole, Rows, Recording, Mounting, In
  <2>2. Phases(m, j2)
    BY <2>w, <1>1, <1>2, <1>x, <1>l, <1>r, Kinds DEF Whole, Phases, Takes, In, Lives
  <2>3. Taking(r2, m, j2)
    BY <2>w, <1>1, <1>2, <1>x, <1>l, <1>r, Kinds DEF Whole, Taking, Unrecorded, In
  <2>4. Detached(r2, m, j2["detach"])
    BY <2>w, <1>1, <1>2, <1>x, <1>l, <1>r, Kinds DEF Whole, Detached, Uncleared, In, Right, Wrong
  <2>5. Settled(r2, m, j2)
    BY <2>w, <1>1, <1>2, <1>x, <1>l, <1>r, Kinds DEF Whole, Settled, Right, Wrong
  <2>6. Remounts(r2, m, j2["remount"])
    BY <2>w, <1>1, <1>2, <1>x, <1>l, <1>r, Kinds DEF Whole, Remounts, Stray, In, AsAsked, Wanted, Wrong
  <2>7. CalmBox(r2, m, n2)
    BY <2>w, <1>1, <1>2, <1>x, <1>l, <1>r, <1>n, Kinds DEF Whole, CalmBox, Wanted, Wrong
  <2> QED BY <2>w, <2>1, <2>2, <2>3, <2>4, <2>5, <2>6, <2>7 DEF Whole
<1>3. AppInv(a, r2, m, j2, n2)
  BY <1>k, <1>c, <1>2 DEF AppInv
<1> QED BY <1>3 DEF j2

(* A step has failed, and those before it are to be undone.                *)
LEMMA Undoes ==
  ASSUME NEW a, NEW r, NEW m, NEW j, NEW n, NEW k \in Kind, NEW x \in JobRow,
         NEW r2 \in Row,
         NEW n2 \in 0 .. MaxFaults, n2 <= n,
         Typed(r, m, j, n), AppInv(a, r, m, j, n),
         k \in {"attach", "adopt", "remount"},
         In(j[k], 2) \/ In(j[k], 3),
         k = "remount" => In(j[k], 3),
         x.st = "undoing",
         x.left # {},
         SameJob(j[k], x),
         x.vol = j[k].vol,
         x.old = j[k].old,
         SameRow(r, r2),
         n2 # MaxFaults
  PROVE  AppInv(a, r2, m, [j EXCEPT ![k] = x], n2)
<1> DEFINE j2 == [j EXCEPT ![k] = x]
<1>t. j \in [Kind -> JobRow] /\ n \in 0 .. MaxFaults /\ n <= n /\ k \in Kind
  BY BoundAssumption, Kinds DEF Typed
<1>1. j2[k] = x /\ \A l \in Kind \ {k} : j2[l] = j[l]
  BY <1>t
<1>x. x.lock = j[k].lock /\ x.path = j[k].path /\ x.sup = j[k].sup
  BY DEF SameJob
<1>r. r2.here = r.here /\ r2.doomed = r.doomed /\ r2.vol = r.vol /\ r2.path = r.path /\ r2.adopted = r.adopted
  BY DEF SameRow
<1>n. n2 = MaxFaults => n = MaxFaults
  BY <1>t, BoundAssumption
<1>l. Lives(x) /\ Lives(j[k]) /\ Works(j[k])
  BY DEF Lives, Works, In
<1>w. Within(k, x)
  BY Kinds DEF Within, Taker
<1>k. Keys(a, m, j2)
  BY <1>t, <1>x, <1>l, <1>w, KeysKept DEF AppInv
<1>c. CalmKids(m, j2, n2)
  BY <1>t, <1>l, CalmKept DEF AppInv
<1> HIDE DEF j2
<1>2. ASSUME Stays(r2) PROVE Whole(r2, m, j2, n2)
  <2>s. Stays(r)
    BY <1>2, <1>r DEF Stays
  <2>w. Whole(r, m, j, n)
    BY <2>s DEF AppInv
  <2>1. Rows(r2, j2)
    BY <2>w, <1>1, <1>2, <1>x, <1>l, <1>r, Kinds DEF Whole, Rows, Recording, Mounting, In
  <2>2. Phases(m, j2)
    BY <2>w, <1>1, <1>2, <1>x, <1>l, <1>r, Kinds DEF Whole, Phases, Takes, In, Lives
  <2>3. Taking(r2, m, j2)
    BY <2>w, <1>1, <1>2, <1>x, <1>l, <1>r, Kinds DEF Whole, Taking, Unrecorded, In
  <2>4. Detached(r2, m, j2["detach"])
    BY <2>w, <1>1, <1>2, <1>x, <1>l, <1>r, Kinds DEF Whole, Detached, Uncleared, In, Right, Wrong
  <2>5. Settled(r2, m, j2)
    BY <2>w, <1>1, <1>2, <1>x, <1>l, <1>r, Kinds DEF Whole, Settled, Right, Wrong
  <2>6. Remounts(r2, m, j2["remount"])
    BY <2>w, <1>1, <1>2, <1>x, <1>l, <1>r, Kinds DEF Whole, Remounts, Stray, In, AsAsked, Wanted, Wrong
  <2>7. CalmBox(r2, m, n2)
    BY <2>w, <1>1, <1>2, <1>x, <1>l, <1>r, <1>n, Kinds DEF Whole, CalmBox, Wanted, Wrong
  <2> QED BY <2>w, <2>1, <2>2, <2>3, <2>4, <2>5, <2>6, <2>7 DEF Whole
<1>3. AppInv(a, r2, m, j2, n2)
  BY <1>k, <1>c, <1>2 DEF AppInv
<1> QED BY <1>3 DEF j2

(* What could not be undone is owed.                                       *)
LEMMA Owes ==
  ASSUME NEW a, NEW r, NEW m, NEW j, NEW n, NEW k \in Kind, NEW x \in JobRow,
         Typed(r, m, j, n), AppInv(a, r, m, j, n),
         k \in {"attach", "adopt", "remount"},
         j[k].st = "undoing",
         j[k].left = {},
         x.st = "owing",
         SameJob(j[k], x),
         x.vol = j[k].vol,
         x.old = j[k].old
  PROVE  AppInv(a, r, m, [j EXCEPT ![k] = x], n)
<1> DEFINE j2 == [j EXCEPT ![k] = x]
<1>t. j \in [Kind -> JobRow] /\ n \in 0 .. MaxFaults /\ n <= n /\ k \in Kind
  BY BoundAssumption, Kinds DEF Typed
<1>1. j2[k] = x /\ \A l \in Kind \ {k} : j2[l] = j[l]
  BY <1>t
<1>x. x.lock = j[k].lock /\ x.path = j[k].path /\ x.sup = j[k].sup
  BY DEF SameJob
<1>l. Lives(x) /\ Lives(j[k]) /\ Works(j[k])
  BY DEF Lives, Works
<1>m. n # MaxFaults
  BY <1>l, Kinds DEF AppInv, CalmKids
<1>w. Within(k, x)
  BY Kinds DEF Within, Taker
<1>k. Keys(a, m, j2)
  BY <1>t, <1>x, <1>l, <1>w, KeysKept DEF AppInv
<1>c. CalmKids(m, j2, n)
  BY <1>t, <1>l, <1>m, CalmKept DEF AppInv
<1> HIDE DEF j2
<1>2. ASSUME Stays(r) PROVE Whole(r, m, j2, n)
  <2>w. Whole(r, m, j, n)
    BY <1>2 DEF AppInv
  <2>1. Rows(r, j2)
    BY <2>w, <1>1, <1>2, <1>x, <1>l, Kinds DEF Whole, Rows, Recording, Mounting, In
  <2>2. Phases(m, j2)
    BY <2>w, <1>1, <1>2, <1>x, <1>l, Kinds DEF Whole, Phases, Takes, In, Lives
  <2>3. Taking(r, m, j2)
    BY <2>w, <1>1, <1>2, <1>x, <1>l, Kinds DEF Whole, Taking, Unrecorded, In
  <2>4. Detached(r, m, j2["detach"])
    BY <2>w, <1>1, <1>2, <1>x, <1>l, Kinds DEF Whole, Detached, Uncleared, In
  <2>5. Settled(r, m, j2)
    BY <2>w, <1>1, <1>2, <1>x, <1>l, Kinds DEF Whole, Settled
  <2>6. Remounts(r, m, j2["remount"])
    BY <2>w, <1>1, <1>2, <1>x, <1>l, Kinds DEF Whole, Remounts, Stray, In
  <2> QED BY <2>w, <2>1, <2>2, <2>3, <2>4, <2>5, <2>6 DEF Whole
<1>3. AppInv(a, r, m, j2, n)
  BY <1>k, <1>c, <1>2 DEF AppInv
<1> QED BY <1>3 DEF j2

(* It is tried again.                                                      *)
LEMMA UndoesAgain ==
  ASSUME NEW a, NEW r, NEW m, NEW j, NEW n, NEW k \in Kind, NEW x \in JobRow,
         Typed(r, m, j, n), AppInv(a, r, m, j, n),
         k \in {"attach", "adopt", "remount"},
         j[k].st = "owing",
         x.st = "undoing",
         SameJob(j[k], x),
         x.vol = j[k].vol,
         x.old = j[k].old,
         \A l \in Keyed : ~Works(j[l])
  PROVE  AppInv(a, r, m, [j EXCEPT ![k] = x], n)
<1> DEFINE j2 == [j EXCEPT ![k] = x]
<1>t. j \in [Kind -> JobRow] /\ n \in 0 .. MaxFaults /\ n <= n /\ k \in Kind
  BY BoundAssumption, Kinds DEF Typed
<1>1. j2[k] = x /\ \A l \in Kind \ {k} : j2[l] = j[l]
  BY <1>t
<1>x. x.lock = j[k].lock /\ x.path = j[k].path /\ x.sup = j[k].sup
  BY DEF SameJob
<1>l. Lives(x) /\ Lives(j[k])
  BY DEF Lives
<1>m. n # MaxFaults
  BY <1>l, Kinds DEF AppInv, CalmKids
<1>w. Within(k, x)
  BY Kinds DEF Within, Taker
<1>k. Keys(a, m, j2)
  BY <1>t, <1>x, <1>l, <1>w, KeysKept DEF AppInv
<1>c. CalmKids(m, j2, n)
  BY <1>t, <1>l, <1>m, CalmKept DEF AppInv
<1> HIDE DEF j2
<1>2. ASSUME Stays(r) PROVE Whole(r, m, j2, n)
  <2>w. Whole(r, m, j, n)
    BY <1>2 DEF AppInv
  <2>1. Rows(r, j2)
    BY <2>w, <1>1, <1>2, <1>x, <1>l, Kinds DEF Whole, Rows, Recording, Mounting, In
  <2>2. Phases(m, j2)
    BY <2>w, <1>1, <1>2, <1>x, <1>l, Kinds DEF Whole, Phases, Takes, In, Lives
  <2>3. Taking(r, m, j2)
    BY <2>w, <1>1, <1>2, <1>x, <1>l, Kinds DEF Whole, Taking, Unrecorded, In
  <2>4. Detached(r, m, j2["detach"])
    BY <2>w, <1>1, <1>2, <1>x, <1>l, Kinds DEF Whole, Detached, Uncleared, In
  <2>5. Settled(r, m, j2)
    BY <2>w, <1>1, <1>2, <1>x, <1>l, Kinds DEF Whole, Settled
  <2>6. Remounts(r, m, j2["remount"])
    BY <2>w, <1>1, <1>2, <1>x, <1>l, Kinds DEF Whole, Remounts, Stray, In
  <2> QED BY <2>w, <2>1, <2>2, <2>3, <2>4, <2>5, <2>6 DEF Whole
<1>3. AppInv(a, r, m, j2, n)
  BY <1>k, <1>c, <1>2 DEF AppInv
<1> QED BY <1>3 DEF j2

(* The volume is recorded, or once more.                                   *)
LEMMA Records ==
  ASSUME NEW a, NEW r, NEW m, NEW j, NEW n, NEW k \in Kind, NEW x \in JobRow,
         NEW r2 \in Row,
         Typed(r, m, j, n), AppInv(a, r, m, j, n),
         k \in Taker,
         In(j[k], 2),
         x.st = "running",
         x.at \in {2, 3},
         SameJob(j[k], x),
         x.vol = j[k].vol,
         r2.here = r.here,
         r2.doomed = r.doomed,
         r.vol \in {None, x.vol},
         r2.vol = x.vol,
         r2.path = x.path,
         r2.adopted = TRUE <=> k = "adopt",
         r2.cur = FALSE
  PROVE  AppInv(a, r2, m, [j EXCEPT ![k] = x], n)
<1> DEFINE j2 == [j EXCEPT ![k] = x]
<1>t. j \in [Kind -> JobRow] /\ n \in 0 .. MaxFaults /\ n <= n /\ k \in Kind
  BY BoundAssumption, Kinds DEF Typed
<1>1. j2[k] = x /\ \A l \in Kind \ {k} : j2[l] = j[l]
  BY <1>t
<1>x. x.lock = j[k].lock /\ x.path = j[k].path /\ x.sup = j[k].sup
  BY DEF SameJob
<1>r. r2.here = r.here /\ r2.doomed = r.doomed
  OBVIOUS
<1>l. Lives(x) /\ Lives(j[k]) /\ Works(j[k])
  BY DEF Lives, Works, In
<1>w. Within(k, x)
  BY Kinds DEF Within, Taker
<1>k. Keys(a, m, j2)
  BY <1>t, <1>x, <1>l, <1>w, KeysKept DEF AppInv
<1>c. CalmKids(m, j2, n)
  BY <1>t, <1>l, CalmKept DEF AppInv
<1> HIDE DEF j2
<1>2. ASSUME Stays(r2) PROVE Whole(r2, m, j2, n)
  <2>s. Stays(r)
    BY <1>2, <1>r DEF Stays
  <2>w. Whole(r, m, j, n)
    BY <2>s DEF AppInv
  <2>o. \A l \in Keyed \ {k} : ~Works(j[l])
    BY <1>l, Kinds DEF AppInv, Keys
  <2>m. n = MaxFaults /\ Active(m) => m.at # 7
    BY <2>w, <1>l, Kinds DEF AppInv, CalmKids, Whole, Phases, Waits
  <2>a. CASE r.vol # None
    <3>r. r2.vol = r.vol /\ r2.path = r.path /\ (r2.adopted = TRUE <=> r.adopted = TRUE)
      BY <2>w, <2>a, <1>x DEF Whole, Rows, Recording
    <3>1. Rows(r2, j2)
      BY <2>a, <2>m, <2>w, <3>r, <2>o, <1>1, <1>2, <1>x, <1>l, Kinds DEF Whole, Rows, Recording, Mounting, In, Works
    <3>2. Phases(m, j2)
      BY <2>a, <2>m, <2>w, <3>r, <2>o, <1>1, <1>2, <1>x, <1>l, Kinds DEF Whole, Phases, Takes, In, Lives
    <3>3. Taking(r2, m, j2)
      <4>1. ASSUME NEW l \in Taker, l # k PROVE ~Unrecorded(r2, j2[l])
        BY <2>a, <2>m, <2>w, <3>r, <2>o, <1>1, <1>2, <1>x, <1>l, Kinds, <4>1 DEF Whole, Phases, Taking, Unrecorded, In, Works
      <4>2. ~Unrecorded(r2, j2[k])
        BY <2>a, <2>m, <2>w, <3>r, <2>o, <1>1, <1>2, <1>x, <1>l, Kinds DEF Unrecorded, In
      <4>3. ASSUME NEW l \in Taker, Active(m), l \in m.kids, Lives(j2[l])
            PROVE  j2[l].path = m.want.path /\ (l = "adopt" => j2[l].vol = m.want.vol)
        <5>1. j2[l].path = j[l].path /\ j2[l].vol = j[l].vol /\ Lives(j[l])
          BY <1>1, <1>x, <1>l, <4>3, Kinds
        <5> QED BY <2>w, <4>3, <5>1 DEF Whole, Taking
      <4>4. r2.vol # None
        BY <2>a, <2>m, <2>w, <3>r, <2>o, <1>1, <1>2, <1>x, <1>l, Kinds
      <4> QED BY <4>1, <4>2, <4>3, <4>4 DEF Taking
    <3>4. Detached(r2, m, j2["detach"])
      BY <2>a, <2>m, <2>w, <3>r, <2>o, <1>1, <1>2, <1>x, <1>l, Kinds DEF Whole, Detached, Uncleared, In, Right, Wrong, Works, Late
    <3>5. Settled(r2, m, j2)
      BY <2>a, <2>m, <2>w, <3>r, <2>o, <1>1, <1>2, <1>x, <1>l, Kinds DEF Whole, Settled, Right, Wrong
    <3>6. Remounts(r2, m, j2["remount"])
      BY <2>a, <2>m, <2>w, <3>r, <2>o, <1>1, <1>2, <1>x, <1>l, Kinds DEF Whole, Remounts, Stray, In, AsAsked, Wanted, Wrong, Works, Later
    <3>7. CalmBox(r2, m, n)
      BY <2>a, <2>m, <2>w, <3>r, <2>o, <1>1, <1>2, <1>x, <1>l, Kinds DEF Whole, CalmBox, Wanted, Wrong
    <3> QED BY <2>w, <3>1, <3>2, <3>3, <3>4, <3>5, <3>6, <3>7 DEF Whole
  <2>b. CASE r.vol = None
    <3>u. /\ Active(m) /\ k \in m.kids /\ m.kids \cap Later = {} /\ m.at <= 3 /\ m.waits \in {None, k}
          /\ k = Takes(m) /\ m.want.vol # None /\ x.path = m.want.path /\ x.path # None /\ x.vol # None
          /\ k = "adopt" => x.vol = m.want.vol
      BY <2>w, <2>b, <1>x, <1>l, Kinds DEF Whole, Rows, Recording, Phases, Taking, Unrecorded
    <3>r. r2.vol # None /\ r2.path = m.want.path /\ ~Wrong(r2, m)
      BY <3>u, NamesAssumption DEF Wrong, Takes
    <3>1. Rows(r2, j2)
      BY <2>b, <2>m, <2>w, <3>r, <3>u, <2>o, <1>1, <1>2, <1>x, <1>l, Kinds DEF Whole, Rows, Recording, Mounting, In, Works
    <3>2. Phases(m, j2)
      BY <2>b, <2>m, <2>w, <3>r, <3>u, <2>o, <1>1, <1>2, <1>x, <1>l, Kinds DEF Whole, Phases, Takes, In, Lives
    <3>3. Taking(r2, m, j2)
      <4>1. ASSUME NEW l \in Taker, l # k PROVE ~Unrecorded(r2, j2[l])
        BY <2>b, <2>m, <2>w, <3>r, <3>u, <2>o, <1>1, <1>2, <1>x, <1>l, Kinds, <4>1 DEF Whole, Phases, Taking, Unrecorded, In, Works
      <4>2. ~Unrecorded(r2, j2[k])
        BY <2>b, <2>m, <2>w, <3>r, <3>u, <2>o, <1>1, <1>2, <1>x, <1>l, Kinds DEF Unrecorded, In
      <4>3. ASSUME NEW l \in Taker, Active(m), l \in m.kids, Lives(j2[l])
            PROVE  j2[l].path = m.want.path /\ (l = "adopt" => j2[l].vol = m.want.vol)
        <5>1. j2[l].path = j[l].path /\ j2[l].vol = j[l].vol /\ Lives(j[l])
          BY <1>1, <1>x, <1>l, <4>3, Kinds
        <5> QED BY <2>w, <4>3, <5>1 DEF Whole, Taking
      <4>4. r2.vol # None
        BY <2>b, <2>m, <2>w, <3>r, <3>u, <2>o, <1>1, <1>2, <1>x, <1>l, Kinds
      <4> QED BY <4>1, <4>2, <4>3, <4>4 DEF Taking
    <3>4. Detached(r2, m, j2["detach"])
      BY <2>b, <2>m, <2>w, <3>r, <3>u, <2>o, <1>1, <1>2, <1>x, <1>l, Kinds DEF Whole, Detached, Uncleared, In, Right, Wrong, Works, Late
    <3>5. Settled(r2, m, j2)
      BY <2>b, <2>m, <2>w, <3>r, <3>u, <2>o, <1>1, <1>2, <1>x, <1>l, Kinds DEF Whole, Settled, Right, Wrong
    <3>6. Remounts(r2, m, j2["remount"])
      BY <2>b, <2>m, <2>w, <3>r, <3>u, <2>o, <1>1, <1>2, <1>x, <1>l, Kinds DEF Whole, Remounts, Stray, In, AsAsked, Wanted, Wrong, Works, Later
    <3>7. CalmBox(r2, m, n)
      BY <2>b, <2>m, <2>w, <3>r, <3>u, <2>o, <1>1, <1>2, <1>x, <1>l, Kinds DEF Whole, CalmBox, Wanted, Wrong
    <3> QED BY <2>w, <3>1, <3>2, <3>3, <3>4, <3>5, <3>6, <3>7 DEF Whole
  <2> QED BY <2>a, <2>b
<1>3. AppInv(a, r2, m, j2, n)
  BY <1>k, <1>c, <1>2 DEF AppInv
<1> QED BY <1>3 DEF j2

(* The container is recreated with the mount.                              *)
LEMMA Recreates ==
  ASSUME NEW a, NEW r, NEW m, NEW j, NEW n, NEW k \in Kind, NEW x \in JobRow,
         NEW r2 \in Row,
         Typed(r, m, j, n), AppInv(a, r, m, j, n),
         k \in {"attach", "adopt", "remount"},
         In(j[k], 3),
         \/ x.st = "done"
         \/ x.st = "running" /\ x.at = 3 /\ SameJob(j[k], x) /\ x.vol = j[k].vol /\ x.old = j[k].old,
         SameRow(r, r2),
         r2.box = IF r.cur = TRUE /\ r.box # Down THEN r.box ELSE [vol |-> j[k].vol, path |-> j[k].path]
  PROVE  AppInv(a, r2, m, [j EXCEPT ![k] = x], n)
<1> DEFINE j2 == [j EXCEPT ![k] = x]
<1>t. j \in [Kind -> JobRow] /\ n \in 0 .. MaxFaults /\ n <= n /\ k \in Kind
  BY BoundAssumption, Kinds DEF Typed
<1>1. j2[k] = x /\ \A l \in Kind \ {k} : j2[l] = j[l]
  BY <1>t
<1>x. Lives(x) => /\ x.lock = j[k].lock /\ x.path = j[k].path /\ x.sup = j[k].sup
                  /\ x.vol = j[k].vol /\ x.old = j[k].old
  BY DEF SameJob, Lives
<1>r. r2.here = r.here /\ r2.doomed = r.doomed /\ r2.vol = r.vol /\ r2.path = r.path /\ r2.adopted = r.adopted
  BY DEF SameRow
<1>l. (Lives(x) => x.st = "running" /\ x.at = 3) /\ Lives(j[k]) /\ Works(j[k]) /\ (Works(x) => x.st = "running" /\ x.at = 3)
  BY DEF Lives, Works, In
<1>w. Within(k, x)
  BY Kinds DEF Within, Taker
<1>k. Keys(a, m, j2)
  BY <1>t, <1>x, <1>l, <1>w, KeysKept DEF AppInv
<1>c. CalmKids(m, j2, n)
  BY <1>t, <1>l, CalmKept DEF AppInv
<1> HIDE DEF j2
<1>2. ASSUME Stays(r2) PROVE Whole(r2, m, j2, n)
  <2>s. Stays(r)
    BY <1>2, <1>r DEF Stays
  <2>w. Whole(r, m, j, n)
    BY <2>s DEF AppInv
  <2>m. ASSUME n = MaxFaults PROVE Active(m) /\ k \in m.kids /\ m.at # 7
    BY <2>w, <2>m, <1>l, Kinds DEF AppInv, CalmKids, Whole, Phases, Waits
  <2>v. r.vol = j[k].vol /\ r.path = j[k].path /\ r.vol # None
    BY <2>w, <1>x, Kinds DEF Whole, Rows, Recording, Mounting
  <2>q. ASSUME n = MaxFaults PROVE Wanted(r, m)
    <3>1. Active(m) /\ k \in m.kids
      BY <2>m, <2>q
    <3>2. CASE k = "remount"
      BY <2>w, <3>1, <3>2 DEF Whole, Remounts
    <3>3. CASE k \in Taker
      <4>1. r.path = m.want.path /\ m.want.vol # None
        BY <2>w, <2>v, <3>1, <3>3, <1>x, <1>l, Kinds DEF Whole, Taking, Phases
      <4>2. Right(r, m)
        BY <2>w, <3>1, <3>3, Kinds DEF Whole, Settled, Late
      <4> QED BY <4>1, <4>2, <2>v DEF Wanted, Right
    <3> QED BY <3>2, <3>3 DEF Taker
  <2>1. Rows(r2, j2)
    <3>1. Recording(r2, j2)
      <4>1. Recording(r2, j)
        BY <2>w, <1>r DEF Whole, Rows, Recording
      <4>2. (In(x, 2) => FALSE) /\ (In(x, 3) => Lives(x))
        BY <1>l DEF In, Lives
      <4>3. ASSUME k \in Taker
            PROVE  /\ Lives(x) => x.path # None /\ x.vol # None
                   /\ In(x, 3) => r2.vol = x.vol /\ r2.path = x.path /\ (r2.adopted = TRUE <=> k = "adopt")
        BY <4>1, <4>2, <4>3, <1>x, <1>l, <1>r, <2>v DEF Recording
      <4>4. ASSUME NEW o \in Taker
            PROVE  /\ Lives(j2[o]) => j2[o].path # None
                   /\ Lives(j2[o]) /\ o = "adopt" => j2[o].vol # None
                   /\ In(j2[o], 2) \/ In(j2[o], 3) => j2[o].vol # None
                   /\ (In(j2[o], 2) /\ r2.vol # None) \/ In(j2[o], 3) =>
                        r2.vol = j2[o].vol /\ r2.path = j2[o].path /\ (r2.adopted = TRUE <=> o = "adopt")
        <5>1. CASE o = k
          BY <5>1, <4>2, <4>3, <1>1
        <5>2. CASE o # k
          BY <5>2, <4>1, <1>1, Kinds DEF Recording
        <5> QED BY <5>1, <5>2
      <4> QED BY <4>4 DEF Recording
    <3>2. Mounting(r2, j2["remount"])
      BY <2>w, <1>1, <1>x, <1>l, <1>r, <2>v, Kinds DEF Whole, Rows, Mounting, In, Lives
    <3>3. In(j2["detach"], 3) => r2.vol = None
      BY <2>w, <1>1, <1>r, Kinds DEF Whole, Rows
    <3>4. r2.vol = None <=> r2.path = None
      BY <2>w, <1>r DEF Whole, Rows
    <3> QED BY <3>1, <3>2, <3>3, <3>4 DEF Rows
  <2>2. Phases(m, j2)
    BY <2>w, <1>1, <1>2, <1>x, <1>l, <1>r, <2>v, Kinds DEF Whole, Phases, Takes, In, Lives
  <2>3. Taking(r2, m, j2)
    <3>1. ASSUME NEW l \in Taker PROVE ~Unrecorded(r2, j2[l])
      BY <1>1, <1>l, <1>r, <2>v, <2>w, <3>1, Kinds DEF Whole, Taking, Unrecorded, In
    <3>3. ASSUME NEW l \in Taker, Active(m), l \in m.kids, Lives(j2[l])
          PROVE  j2[l].path = m.want.path /\ (l = "adopt" => j2[l].vol = m.want.vol)
      <4>1. j2[l].path = j[l].path /\ j2[l].vol = j[l].vol /\ Lives(j[l])
        BY <1>1, <1>x, <1>l, <3>3, Kinds
      <4> QED BY <2>w, <3>3, <4>1 DEF Whole, Taking
    <3>4. r2.vol # None
      BY <1>r, <2>v
    <3> QED BY <3>1, <3>3, <3>4 DEF Taking
  <2>4. Detached(r2, m, j2["detach"])
    BY <2>w, <1>1, <1>2, <1>x, <1>l, <1>r, <2>v, Kinds DEF Whole, Detached, Uncleared, In, Right, Wrong
  <2>5. Settled(r2, m, j2)
    BY <2>w, <1>1, <1>2, <1>x, <1>l, <1>r, <2>v, Kinds DEF Whole, Settled, Right, Wrong
  <2>6. Remounts(r2, m, j2["remount"])
    BY <2>w, <1>1, <1>2, <1>x, <1>l, <1>r, <2>v, Kinds DEF Whole, Remounts, Stray, In, AsAsked, Wanted, Wrong
  <2>7. CalmBox(r2, m, n)
    <3>1. CASE n = MaxFaults
      <4>1. m.at # 7 /\ Wanted(r2, m)
        BY <2>m, <2>q, <3>1, <1>r DEF Wanted, Wrong
      <4>2. m.mode = "config" => r2.box = [vol |-> r2.vol, path |-> r2.path]
        BY <2>w, <2>m, <2>v, <3>1, <1>r DEF Whole, CalmBox
      <4> QED BY <2>w, <3>1, <4>1, <4>2 DEF Whole, CalmBox
    <3>2. CASE n # MaxFaults
      BY <3>2 DEF CalmBox
    <3> QED BY <3>1, <3>2
  <2> QED BY <2>w, <2>1, <2>2, <2>3, <2>4, <2>5, <2>6, <2>7 DEF Whole
<1>3. AppInv(a, r2, m, j2, n)
  BY <1>k, <1>c, <1>2 DEF AppInv
<1> QED BY <1>3 DEF j2

(* The row is cleared of the volume, or once more.                         *)
LEMMA Clears ==
  ASSUME NEW a, NEW r, NEW m, NEW j, NEW n, NEW x \in JobRow,
         NEW r2 \in Row,
         Typed(r, m, j, n), AppInv(a, r, m, j, n),
         In(j["detach"], 2),
         x.st = "running",
         x.at \in {2, 3},
         SameJob(j["detach"], x),
         r2.here = r.here,
         r2.doomed = r.doomed,
         r2.vol = None,
         r2.path = None,
         r2.box = r.box,
         r2.cur = r.cur
  PROVE  AppInv(a, r2, m, [j EXCEPT !["detach"] = x], n)
<1> DEFINE j2 == [j EXCEPT !["detach"] = x]
<1>t. j \in [Kind -> JobRow] /\ n \in 0 .. MaxFaults /\ n <= n /\ "detach" \in Kind
  BY BoundAssumption, Kinds DEF Typed
<1>1. j2["detach"] = x /\ \A l \in Kind \ {"detach"} : j2[l] = j[l]
  BY <1>t
<1>x. x.lock = j["detach"].lock /\ x.path = j["detach"].path /\ x.sup = j["detach"].sup
  BY DEF SameJob
<1>r. r2.here = r.here /\ r2.doomed = r.doomed
  OBVIOUS
<1>l. Lives(x) /\ Lives(j["detach"]) /\ Works(j["detach"])
  BY DEF Lives, Works, In
<1>w. Within("detach", x)
  BY Kinds DEF Within, Taker
<1>k. Keys(a, m, j2)
  BY <1>t, <1>x, <1>l, <1>w, KeysKept DEF AppInv
<1>c. CalmKids(m, j2, n)
  BY <1>t, <1>l, CalmKept DEF AppInv
<1> HIDE DEF j2
<1>2. ASSUME Stays(r2) PROVE Whole(r2, m, j2, n)
  <2>s. Stays(r)
    BY <1>2, <1>r DEF Stays
  <2>w. Whole(r, m, j, n)
    BY <2>s DEF AppInv
  <2>o. \A l \in Keyed \ {"detach"} : ~Works(j[l])
    BY <1>l, Kinds DEF AppInv, Keys
  <2>a. CASE r.vol = None
    <3>p. r.path = None
      BY <2>w, <2>a DEF Whole, Rows
    <3>1. Rows(r2, j2)
      BY <3>p, <2>a, <2>w, <2>o, <1>1, <1>2, <1>x, <1>l, Kinds DEF Whole, Rows, Recording, Mounting, In, Works, Lives
    <3>2. Phases(m, j2)
      BY <3>p, <2>a, <2>w, <2>o, <1>1, <1>2, <1>x, <1>l, Kinds DEF Whole, Phases, Takes, In, Lives
    <3>3. Taking(r2, m, j2)
      BY <3>p, <2>a, <2>w, <2>o, <1>1, <1>2, <1>x, <1>l, Kinds DEF Whole, Taking, Unrecorded, In, Works
    <3>4. Detached(r2, m, j2["detach"])
      BY <3>p, <2>a, <2>w, <2>o, <1>1, <1>2, <1>x, <1>l, Kinds DEF Whole, Detached, Uncleared, In, Right, Wrong, Works
    <3>5. Settled(r2, m, j2)
      BY <3>p, <2>a, <2>w, <2>o, <1>1, <1>2, <1>x, <1>l, Kinds DEF Whole, Settled, Right, Wrong
    <3>6. Remounts(r2, m, j2["remount"])
      BY <3>p, <2>a, <2>w, <2>o, <1>1, <1>2, <1>x, <1>l, Kinds DEF Whole, Remounts, Stray, In, AsAsked, Wanted, Wrong, Works
    <3>7. CalmBox(r2, m, n)
      BY <3>p, <2>a, <2>w, <2>o, <1>1, <1>2, <1>x, <1>l, Kinds DEF Whole, CalmBox, Wanted, Right, Wrong
    <3> QED BY <2>w, <3>1, <3>2, <3>3, <3>4, <3>5, <3>6, <3>7 DEF Whole
  <2>b. CASE r.vol # None
    <3>u. /\ Active(m) /\ "detach" \in m.kids /\ ~Right(r, m) /\ m.at <= 2 /\ m.at # 7
          /\ m.kids \cap Late = {} /\ m.kids \cap Later = {} /\ "remount" \notin m.kids
          /\ \A l \in Taker : l \notin m.kids
      <4>1. Uncleared(r, j["detach"])
        BY <2>b DEF Uncleared, In
      <4> QED BY <2>w, <4>1 DEF Whole, Detached, Settled, Late, Later, Taker
    <3>k. Lives(j["remount"]) => j["remount"].sup = TRUE
      BY <3>u, Kinds DEF AppInv, Keys
    <3>1. Rows(r2, j2)
      BY <2>b, <3>u, <3>k, <2>w, <2>o, <1>1, <1>2, <1>x, <1>l, Kinds DEF Whole, Rows, Recording, Mounting, In, Works, Lives
    <3>2. Phases(m, j2)
      BY <2>b, <3>u, <3>k, <2>w, <2>o, <1>1, <1>2, <1>x, <1>l, Kinds DEF Whole, Phases, Takes, In, Lives
    <3>3. Taking(r2, m, j2)
      BY <2>b, <3>u, <3>k, <2>w, <2>o, <1>1, <1>2, <1>x, <1>l, Kinds DEF Whole, Taking, Unrecorded, In, Works
    <3>4. Detached(r2, m, j2["detach"])
      BY <2>b, <3>u, <3>k, <2>w, <2>o, <1>1, <1>2, <1>x, <1>l, Kinds DEF Whole, Detached, Uncleared, In, Right, Wrong, Works
    <3>5. Settled(r2, m, j2)
      BY <2>b, <3>u, <3>k, <2>w, <2>o, <1>1, <1>2, <1>x, <1>l, Kinds DEF Whole, Settled, Right, Wrong
    <3>6. Remounts(r2, m, j2["remount"])
      BY <2>b, <3>u, <3>k, <2>w, <2>o, <1>1, <1>2, <1>x, <1>l, Kinds DEF Whole, Remounts, Stray, In, AsAsked, Wanted, Wrong, Works
    <3>7. CalmBox(r2, m, n)
      BY <2>b, <3>u, <3>k, <2>w, <2>o, <1>1, <1>2, <1>x, <1>l, Kinds DEF Whole, CalmBox, Wanted, Right, Wrong
    <3> QED BY <2>w, <3>1, <3>2, <3>3, <3>4, <3>5, <3>6, <3>7 DEF Whole
  <2> QED BY <2>a, <2>b
<1>3. AppInv(a, r2, m, j2, n)
  BY <1>k, <1>c, <1>2 DEF AppInv
<1> QED BY <1>3 DEF j2

(* The container is recreated without it.                                  *)
LEMMA Bares ==
  ASSUME NEW a, NEW r, NEW m, NEW j, NEW n, NEW x \in JobRow,
         NEW r2 \in Row,
         Typed(r, m, j, n), AppInv(a, r, m, j, n),
         In(j["detach"], 3),
         x.st = "done" \/ (x.st = "running" /\ x.at = 3 /\ SameJob(j["detach"], x)),
         SameRow(r, r2),
         r2.box = IF r.cur = TRUE /\ r.box # Down THEN r.box ELSE [vol |-> None, path |-> None]
  PROVE  AppInv(a, r2, m, [j EXCEPT !["detach"] = x], n)
<1> DEFINE j2 == [j EXCEPT !["detach"] = x]
<1>t. j \in [Kind -> JobRow] /\ n \in 0 .. MaxFaults /\ n <= n /\ "detach" \in Kind
  BY BoundAssumption, Kinds DEF Typed
<1>1. j2["detach"] = x /\ \A l \in Kind \ {"detach"} : j2[l] = j[l]
  BY <1>t
<1>x. Lives(x) => x.lock = j["detach"].lock /\ x.path = j["detach"].path /\ x.sup = j["detach"].sup
  BY DEF SameJob, Lives
<1>r. r2.here = r.here /\ r2.doomed = r.doomed /\ r2.vol = r.vol /\ r2.path = r.path /\ r2.adopted = r.adopted
  BY DEF SameRow
<1>l. (Lives(x) => x.st = "running" /\ x.at = 3) /\ Lives(j["detach"]) /\ Works(j["detach"]) /\ (Works(x) => x.st = "running" /\ x.at = 3)
  BY DEF Lives, Works, In
<1>w. Within("detach", x)
  BY Kinds DEF Within, Taker
<1>k. Keys(a, m, j2)
  BY <1>t, <1>x, <1>l, <1>w, KeysKept DEF AppInv
<1>c. CalmKids(m, j2, n)
  BY <1>t, <1>l, CalmKept DEF AppInv
<1> HIDE DEF j2
<1>2. ASSUME Stays(r2) PROVE Whole(r2, m, j2, n)
  <2>s. Stays(r)
    BY <1>2, <1>r DEF Stays
  <2>w. Whole(r, m, j, n)
    BY <2>s DEF AppInv
  <2>v. r.vol = None /\ r.path = None
    BY <2>w DEF Whole, Rows
  <2>1. Rows(r2, j2)
    BY <2>v, <2>w, <1>1, <1>2, <1>x, <1>l, <1>r, Kinds DEF Whole, Rows, Recording, Mounting, In
  <2>2. Phases(m, j2)
    BY <2>v, <2>w, <1>1, <1>2, <1>x, <1>l, <1>r, Kinds DEF Whole, Phases, Takes, In, Lives
  <2>3. Taking(r2, m, j2)
    BY <2>v, <2>w, <1>1, <1>2, <1>x, <1>l, <1>r, Kinds DEF Whole, Taking, Unrecorded, In
  <2>4. Detached(r2, m, j2["detach"])
    BY <2>v, <2>w, <1>1, <1>2, <1>x, <1>l, <1>r, Kinds DEF Whole, Detached, Uncleared, In, Right, Wrong
  <2>5. Settled(r2, m, j2)
    BY <2>v, <2>w, <1>1, <1>2, <1>x, <1>l, <1>r, Kinds DEF Whole, Settled, Right, Wrong
  <2>6. Remounts(r2, m, j2["remount"])
    BY <2>v, <2>w, <1>1, <1>2, <1>x, <1>l, <1>r, Kinds DEF Whole, Remounts, Stray, In, AsAsked, Wanted, Wrong
  <2>7. CalmBox(r2, m, n)
    BY <2>v, <2>w, <1>1, <1>2, <1>x, <1>l, <1>r, Kinds DEF Whole, CalmBox, Wanted, Wrong
  <2> QED BY <2>w, <2>1, <2>2, <2>3, <2>4, <2>5, <2>6, <2>7 DEF Whole
<1>3. AppInv(a, r2, m, j2, n)
  BY <1>k, <1>c, <1>2 DEF AppInv
<1> QED BY <1>3 DEF j2

(* The path is written.                                                    *)
LEMMA Updates ==
  ASSUME NEW a, NEW r, NEW m, NEW j, NEW n, NEW x \in JobRow,
         NEW r2 \in Row,
         Typed(r, m, j, n), AppInv(a, r, m, j, n),
         In(j["remount"], 2),
         x.st = "running",
         x.at \in {2, 3},
         SameJob(j["remount"], x),
         x.vol = j["remount"].vol,
         x.old = j["remount"].old,
         r2.here = r.here,
         r2.doomed = r.doomed,
         r2.vol = r.vol,
         r2.path = x.path,
         r2.adopted = r.adopted,
         r2.box = r.box,
         r2.cur = r.cur
  PROVE  AppInv(a, r2, m, [j EXCEPT !["remount"] = x], n)
<1> DEFINE j2 == [j EXCEPT !["remount"] = x]
<1>t. j \in [Kind -> JobRow] /\ n \in 0 .. MaxFaults /\ n <= n /\ "remount" \in Kind
  BY BoundAssumption, Kinds DEF Typed
<1>1. j2["remount"] = x /\ \A l \in Kind \ {"remount"} : j2[l] = j[l]
  BY <1>t
<1>x. x.lock = j["remount"].lock /\ x.path = j["remount"].path /\ x.sup = j["remount"].sup
  BY DEF SameJob
<1>r. r2.here = r.here /\ r2.doomed = r.doomed
  OBVIOUS
<1>l. Lives(x) /\ Lives(j["remount"]) /\ Works(j["remount"])
  BY DEF Lives, Works, In
<1>w. Within("remount", x)
  BY Kinds DEF Within, Taker
<1>k. Keys(a, m, j2)
  BY <1>t, <1>x, <1>l, <1>w, KeysKept DEF AppInv
<1>c. CalmKids(m, j2, n)
  BY <1>t, <1>l, CalmKept DEF AppInv
<1> HIDE DEF j2
<1>2. ASSUME Stays(r2) PROVE Whole(r2, m, j2, n)
  <2>s. Stays(r)
    BY <1>2, <1>r DEF Stays
  <2>w. Whole(r, m, j, n)
    BY <2>s DEF AppInv
  <2>o. \A l \in Keyed \ {"remount"} : ~Works(j[l])
    BY <1>l, Kinds DEF AppInv, Keys
  <2>v. r.vol # None /\ x.path # None
    BY <2>w, <1>x, <1>l DEF Whole, Rows, Mounting
  <2>k. ASSUME Active(m), "remount" \in m.kids PROVE x.path = m.want.path /\ m.want.vol # None /\ ~Wrong(r, m)
    BY <2>w, <2>v, <2>k, <1>x, <1>l DEF Whole, Remounts, Phases, Settled, Late, Right
  <2>m. n = MaxFaults => Active(m) /\ "remount" \in m.kids /\ m.at # 7
    BY <2>w, <1>l, Kinds DEF AppInv, CalmKids, Whole, Phases, Waits
  <2>1. Rows(r2, j2)
    BY <2>v, <2>k, <2>m, <2>w, <2>o, <1>1, <1>2, <1>x, <1>l, Kinds DEF Whole, Rows, Recording, Mounting, In, Works, Lives
  <2>2. Phases(m, j2)
    BY <2>v, <2>k, <2>m, <2>w, <2>o, <1>1, <1>2, <1>x, <1>l, Kinds DEF Whole, Phases, Takes, In, Lives
  <2>3. Taking(r2, m, j2)
    BY <2>v, <2>k, <2>m, <2>w, <2>o, <1>1, <1>2, <1>x, <1>l, Kinds DEF Whole, Taking, Unrecorded, In, Works
  <2>4. Detached(r2, m, j2["detach"])
    BY <2>v, <2>k, <2>m, <2>w, <2>o, <1>1, <1>2, <1>x, <1>l, Kinds DEF Whole, Detached, Uncleared, In, Right, Wrong, Works
  <2>5. Settled(r2, m, j2)
    BY <2>v, <2>k, <2>m, <2>w, <2>o, <1>1, <1>2, <1>x, <1>l, Kinds DEF Whole, Settled, Right, Wrong
  <2>6. Remounts(r2, m, j2["remount"])
    <3>1. ASSUME Active(m), "remount" \in m.kids PROVE Wanted(r2, m)
      BY <2>v, <2>k, <3>1 DEF Wanted, Wrong
    <3>2. ASSUME Active(m), "remount" \in m.kids, Lives(x) PROVE x.path = m.want.path /\ x.old # m.want.path
      BY <2>k, <2>w, <3>2 DEF Whole, Remounts, In
    <3>3. ASSUME Active(m), m.at = 7, ~Stray(m, x) PROVE AsAsked(r2, m) /\ (Lives(x) => x.sup = TRUE)
      <4>1. "remount" \in m.kids /\ ~Stray(m, j["remount"])
        BY <3>3 DEF Stray, In
      <4>2. Lives(x) => x.sup = TRUE
        BY <2>w, <4>1, <3>3, <1>x, <1>l DEF Whole, Remounts
      <4> QED BY <2>k, <3>1, <3>3, <4>1, <4>2 DEF AsAsked
    <3>4. ~In(x, 1) /\ x.st \notin {"pending", "owing", "undoing", "done"}
      BY DEF In
    <3>5. Remounts(r2, m, x)
      BY <1>l, <3>1, <3>2, <3>3, <3>4 DEF Remounts
    <3> QED BY <1>1, <3>5
  <2>7. CalmBox(r2, m, n)
    <3>1. CASE n = MaxFaults /\ r.path # x.path
      <4>1. ~Wanted(r, m)
        BY <2>m, <2>k, <3>1 DEF Wanted
      <4>2. m.mode = "config" => r2.cur = FALSE
        BY <2>w, <2>m, <2>v, <4>1, <3>1 DEF Whole, CalmBox, Typed, Row
      <4> QED BY <2>w, <2>m, <3>1, <4>2 DEF Whole, CalmBox
    <3>2. CASE n = MaxFaults /\ r.path = x.path
      BY <2>w, <2>m, <3>2 DEF Whole, CalmBox, Wanted, Wrong
    <3>3. CASE n # MaxFaults
      BY <3>3 DEF CalmBox
    <3> QED BY <3>1, <3>2, <3>3
  <2> QED BY <2>w, <2>1, <2>2, <2>3, <2>4, <2>5, <2>6, <2>7 DEF Whole
<1>3. AppInv(a, r2, m, j2, n)
  BY <1>k, <1>c, <1>2 DEF AppInv
<1> QED BY <1>3 DEF j2

(* The record is taken back.                                               *)
LEMMA UnRecords ==
  ASSUME NEW a, NEW r, NEW m, NEW j, NEW n, NEW k \in Kind, NEW x \in JobRow,
         NEW r2 \in Row,
         Typed(r, m, j, n), AppInv(a, r, m, j, n),
         k \in Taker,
         j[k].st = "undoing",
         j[k].sup = FALSE,
         x.st = "undoing",
         SameJob(j[k], x),
         x.vol = j[k].vol,
         r2.here = r.here,
         r2.doomed = r.doomed,
         r2.vol = None,
         r2.path = None
  PROVE  AppInv(a, r2, m, [j EXCEPT ![k] = x], n)
<1> DEFINE j2 == [j EXCEPT ![k] = x]
<1>t. j \in [Kind -> JobRow] /\ n \in 0 .. MaxFaults /\ n <= n /\ k \in Kind
  BY BoundAssumption, Kinds DEF Typed
<1>1. j2[k] = x /\ \A l \in Kind \ {k} : j2[l] = j[l]
  BY <1>t
<1>x. x.lock = j[k].lock /\ x.path = j[k].path /\ x.sup = j[k].sup
  BY DEF SameJob
<1>r. r2.here = r.here /\ r2.doomed = r.doomed
  OBVIOUS
<1>l. Lives(x) /\ Lives(j[k]) /\ Works(j[k])
  BY DEF Lives, Works
<1>m. n # MaxFaults
  BY <1>l, Kinds DEF AppInv, CalmKids
<1>w. Within(k, x)
  BY Kinds DEF Within, Taker
<1>k. Keys(a, m, j2)
  BY <1>t, <1>x, <1>l, <1>w, KeysKept DEF AppInv
<1>c. CalmKids(m, j2, n)
  BY <1>t, <1>l, <1>m, CalmKept DEF AppInv
<1> HIDE DEF j2
<1>2. ASSUME Stays(r2) PROVE Whole(r2, m, j2, n)
  <2>s. Stays(r)
    BY <1>2, <1>r DEF Stays
  <2>w. Whole(r, m, j, n)
    BY <2>s DEF AppInv
  <2>o. \A l \in Keyed \ {k} : ~Works(j[l])
    BY <1>l, Kinds DEF AppInv, Keys
  <2>z. \A l \in Keyed \ {k} : Lives(j[l]) => j[l].sup = TRUE
    BY <1>l, Kinds DEF AppInv, Keys, Typed, JobRow
  <2>k. Active(m) => k \in m.kids
    BY <1>l, Kinds DEF AppInv, Keys
  <2>u. /\ Active(m) => /\ k = Takes(m) /\ m.want.vol # None /\ m.want.path # None
                        /\ m.kids \cap {"remount", "reload"} = {} /\ m.at # 7 /\ Right(r, m)
        /\ ~Uncleared(r, j["detach"])
    BY <2>w, <2>k, <1>l, Kinds DEF Whole, Phases, Settled, Detached, Late
  <2>1. Rows(r2, j2)
    BY <2>z, <2>k, <2>u, <2>w, <2>o, <1>1, <1>2, <1>x, <1>l, <1>m, Kinds DEF Whole, Rows, Recording, Mounting, In, Works, Lives
  <2>2. Phases(m, j2)
    BY <2>z, <2>k, <2>u, <2>w, <2>o, <1>1, <1>2, <1>x, <1>l, <1>m, Kinds DEF Whole, Phases, Takes, In, Lives
  <2>3. Taking(r2, m, j2)
    <3>1. ASSUME NEW l \in Taker, Unrecorded(r2, j2[l]) PROVE Unrecorded(r, j[l]) /\ l # k
      BY <2>o, <1>1, <1>x, <1>l, <3>1, Kinds DEF Unrecorded, In, Works
    <3>2. ASSUME NEW l \in Taker, Active(m), l \in m.kids PROVE l = k
      BY <2>w, <2>u, <3>2 DEF Whole, Phases
    <3>3. ASSUME Active(m) PROVE Lives(x) => x.path = m.want.path /\ (k = "adopt" => x.vol = m.want.vol)
      BY <2>w, <2>k, <3>3, <1>x, <1>l DEF Whole, Taking
    <3> QED BY <2>w, <1>1, <3>1, <3>2, <3>3 DEF Whole, Taking
  <2>4. Detached(r2, m, j2["detach"])
    BY <2>z, <2>k, <2>u, <2>w, <2>o, <1>1, <1>2, <1>x, <1>l, <1>m, Kinds DEF Whole, Detached, Uncleared, In, Right, Wrong, Works
  <2>5. Settled(r2, m, j2)
    BY <2>z, <2>k, <2>u, <2>w, <2>o, <1>1, <1>2, <1>x, <1>l, <1>m, Kinds DEF Whole, Settled, Right, Wrong
  <2>6. Remounts(r2, m, j2["remount"])
    BY <2>z, <2>k, <2>u, <2>w, <2>o, <1>1, <1>2, <1>x, <1>l, <1>m, Kinds DEF Whole, Remounts, Stray, In, AsAsked, Wanted, Wrong, Works, Lives
  <2>7. CalmBox(r2, m, n)
    BY <2>z, <2>k, <2>u, <2>w, <2>o, <1>1, <1>2, <1>x, <1>l, <1>m, Kinds DEF CalmBox
  <2> QED BY <2>w, <2>1, <2>2, <2>3, <2>4, <2>5, <2>6, <2>7 DEF Whole
<1>3. AppInv(a, r2, m, j2, n)
  BY <1>k, <1>c, <1>2 DEF AppInv
<1> QED BY <1>3 DEF j2

(* The former path is written.                                             *)
LEMMA UnMounts ==
  ASSUME NEW a, NEW r, NEW m, NEW j, NEW n, NEW x \in JobRow,
         NEW r2 \in Row,
         Typed(r, m, j, n), AppInv(a, r, m, j, n),
         j["remount"].st = "undoing",
         j["remount"].sup = FALSE,
         x.st = "undoing",
         SameJob(j["remount"], x),
         x.vol = j["remount"].vol,
         x.old = j["remount"].old,
         r2.here = r.here,
         r2.doomed = r.doomed,
         r2.vol = r.vol,
         r2.path = j["remount"].old,
         r2.adopted = r.adopted
  PROVE  AppInv(a, r2, m, [j EXCEPT !["remount"] = x], n)
<1> DEFINE j2 == [j EXCEPT !["remount"] = x]
<1>t. j \in [Kind -> JobRow] /\ n \in 0 .. MaxFaults /\ n <= n /\ "remount" \in Kind
  BY BoundAssumption, Kinds DEF Typed
<1>1. j2["remount"] = x /\ \A l \in Kind \ {"remount"} : j2[l] = j[l]
  BY <1>t
<1>x. x.lock = j["remount"].lock /\ x.path = j["remount"].path /\ x.sup = j["remount"].sup
  BY DEF SameJob
<1>r. r2.here = r.here /\ r2.doomed = r.doomed
  OBVIOUS
<1>l. Lives(x) /\ Lives(j["remount"]) /\ Works(j["remount"])
  BY DEF Lives, Works
<1>m. n # MaxFaults
  BY <1>l, Kinds DEF AppInv, CalmKids
<1>w. Within("remount", x)
  BY Kinds DEF Within, Taker
<1>k. Keys(a, m, j2)
  BY <1>t, <1>x, <1>l, <1>w, KeysKept DEF AppInv
<1>c. CalmKids(m, j2, n)
  BY <1>t, <1>l, <1>m, CalmKept DEF AppInv
<1> HIDE DEF j2
<1>2. ASSUME Stays(r2) PROVE Whole(r2, m, j2, n)
  <2>s. Stays(r)
    BY <1>2, <1>r DEF Stays
  <2>w. Whole(r, m, j, n)
    BY <2>s DEF AppInv
  <2>o. \A l \in Keyed \ {"remount"} : ~Works(j[l])
    BY <1>l, Kinds DEF AppInv, Keys
  <2>z. \A l \in Keyed \ {"remount"} : Lives(j[l]) => j[l].sup = TRUE
    BY <1>l, Kinds DEF AppInv, Keys, Typed, JobRow
  <2>v. r.vol # None /\ j["remount"].old # None /\ r.path # None
    BY <2>w DEF Whole, Rows, Mounting
  <2>k. ASSUME Active(m) PROVE "remount" \in m.kids /\ r2.path # m.want.path
    <3>1. "remount" \in m.kids
      BY <2>k, <1>l, Kinds DEF AppInv, Keys
    <3> QED BY <2>w, <2>k, <3>1 DEF Whole, Remounts
  <2>1. Rows(r2, j2)
    BY <2>z, <2>v, <2>k, <2>w, <2>o, <1>1, <1>2, <1>x, <1>l, <1>m, Kinds DEF Whole, Rows, Recording, Mounting, In, Works, Lives
  <2>2. Phases(m, j2)
    BY <2>z, <2>v, <2>k, <2>w, <2>o, <1>1, <1>2, <1>x, <1>l, <1>m, Kinds DEF Whole, Phases, Takes, In, Lives
  <2>3. Taking(r2, m, j2)
    BY <2>z, <2>v, <2>k, <2>w, <2>o, <1>1, <1>2, <1>x, <1>l, <1>m, Kinds DEF Whole, Taking, Unrecorded, In, Works
  <2>4. Detached(r2, m, j2["detach"])
    BY <2>z, <2>v, <2>k, <2>w, <2>o, <1>1, <1>2, <1>x, <1>l, <1>m, Kinds DEF Whole, Detached, Uncleared, In, Right, Wrong, Works
  <2>5. Settled(r2, m, j2)
    BY <2>z, <2>v, <2>k, <2>w, <2>o, <1>1, <1>2, <1>x, <1>l, <1>m, Kinds DEF Whole, Settled, Right, Wrong
  <2>6. Remounts(r2, m, j2["remount"])
    BY <2>z, <2>v, <2>k, <2>w, <2>o, <1>1, <1>2, <1>x, <1>l, <1>m, Kinds DEF Whole, Remounts, Stray, In, AsAsked, Wanted, Wrong, Works, Lives
  <2>7. CalmBox(r2, m, n)
    BY <2>z, <2>v, <2>k, <2>w, <2>o, <1>1, <1>2, <1>x, <1>l, <1>m, Kinds DEF CalmBox
  <2> QED BY <2>w, <2>1, <2>2, <2>3, <2>4, <2>5, <2>6, <2>7 DEF Whole
<1>3. AppInv(a, r2, m, j2, n)
  BY <1>k, <1>c, <1>2 DEF AppInv
<1> QED BY <1>3 DEF j2

(* What else is to be undone has nothing to do with the row.               *)
LEMMA UndoesOther ==
  ASSUME NEW a, NEW r, NEW m, NEW j, NEW n, NEW k \in Kind, NEW x \in JobRow,
         Typed(r, m, j, n), AppInv(a, r, m, j, n),
         k \in Taker,
         j[k].st = "undoing",
         x.st = "undoing",
         SameJob(j[k], x),
         x.vol = j[k].vol
  PROVE  AppInv(a, r, m, [j EXCEPT ![k] = x], n)
<1> DEFINE j2 == [j EXCEPT ![k] = x]
<1>t. j \in [Kind -> JobRow] /\ n \in 0 .. MaxFaults /\ n <= n /\ k \in Kind
  BY BoundAssumption, Kinds DEF Typed
<1>1. j2[k] = x /\ \A l \in Kind \ {k} : j2[l] = j[l]
  BY <1>t
<1>x. x.lock = j[k].lock /\ x.path = j[k].path /\ x.sup = j[k].sup
  BY DEF SameJob
<1>l. Lives(x) /\ Lives(j[k]) /\ Works(j[k])
  BY DEF Lives, Works
<1>w. Within(k, x)
  BY Kinds DEF Within, Taker
<1>k. Keys(a, m, j2)
  BY <1>t, <1>x, <1>l, <1>w, KeysKept DEF AppInv
<1>c. CalmKids(m, j2, n)
  BY <1>t, <1>l, CalmKept DEF AppInv
<1> HIDE DEF j2
<1>2. ASSUME Stays(r) PROVE Whole(r, m, j2, n)
  <2>w. Whole(r, m, j, n)
    BY <1>2 DEF AppInv
  <2>1. Rows(r, j2)
    BY <2>w, <1>1, <1>2, <1>x, <1>l, Kinds DEF Whole, Rows, Recording, Mounting, In
  <2>2. Phases(m, j2)
    BY <2>w, <1>1, <1>2, <1>x, <1>l, Kinds DEF Whole, Phases, Takes, In, Lives
  <2>3. Taking(r, m, j2)
    BY <2>w, <1>1, <1>2, <1>x, <1>l, Kinds DEF Whole, Taking, Unrecorded, In
  <2>4. Detached(r, m, j2["detach"])
    BY <2>w, <1>1, <1>2, <1>x, <1>l, Kinds DEF Whole, Detached, Uncleared, In
  <2>5. Settled(r, m, j2)
    BY <2>w, <1>1, <1>2, <1>x, <1>l, Kinds DEF Whole, Settled
  <2>6. Remounts(r, m, j2["remount"])
    BY <2>w, <1>1, <1>2, <1>x, <1>l, Kinds DEF Whole, Remounts, Stray, In
  <2> QED BY <2>w, <2>1, <2>2, <2>3, <2>4, <2>5, <2>6 DEF Whole
<1>3. AppInv(a, r, m, j2, n)
  BY <1>k, <1>c, <1>2 DEF AppInv
<1> QED BY <1>3 DEF j2

(* The destruction goes on, and the app no longer stays.                   *)
LEMMA Destroys ==
  ASSUME NEW a, NEW r, NEW m, NEW j, NEW n, NEW x \in JobRow,
         NEW r2 \in Row,
         NEW n2 \in 0 .. MaxFaults, n2 <= n,
         Typed(r, m, j, n), AppInv(a, r, m, j, n),
         Works(j["destroy"]),
         x.st \in {"done", "failed"} \/ (x.st = "running" /\ x.at \in {1, 2, 3}),
         SameJob(j["destroy"], x) \/ x.st # "running",
         r2 = r \/ ~Stays(r2)
  PROVE  AppInv(a, r2, m, [j EXCEPT !["destroy"] = x], n2)
<1> DEFINE j2 == [j EXCEPT !["destroy"] = x]
<1>t. j \in [Kind -> JobRow] /\ n \in 0 .. MaxFaults /\ n <= n /\ "destroy" \in Kind
  BY BoundAssumption, Kinds DEF Typed
<1>1. j2["destroy"] = x /\ \A l \in Kind \ {"destroy"} : j2[l] = j[l]
  BY <1>t
<1>x. x.st = "running" => x.at \in {1, 2, 3}
  OBVIOUS
<1>r. Stays(r2) => r2 = r
  OBVIOUS
<1>n. n2 = MaxFaults => n = MaxFaults
  BY <1>t, BoundAssumption
<1>l. /\ Lives(j["destroy"]) /\ (Lives(x) => x.st = "running") /\ (Works(x) => x.st = "running")
      /\ x.st = "running" => x.lock = j["destroy"].lock /\ x.sup = j["destroy"].sup
  BY DEF Lives, Works, SameJob
<1>w. Within("destroy", x)
  BY <1>x, Kinds DEF Within, Taker
<1>k. Keys(a, m, j2)
  BY <1>t, <1>x, <1>l, <1>w, KeysKept DEF AppInv
<1>c. CalmKids(m, j2, n2)
  BY <1>t, <1>l, CalmKept DEF AppInv
<1> HIDE DEF j2
<1>2. ASSUME Stays(r2) PROVE Whole(r2, m, j2, n2)
  <2>s. Stays(r)
    BY <1>2, <1>r DEF Stays
  <2>w. Whole(r, m, j, n)
    BY <2>s DEF AppInv
  <2>1. Rows(r2, j2)
    BY <2>w, <1>1, <1>2, <1>x, <1>l, <1>r, Kinds DEF Whole, Rows, Recording, Mounting, In
  <2>2. Phases(m, j2)
    BY <2>w, <1>1, <1>2, <1>x, <1>l, <1>r, Kinds DEF Whole, Phases, Takes, In, Lives
  <2>3. Taking(r2, m, j2)
    BY <2>w, <1>1, <1>2, <1>x, <1>l, <1>r, Kinds DEF Whole, Taking, Unrecorded, In
  <2>4. Detached(r2, m, j2["detach"])
    BY <2>w, <1>1, <1>2, <1>x, <1>l, <1>r, Kinds DEF Whole, Detached, Uncleared, In, Right, Wrong
  <2>5. Settled(r2, m, j2)
    BY <2>w, <1>1, <1>2, <1>x, <1>l, <1>r, Kinds DEF Whole, Settled, Right, Wrong
  <2>6. Remounts(r2, m, j2["remount"])
    BY <2>w, <1>1, <1>2, <1>x, <1>l, <1>r, Kinds DEF Whole, Remounts, Stray, In, AsAsked, Wanted, Wrong
  <2>7. CalmBox(r2, m, n2)
    BY <2>w, <1>1, <1>2, <1>x, <1>l, <1>r, <1>n, Kinds DEF Whole, CalmBox, Wanted, Wrong
  <2> QED BY <2>w, <2>1, <2>2, <2>3, <2>4, <2>5, <2>6, <2>7 DEF Whole
<1>3. AppInv(a, r2, m, j2, n2)
  BY <1>k, <1>c, <1>2 DEF AppInv
<1> QED BY <1>3 DEF j2

(* A volume has been resized.                                              *)
LEMMA Resizes ==
  ASSUME NEW a, NEW r, NEW m, NEW j, NEW n, NEW x \in JobRow,
         Typed(r, m, j, n), AppInv(a, r, m, j, n),
         Works(j["resize"]),
         x.st = "done"
  PROVE  AppInv(a, r, m, [j EXCEPT !["resize"] = x], n)
<1> DEFINE j2 == [j EXCEPT !["resize"] = x]
<1>t. j \in [Kind -> JobRow] /\ n \in 0 .. MaxFaults /\ n <= n /\ "resize" \in Kind
  BY BoundAssumption, Kinds DEF Typed
<1>1. j2["resize"] = x /\ \A l \in Kind \ {"resize"} : j2[l] = j[l]
  BY <1>t
<1>x. x.st # "running"
  OBVIOUS
<1>l. Lives(j["resize"]) /\ ~Lives(x) /\ ~Works(x)
  BY DEF Lives, Works
<1>w. Within("resize", x)
  BY <1>x, Kinds DEF Within, Taker
<1>k. Keys(a, m, j2)
  BY <1>t, <1>x, <1>l, <1>w, KeysKept DEF AppInv
<1>c. CalmKids(m, j2, n)
  BY <1>t, <1>l, CalmKept DEF AppInv
<1> HIDE DEF j2
<1>2. ASSUME Stays(r) PROVE Whole(r, m, j2, n)
  <2>w. Whole(r, m, j, n)
    BY <1>2 DEF AppInv
  <2>1. Rows(r, j2)
    BY <2>w, <1>1, <1>2, <1>x, <1>l, Kinds DEF Whole, Rows, Recording, Mounting, In
  <2>2. Phases(m, j2)
    BY <2>w, <1>1, <1>2, <1>x, <1>l, Kinds DEF Whole, Phases, Takes, In, Lives
  <2>3. Taking(r, m, j2)
    BY <2>w, <1>1, <1>2, <1>x, <1>l, Kinds DEF Whole, Taking, Unrecorded, In
  <2>4. Detached(r, m, j2["detach"])
    BY <2>w, <1>1, <1>2, <1>x, <1>l, Kinds DEF Whole, Detached, Uncleared, In
  <2>5. Settled(r, m, j2)
    BY <2>w, <1>1, <1>2, <1>x, <1>l, Kinds DEF Whole, Settled
  <2>6. Remounts(r, m, j2["remount"])
    BY <2>w, <1>1, <1>2, <1>x, <1>l, Kinds DEF Whole, Remounts, Stray, In
  <2> QED BY <2>w, <2>1, <2>2, <2>3, <2>4, <2>5, <2>6 DEF Whole
<1>3. AppInv(a, r, m, j2, n)
  BY <1>k, <1>c, <1>2 DEF AppInv
<1> QED BY <1>3 DEF j2

(***************************************************************************)
(* A manifest moves                                                        *)
(***************************************************************************)
Place(k) ==
  CASE k = "detach" -> 2
    [] k \in Taker -> 3
    [] k = "resize" -> 4
    [] OTHER -> 5

(* What the reconcile step has seen when it asks for operation k.          *)
Asks(r, m, j, k) ==
  /\ m.at # 7 /\ (m.mode = "candidate" => "redeploy" \in m.kids)
  /\ k = "detach" => r.vol # None /\ ~Right(r, m)
  /\ k # "detach" => Right(r, m) /\ m.want.vol # None
  /\ k \in Taker => r.vol = None /\ k = Takes(m)
  /\ k = "resize" => r.vol # None
  /\ k = "remount" => m.at = 5 /\ r.path # m.want.path
  /\ \A l \in Taker : Unrecorded(r, j[l]) => l = k

(* What the next row of a manifest has in common with this one.            *)
SameMan(m, m2) == m2.st = m.st /\ m2.mode = m.mode /\ m2.want = m.want

LEMMA Asked ==
  ASSUME NEW a, NEW r, NEW m, NEW j, NEW n, NEW m2,
         NEW k \in {"attach", "adopt", "detach", "resize", "remount"}, NEW x \in JobRow,
         Typed(r, m, j, n), AppInv(a, r, m, j, n),
         Active(m), m.waits = None, k \notin m.kids, ~Lives(j[k]),
         x.st = "pending", x.sup = FALSE, x.path = m.want.path, k = "adopt" => x.vol = m.want.vol,
         k # "resize" => a \in x.lock /\ \A l \in Keyed \ {k} : Lives(j[l]) => j[l].sup = TRUE,
         SameMan(m, m2), m2.kids = m.kids \cup {k}, m2.waits = k, m2.at = Place(k),
         Stays(r) => Asks(r, m, j, k)
  PROVE  AppInv(a, r, m2, [j EXCEPT ![k] = x], n)
<1> DEFINE j2 == [j EXCEPT ![k] = x]
<1>t. j \in [Kind -> JobRow] /\ k \in Kind /\ k # None
  BY Kinds DEF Typed
<1>1. j2[k] = x /\ \A l \in Kind \ {k} : j2[l] = j[l]
  BY <1>t
<1> HIDE DEF j2
<1>x. Lives(x) /\ ~Works(x) /\ Within(k, x)
  BY DEF Lives, Works, Within
<1>m. m2.st = m.st /\ m2.mode = m.mode /\ m2.want = m.want /\ Active(m2)
  BY DEF SameMan, Active
<1>k. Keys(a, m2, j2)
  <2>w. Keys(a, m, j)
    BY DEF AppInv
  <2>1. \A l \in Kind : Within(l, j2[l])
    BY <2>w, <1>1, <1>x DEF Keys
  <2>2. \A l \in Keyed : Lives(j2[l]) => a \in j2[l].lock
    BY <2>w, <1>1, <1>x, Kinds DEF Keys, Keyed
  <2>3. \A l, o \in Keyed : Works(j2[l]) /\ Works(j2[o]) => l = o
    BY <2>w, <1>1, <1>x, Kinds DEF Keys
  <2>4. ASSUME NEW l \in Keyed, NEW o \in Keyed, Lives(j2[l]), Lives(j2[o]), j2[l].sup = FALSE, j2[o].sup = FALSE
        PROVE  l = o
    <3>1. CASE k = "resize"
      BY <2>w, <2>4, <3>1, <1>1, Kinds DEF Keys, Keyed
    <3>2. CASE k # "resize"
      BY <2>4, <3>2, <1>1, Kinds
    <3> QED BY <3>1, <3>2
  <2>5. \A l \in Worker : Lives(j2[l]) /\ l \notin m2.kids => j2[l].sup = TRUE
    BY <2>w, <1>1, <1>m, Kinds DEF Keys
  <2> QED BY <2>1, <2>2, <2>3, <2>4, <2>5 DEF Keys
<1>c. CalmKids(m2, j2, n)
  <2>1. \A l \in Kind \ {"destroy"} : n = MaxFaults => ~Lives(j[l])
    BY NamesAssumption DEF AppInv, CalmKids
  <2> QED BY <2>1, <1>1, <1>m DEF CalmKids
<1>2. ASSUME Stays(r) PROVE Whole(r, m2, j2, n)
  <2>w. Whole(r, m, j, n) /\ Asks(r, m, j, k)
    BY <1>2 DEF AppInv
  <2>p. \A l \in Taker : Unrecorded(r, j2[l]) => l = k
    BY <2>w, <1>1, Kinds DEF Asks
  <2>v. k \in Taker => k = Takes(m) /\ m.kids \cap Later = {} /\ r.vol = None
    BY <2>w DEF Whole, Asks, Settled
  <2>d. k = "detach" => m.kids \cap Late = {} /\ r.vol # None /\ ~Right(r, m)
    BY <2>w DEF Whole, Asks, Settled
  <2>1. Rows(r, j2)
    BY <2>w, <1>1, <1>x, <1>t, Kinds DEF Whole, Rows, Recording, Mounting, In, Phases, Asks
  <2>2. Phases(m2, j2)
    BY <2>w, <2>v, <2>d, <1>1, <1>x, <1>t, <1>m, Kinds DEF Whole, Phases, Waits, Place, Asks, Takes, Late
  <2>3. Taking(r, m2, j2)
    BY <2>w, <2>v, <2>p, <1>1, <1>x, <1>t, <1>m, Kinds DEF Whole, Taking, Phases, Takes, Later, Place
  <2>4. Detached(r, m2, j2["detach"])
    BY <2>w, <2>d, <1>1, <1>x, <1>t, <1>m, Kinds DEF Whole, Detached, Uncleared, Asks, Right, Wrong, Place
  <2>5. Settled(r, m2, j2)
    BY <2>w, <2>v, <2>d, <1>1, <1>x, <1>t, <1>m, Kinds DEF Whole, Settled, Asks, Right, Wrong, Place, Takes, Later, Late, Phases
  <2>6. Remounts(r, m2, j2["remount"])
    BY <2>w, <1>1, <1>x, <1>t, <1>m, Kinds DEF Whole, Remounts, Stray, In, Asks, Place, Wanted, Wrong
  <2>7. CalmBox(r, m2, n)
    BY <2>w, <1>m DEF Whole, CalmBox, Wanted, Wrong, Asks
  <2> QED BY <2>1, <2>2, <2>3, <2>4, <2>5, <2>6, <2>7 DEF Whole
<1>3. AppInv(a, r, m2, j2, n)
  BY <1>k, <1>c, <1>2 DEF AppInv
<1> QED BY <1>3 DEF j2

LEMMA AskedAgain ==
  ASSUME NEW a, NEW r, NEW m, NEW j, NEW n, NEW m2,
         NEW k \in {"attach", "adopt", "detach", "resize", "remount"},
         Typed(r, m, j, n), AppInv(a, r, m, j, n),
         Active(m), m.waits = None, k \in m.kids,
         SameMan(m, m2), m2.kids = m.kids, m2.waits = k, m2.at = Place(k),
         Stays(r) => Asks(r, m, j, k)
  PROVE  AppInv(a, r, m2, j, n)
<1>t. k \in Kind /\ k # None
  BY Kinds
<1>m. m2.st = m.st /\ m2.mode = m.mode /\ m2.want = m.want /\ Active(m2)
  BY DEF SameMan, Active
<1>k. Keys(a, m2, j)
  BY <1>m DEF AppInv, Keys
<1>c. CalmKids(m2, j, n)
  BY NamesAssumption DEF AppInv, CalmKids
<1>2. ASSUME Stays(r) PROVE Whole(r, m2, j, n)
  <2>w. Whole(r, m, j, n) /\ Asks(r, m, j, k)
    BY <1>2 DEF AppInv
  <2>d. k = "detach" => m.kids \cap Late = {} /\ r.vol # None /\ ~Right(r, m)
    BY <2>w DEF Whole, Asks, Settled
  <2>2. Phases(m2, j)
    BY <2>w, <2>d, <1>t, <1>m, Kinds DEF Whole, Phases, Waits, Place, Asks, Takes, Late
  <2>3. Taking(r, m2, j)
    BY <2>w, <1>t, <1>m, Kinds DEF Whole, Taking, Asks, Place
  <2>4. Detached(r, m2, j["detach"])
    BY <2>w, <2>d, <1>t, <1>m, Kinds DEF Whole, Detached, Asks, Right, Wrong, Place
  <2>5. Settled(r, m2, j)
    BY <2>w, <2>d, <1>t, <1>m, Kinds DEF Whole, Settled, Asks, Right, Wrong, Place, Takes
  <2>6. Remounts(r, m2, j["remount"])
    BY <2>w, <1>t, <1>m, Kinds DEF Whole, Remounts, Stray, In, Place, Wanted, Wrong
  <2>7. CalmBox(r, m2, n)
    BY <2>w, <1>m DEF Whole, CalmBox, Wanted, Wrong, Asks
  <2> QED BY <2>w, <2>2, <2>3, <2>4, <2>5, <2>6, <2>7 DEF Whole
<1> QED BY <1>k, <1>c, <1>2 DEF AppInv

(* The operation that was waited for is done.                              *)
LEMMA Awaited ==
  ASSUME NEW a, NEW r, NEW m, NEW j, NEW n, NEW m2,
         Typed(r, m, j, n), AppInv(a, r, m, j, n),
         Active(m), m.waits # None, j[m.waits].st = "done",
         SameMan(m, m2), m2.kids = m.kids, m2.waits = None, m2.at = m.at + 1
  PROVE  AppInv(a, r, m2, j, n)
<1>m. m2.st = m.st /\ m2.mode = m.mode /\ m2.want = m.want /\ Active(m2) /\ m.at \in Nat /\ m.waits \in Kind
  BY DEF SameMan, Active, Typed, ManRow
<1>l. ~Lives(j[m.waits])
  BY DEF Lives
<1>k. Keys(a, m2, j)
  BY <1>m DEF AppInv, Keys
<1>c. CalmKids(m2, j, n)
  BY <1>l DEF AppInv, CalmKids
<1>2. ASSUME Stays(r) PROVE Whole(r, m2, j, n)
  <2>w. Whole(r, m, j, n)
    BY <1>2 DEF AppInv
  <2>k. \/ m.waits = "detach" /\ m.at = 2 /\ m.kids \cap Late = {} /\ r.vol = None
        \/ m.waits \in Taker /\ m.at = 3 /\ m.waits = Takes(m) /\ m.want.vol # None
        \/ m.waits = "resize" /\ m.at = 4
        \/ m.waits = "remount" /\ m.at = 5
    BY <2>w, <1>m DEF Whole, Phases, Waits, Detached, Taker, Kind
  <2>i. m.waits \in m.kids
    BY <2>w DEF Whole, Phases, Waits
  <2>u. \A l \in Taker : ~Unrecorded(r, j[l])
    BY <2>w, <1>l, Kinds DEF Whole, Taking, Unrecorded, In, Lives
  <2>c. ~Uncleared(r, j["detach"])
    BY <2>w, <1>l, Kinds DEF Whole, Detached, Uncleared, Lives
  <2>2. Phases(m2, j)
    BY <2>w, <2>k, <2>i, <1>m, Kinds DEF Whole, Phases, Waits, Takes
  <2>3. Taking(r, m2, j)
    BY <2>w, <2>u, <1>m DEF Whole, Taking
  <2>4. Detached(r, m2, j["detach"])
    BY <2>w, <2>c, <1>m DEF Whole, Detached
  <2>5. Settled(r, m2, j)
    BY <2>w, <2>k, <2>i, <1>m, Kinds DEF Whole, Settled, Right, Wrong, Takes, Late
  <2>6. Remounts(r, m2, j["remount"])
    BY <2>w, <2>k, <1>m DEF Whole, Remounts, Stray, Wanted, Wrong, Taker
  <2>7. CalmBox(r, m2, n)
    BY <2>w, <2>k, <1>m DEF Whole, CalmBox, Wanted, Wrong
  <2> QED BY <2>w, <2>2, <2>3, <2>4, <2>5, <2>6, <2>7 DEF Whole
<1> QED BY <1>k, <1>c, <1>2 DEF AppInv

(* A manifest ends only when nothing is left that it should look after.    *)
LEMMA ManifestEnds ==
  ASSUME NEW a, NEW r, NEW m, NEW j, NEW n, NEW m2, NEW n2 \in 0 .. MaxFaults, n2 <= n,
         Typed(r, m, j, n), AppInv(a, r, m, j, n), ~Active(m2),
         \A k \in Kind \ {"destroy"} : n = MaxFaults => ~Lives(j[k]),
         Stays(r) => (\A k \in Taker : ~Unrecorded(r, j[k])) /\ ~Uncleared(r, j["detach"])
  PROVE  AppInv(a, r, m2, j, n2)
<1>n. n2 = MaxFaults => n = MaxFaults
  BY BoundAssumption DEF Typed
<1>k. Keys(a, m2, j)
  BY DEF AppInv, Keys
<1>c. CalmKids(m2, j, n2)
  BY <1>n DEF CalmKids
<1>2. ASSUME Stays(r) PROVE Whole(r, m2, j, n2)
  <2>w. Whole(r, m, j, n)
    BY <1>2 DEF AppInv
  <2>2. Phases(m2, j)
    BY DEF Phases
  <2>3. Taking(r, m2, j)
    BY <1>2 DEF Taking
  <2>4. Detached(r, m2, j["detach"])
    BY <1>2 DEF Detached
  <2>5. Settled(r, m2, j)
    BY DEF Settled
  <2>6. Remounts(r, m2, j["remount"])
    BY DEF Remounts
  <2>7. CalmBox(r, m2, n2)
    BY DEF CalmBox
  <2> QED BY <2>w, <2>2, <2>3, <2>4, <2>5, <2>6, <2>7 DEF Whole
<1> QED BY <1>k, <1>c, <1>2 DEF AppInv

(* The container runs at the new revision; nothing else has changed.       *)
LEMMA Redeploys ==
  ASSUME NEW a, NEW r, NEW m, NEW j, NEW n, NEW r2, NEW m2,
         Typed(r, m, j, n), AppInv(a, r, m, j, n), SameRow(r, r2),
         Active(m), m.mode = "candidate", m.waits = None, m.at = 1,
         SameMan(m, m2), m2.kids = m.kids \cup {"redeploy"}, m2.waits = None, m2.at = 2
  PROVE  AppInv(a, r2, m2, j, n)
<1>m. m2.st = m.st /\ m2.mode = m.mode /\ m2.want = m.want /\ Active(m2)
  BY DEF SameMan, Active
<1>r. r2.here = r.here /\ r2.doomed = r.doomed /\ r2.vol = r.vol /\ r2.path = r.path /\ r2.adopted = r.adopted
  BY DEF SameRow
<1>k. Keys(a, m2, j)
  BY <1>m, Kinds DEF AppInv, Keys
<1>c. CalmKids(m2, j, n)
  BY <1>m DEF AppInv, CalmKids
<1>2. ASSUME Stays(r2) PROVE Whole(r2, m2, j, n)
  <2>s. Stays(r)
    BY <1>2, <1>r DEF Stays
  <2>w. Whole(r, m, j, n)
    BY <2>s DEF AppInv
  <2>1. Rows(r2, j)
    BY <2>w, <1>r DEF Whole, Rows, Recording, Mounting
  <2>2. Phases(m2, j)
    BY <2>w, <1>m, Kinds DEF Whole, Phases, Waits, Takes, Taker
  <2>3. Taking(r2, m2, j)
    BY <2>w, <1>m, <1>r, Kinds DEF Whole, Taking, Unrecorded, Later
  <2>4. Detached(r2, m2, j["detach"])
    BY <2>w, <1>m, <1>r DEF Whole, Detached, Uncleared, Right, Wrong, Late
  <2>5. Settled(r2, m2, j)
    BY <2>w, <1>m, <1>r DEF Whole, Settled, Right, Wrong, Takes, Late, Later
  <2>6. Remounts(r2, m2, j["remount"])
    BY <2>w, <1>m, <1>r DEF Whole, Remounts, Stray, Wanted, Wrong
  <2>7. CalmBox(r2, m2, n)
    BY <1>m DEF CalmBox
  <2> QED BY <2>1, <2>2, <2>3, <2>4, <2>5, <2>6, <2>7 DEF Whole
<1> QED BY <1>k, <1>c, <1>2 DEF AppInv

(* The container is at the current revision, with what was asked for.      *)
LEMMA Reloads ==
  ASSUME NEW a, NEW r, NEW m, NEW j, NEW n, NEW r2, NEW m2,
         Typed(r, m, j, n), AppInv(a, r, m, j, n), SameRow(r, r2),
         Active(m), m.mode = "config", m.waits = None,
         SameMan(m, m2), m2.kids = m.kids \cup {"reload"}, m2.waits = None, m2.at = 7,
         Stays(r) => AsAsked(r, m), \A l \in Keyed : ~Works(j[l]),
         \/ "reload" \in m.kids /\ r2.box = r.box /\ r2.cur = r.cur
         \/ /\ \A l \in Keyed : Lives(j[l]) => j[l].sup = TRUE
            /\ r2.box = IF r.cur = TRUE /\ r.box # Down THEN r.box ELSE [vol |-> r.vol, path |-> r.path]
  PROVE  AppInv(a, r2, m2, j, n)
<1>m. m2.st = m.st /\ m2.mode = m.mode /\ m2.want = m.want /\ Active(m2)
  BY DEF SameMan, Active
<1>r. r2.here = r.here /\ r2.doomed = r.doomed /\ r2.vol = r.vol /\ r2.path = r.path /\ r2.adopted = r.adopted
  BY DEF SameRow
<1>k. Keys(a, m2, j)
  BY <1>m, Kinds DEF AppInv, Keys
<1>c. CalmKids(m2, j, n)
  BY <1>m DEF AppInv, CalmKids
<1>2. ASSUME Stays(r2) PROVE Whole(r2, m2, j, n)
  <2>s. Stays(r)
    BY <1>2, <1>r DEF Stays
  <2>w. Whole(r, m, j, n) /\ AsAsked(r, m)
    BY <2>s DEF AppInv
  <2>a. Right(r, m) /\ Right(r2, m2) /\ AsAsked(r2, m2) /\ (r.vol = None \/ Wanted(r2, m2))
    BY <2>w, <1>m, <1>r DEF AsAsked, Right, Wanted, Wrong
  <2>v. m.want.vol # None => r.vol # None /\ r.path = m.want.path
    BY <2>w DEF AsAsked, Wanted
  <2>u. (\A l \in Taker : ~Unrecorded(r, j[l])) /\ ~Uncleared(r, j["detach"])
    BY <2>w, <2>a, <2>v DEF Whole, Taking, Detached, Phases, Taker
  <2>x. ASSUME ~Stray(m2, j["remount"]), Lives(j["remount"]) PROVE j["remount"].sup = TRUE
    <3>1. "remount" \in m.kids /\ j["remount"].st \in {"pending", "owing"}
      BY <2>x, <1>m, Kinds DEF Stray, Lives, Works
    <3>2. r.path # m.want.path /\ m.want.vol # None
      BY <2>w, <3>1 DEF Whole, Remounts, Phases
    <3> QED BY <3>2, <2>v
  <2>t. \A l \in Taker : Lives(j[l]) => j[l].sup = TRUE
    BY <2>w, Kinds DEF Whole, Settled
  <2>1. Rows(r2, j)
    BY <2>w, <1>r DEF Whole, Rows, Recording, Mounting
  <2>2. Phases(m2, j)
    BY <2>w, <1>m, Kinds DEF Whole, Phases, Waits, Takes, Taker
  <2>3. Taking(r2, m2, j)
    BY <2>w, <2>u, <1>m, <1>r, Kinds DEF Whole, Taking, Unrecorded
  <2>4. Detached(r2, m2, j["detach"])
    BY <2>w, <2>u, <1>m, <1>r DEF Whole, Detached, Uncleared, Late
  <2>5. Settled(r2, m2, j)
    BY <2>w, <2>a, <2>v, <2>t, <1>m, <1>r DEF Settled
  <2>6. Remounts(r2, m2, j["remount"])
    BY <2>w, <2>a, <2>x, <1>m, <1>r DEF Whole, Remounts, Stray, Wanted, Wrong
  <2>7. CalmBox(r2, m2, n)
    BY <2>w, <2>a, <1>m, <1>r DEF Whole, CalmBox
  <2> QED BY <2>1, <2>2, <2>3, <2>4, <2>5, <2>6, <2>7 DEF Whole
<1> QED BY <1>k, <1>c, <1>2 DEF AppInv

(* A new manifest has claimed whatever of a former one still lives.        *)
LEMMA Applies ==
  ASSUME NEW a, NEW r, NEW m, NEW j, NEW n, NEW r2, NEW m2, NEW j2 \in [Kind -> JobRow],
         Typed(r, m, j, n), AppInv(a, r, m, j, n), SameRow(r, r2), ~Active(m),
         \A k \in Kind : Lives(j[k]) => Alike(j[k], j2[k]) /\ (k \in Keyed => j2[k].sup = TRUE),
         \A k \in Kind : ~Lives(j[k]) => ~Lives(j2[k]),
         Active(m2), m2.at = 1, m2.kids = {}, m2.waits = None,
         m2.want.vol = None <=> m2.want.path = None,
         m2.mode = "config" => r2.cur = FALSE
  PROVE  AppInv(a, r2, m2, j2, n)
<1>r. r2.here = r.here /\ r2.doomed = r.doomed /\ r2.vol = r.vol /\ r2.path = r.path /\ r2.adopted = r.adopted
  BY DEF SameRow
<1>j. \A k \in Kind : Lives(j2[k]) => Lives(j[k]) /\ Alike(j[k], j2[k]) /\ (k \in Keyed => j2[k].sup = TRUE)
  OBVIOUS
<1>k. Keys(a, m2, j2)
  <2>w. Keys(a, m, j)
    BY DEF AppInv
  <2>1. \A k \in Kind : Within(k, j2[k])
    BY <2>w, <1>j DEF Keys, Within, Alike, Lives
  <2>2. \A k \in Keyed : Lives(j2[k]) => a \in j2[k].lock
    BY <2>w, <1>j, Kinds DEF Keys, Alike
  <2>3. \A k \in Keyed : Works(j2[k]) => Works(j[k])
    BY <1>j, Kinds DEF Works, Alike, Lives
  <2>4. \A k, l \in Keyed : Works(j2[k]) /\ Works(j2[l]) => k = l
    BY <2>w, <2>3 DEF Keys
  <2> QED BY <2>1, <2>2, <2>4, <1>j, Kinds DEF Keys
<1>c. CalmKids(m2, j2, n)
  BY <1>j DEF AppInv, CalmKids
<1>2. ASSUME Stays(r2) PROVE Whole(r2, m2, j2, n)
  <2>s. Stays(r)
    BY <1>2, <1>r DEF Stays
  <2>w. Whole(r, m, j, n)
    BY <2>s DEF AppInv
  <2>i. \A k \in Kind, i \in 1 .. 3 : In(j2[k], i) => In(j[k], i) /\ Lives(j2[k])
    BY <1>j DEF In, Alike, Lives
  <2>1. Rows(r2, j2)
    BY <2>w, <2>i, <1>r, <1>j, Kinds DEF Whole, Rows, Recording, Mounting, Lives, Alike
  <2>2. Phases(m2, j2)
    BY NamesAssumption, Kinds DEF Phases, Waits
  <2>3. Taking(r2, m2, j2)
    BY <2>w, <2>i, <1>r, <1>j, Kinds DEF Whole, Taking, Unrecorded, Alike, Lives
  <2>4. Detached(r2, m2, j2["detach"])
    BY <2>w, <1>r, <1>j, Kinds DEF Whole, Detached, Uncleared, Alike, Lives
  <2>5. Settled(r2, m2, j2)
    BY DEF Settled
  <2>6. Remounts(r2, m2, j2["remount"])
    BY DEF Remounts
  <2>7. CalmBox(r2, m2, n)
    BY DEF CalmBox
  <2> QED BY <2>1, <2>2, <2>3, <2>4, <2>5, <2>6, <2>7 DEF Whole
<1> QED BY <1>k, <1>c, <1>2 DEF AppInv

LEMMA DestroyAsked ==
  ASSUME NEW a, NEW r, NEW m, NEW j, NEW n, NEW x \in JobRow,
         Typed(r, m, j, n), AppInv(a, r, m, j, n), x.st = "pending", a \in x.lock,
         \A l \in Keyed \ {"destroy"} : Lives(j[l]) => j[l].sup = TRUE
  PROVE  AppInv(a, r, m, [j EXCEPT !["destroy"] = x], n)
<1> DEFINE j2 == [j EXCEPT !["destroy"] = x]
<1>t. j \in [Kind -> JobRow] /\ "destroy" \in Kind
  BY Kinds DEF Typed
<1>1. j2["destroy"] = x /\ \A l \in Kind \ {"destroy"} : j2[l] = j[l]
  BY <1>t
<1> HIDE DEF j2
<1>x. Lives(x) /\ ~Works(x) /\ Within("destroy", x)
  BY DEF Lives, Works, Within
<1>k. Keys(a, m, j2)
  <2>w. Keys(a, m, j)
    BY DEF AppInv
  <2>1. \A l \in Kind : Within(l, j2[l])
    BY <2>w, <1>1, <1>x DEF Keys
  <2>2. \A l \in Keyed : Lives(j2[l]) => a \in j2[l].lock
    BY <2>w, <1>1, <1>x, Kinds DEF Keys
  <2>3. \A l, o \in Keyed : Works(j2[l]) /\ Works(j2[o]) => l = o
    BY <2>w, <1>1, <1>x, Kinds DEF Keys
  <2>4. ASSUME NEW l \in Keyed, NEW o \in Keyed, Lives(j2[l]), Lives(j2[o]), j2[l].sup = FALSE, j2[o].sup = FALSE
        PROVE  l = o
    BY <2>4, <1>1, Kinds
  <2>5. Active(m) => \A l \in Worker : Lives(j2[l]) /\ l \notin m.kids => j2[l].sup = TRUE
    BY <2>w, <1>1, Kinds DEF Keys
  <2> QED BY <2>1, <2>2, <2>3, <2>4, <2>5 DEF Keys
<1>c. CalmKids(m, j2, n)
  BY <1>1 DEF AppInv, CalmKids
<1>2. ASSUME Stays(r) PROVE Whole(r, m, j2, n)
  <2>w. Whole(r, m, j, n)
    BY <1>2 DEF AppInv
  <2>1. Rows(r, j2) /\ Phases(m, j2) /\ Taking(r, m, j2) /\ Settled(r, m, j2)
    BY <2>w, <1>1, Kinds DEF Whole, Rows, Recording, Mounting, Phases, Takes, Taking, Settled
  <2>2. Detached(r, m, j2["detach"]) /\ Remounts(r, m, j2["remount"]) /\ CalmBox(r, m, n)
    BY <2>w, <1>1, Kinds DEF Whole
  <2> QED BY <2>1, <2>2 DEF Whole
<1>3. AppInv(a, r, m, j2, n)
  BY <1>k, <1>c, <1>2 DEF AppInv
<1> QED BY <1>3 DEF j2

(***************************************************************************)
(* The rows that the actions write                                         *)
(***************************************************************************)
Last(k) == IF k = "resize" THEN 1 ELSE 3

LEMMA StepsAre ==
  /\ \A k \in Kind : Len(Steps[k]) = Last(k)
  /\ Steps["attach"][1] = "create" /\ Steps["attach"][2] = "record" /\ Steps["attach"][3] = "recreate"
  /\ Steps["adopt"][1] = "attach" /\ Steps["adopt"][2] = "record" /\ Steps["adopt"][3] = "recreate"
  /\ Steps["detach"][1] = "detach" /\ Steps["detach"][2] = "clear" /\ Steps["detach"][3] = "recreate"
  /\ Steps["resize"][1] = "resize"
  /\ Steps["remount"][1] = "validate" /\ Steps["remount"][2] = "update" /\ Steps["remount"][3] = "recreate"
  /\ Steps["destroy"][1] = "stop" /\ Steps["destroy"][2] = "release" /\ Steps["destroy"][3] = "rows"
<1>1. /\ Steps["attach"] = <<"create", "record", "recreate">>
      /\ Steps["adopt"] = <<"attach", "record", "recreate">>
      /\ Steps["detach"] = <<"detach", "clear", "recreate">>
      /\ Steps["resize"] = <<"resize">>
      /\ Steps["remount"] = <<"validate", "update", "recreate">>
      /\ Steps["destroy"] = <<"stop", "release", "rows">>
  BY DEF Steps
<1>2. /\ \A x, y, z : Len(<<x, y, z>>) = 3
      /\ \A x : Len(<<x>>) = 1
  OBVIOUS
<1>3. /\ Len(Steps["attach"]) = 3 /\ Len(Steps["adopt"]) = 3 /\ Len(Steps["detach"]) = 3
      /\ Len(Steps["resize"]) = 1 /\ Len(Steps["remount"]) = 3 /\ Len(Steps["destroy"]) = 3
  BY <1>1, <1>2
<1>4. \A k \in Kind : Len(Steps[k]) = Last(k)
  BY <1>3 DEF Kind, Last
<1> QED BY <1>1, <1>4

(* Which operation is at a step, and where it is then.                     *)
LEMMA Where ==
  ASSUME NEW s \in Slot, NEW step, At(s, step), Within(s[2], job[s])
  PROVE  /\ job[s].st = "running" /\ job[s].at \in {1, 2, 3}
         /\ step = "create" => s[2] = "attach" /\ job[s].at = 1
         /\ step = "attach" => s[2] = "adopt" /\ job[s].at = 1
         /\ step = "record" => s[2] \in Taker /\ job[s].at = 2
         /\ step = "recreate" => s[2] \in {"attach", "adopt", "detach", "remount"} /\ job[s].at = 3
         /\ step = "detach" => s[2] = "detach" /\ job[s].at = 1
         /\ step = "clear" => s[2] = "detach" /\ job[s].at = 2
         /\ step = "resize" => s[2] = "resize" /\ job[s].at = 1
         /\ step = "validate" => s[2] = "remount" /\ job[s].at = 1
         /\ step = "update" => s[2] = "remount" /\ job[s].at = 2
         /\ step = "stop" => s[2] = "destroy" /\ job[s].at = 1
         /\ step = "release" => s[2] = "destroy" /\ job[s].at = 2
         /\ step = "rows" => s[2] = "destroy" /\ job[s].at = 3
<1>1. job[s].st = "running" /\ Steps[s[2]][job[s].at] = step
  BY DEF At
<1>2. s[2] \in Kind
  BY DEF Slot
<1>3. job[s].at \in {1, 2, 3} /\ (s[2] = "resize" => job[s].at = 1)
  BY <1>1 DEF Within
<1>4. CASE job[s].at = 1
  BY <1>1, <1>2, <1>4, StepsAre DEF Kind, Taker
<1>5. CASE job[s].at = 2
  BY <1>1, <1>2, <1>3, <1>5, StepsAre DEF Kind, Taker
<1>6. CASE job[s].at = 3
  BY <1>1, <1>2, <1>3, <1>6, StepsAre DEF Kind, Taker
<1> QED BY <1>1, <1>3, <1>4, <1>5, <1>6

LEMMA EndedIs ==
  ASSUME NEW st \in {"done", "failed", "compensated"}
  PROVE  Ended(st) \in JobRow /\ Ended(st).st = st
BY DEF Ended, NoJob, JobRow

(* The fields of a row that moves on.                                      *)
LEMMA PastIs ==
  ASSUME NEW s \in Slot, NEW x \in JobRow
  PROVE  /\ Past(s, x) \in JobRow
         /\ x.at = Last(s[2]) => Past(s, x).st = "done"
         /\ x.at # Last(s[2]) =>
              /\ Past(s, x).st = x.st /\ Past(s, x).at = x.at + 1 /\ SameJob(x, Past(s, x))
              /\ Past(s, x).vol = x.vol /\ Past(s, x).old = x.old
<1>1. s[2] \in Kind
  BY DEF Slot
<1>2. Len(Steps[s[2]]) = Last(s[2])
  BY <1>1, StepsAre
<1>3. CASE x.at = Last(s[2])
  BY <1>2, <1>3, EndedIs DEF Past
<1>4. CASE x.at # Last(s[2])
  <2>1. Past(s, x) = [x EXCEPT !.at = x.at + 1]
    BY <1>2, <1>4 DEF Past
  <2> QED BY <2>1, <1>4 DEF JobRow, SameJob
<1> QED BY <1>3, <1>4

LEMMA UndoableIs ==
  /\ \A k \in Kind : Undoable[k] \subseteq StepName
  /\ \A k \in Kind : Undoable[k] # {} => k \in {"attach", "adopt", "remount"}
  /\ Undoable["remount"] = {"update"}
BY DEF Undoable, Kind, StepName

(* What a step that throws makes of the row.                               *)
LEMMA ThrownIs ==
  ASSUME NEW s \in Slot, job[s] \in JobRow, NEW x \in JobRow, job[s].st = "running", Within(s[2], job[s])
  PROVE  /\ Thrown(s, x) \in JobRow
         /\ \/ Thrown(s, x).st \in {"failed", "compensated"}
            \/ /\ s[2] \in {"attach", "adopt", "remount"} /\ job[s].at # 1 /\ (s[2] = "remount" => job[s].at = 3)
               /\ Thrown(s, x).st = "undoing" /\ Thrown(s, x).left # {}
               /\ SameJob(x, Thrown(s, x)) /\ Thrown(s, x).vol = x.vol /\ Thrown(s, x).old = x.old
<1>1. s[2] \in Kind
  BY DEF Slot
<1>2. Completed(s) \subseteq StepName
  BY <1>1, UndoableIs DEF Completed
<1>3. job[s].at \in {1, 2, 3}
  BY DEF Within
<1>4. CASE Completed(s) = {}
  BY <1>4, EndedIs DEF Thrown
<1>5. CASE Completed(s) # {}
  <2>1. PICK i \in 1 .. job[s].at - 1 : Steps[s[2]][i] \in Undoable[s[2]]
    BY <1>5 DEF Completed
  <2>2. s[2] \in {"attach", "adopt", "remount"} /\ job[s].at # 1
    BY <2>1, <1>1, <1>3, UndoableIs
  <2>3. ASSUME s[2] = "remount" PROVE job[s].at = 3
    BY <2>1, <2>3, <1>3, StepsAre, UndoableIs
  <2>4. CASE x.sup
    BY <2>4, <1>5, EndedIs DEF Thrown
  <2>5. CASE ~x.sup
    <3>1. Thrown(s, x) = [x EXCEPT !.st = "undoing", !.left = Completed(s)]
      BY <2>5, <1>5 DEF Thrown
    <3> DEFINE y == [x EXCEPT !.st = "undoing", !.left = Completed(s)]
    <3>2. y \in JobRow /\ y.st = "undoing" /\ y.left = Completed(s) /\ SameJob(x, y) /\ y.vol = x.vol /\ y.old = x.old
      BY <1>2 DEF JobRow, SameJob
    <3> QED BY <3>1, <3>2, <2>2, <2>3, <1>5
  <2> QED BY <2>4, <2>5
<1> QED BY <1>4, <1>5

(***************************************************************************)
(* From the rows to the state                                              *)
(***************************************************************************)
(* What the invariants of the state say of one app.                        *)
LEMMA OfApp ==
  ASSUME TypeOK, NEW a \in App
  PROVE  /\ Typed(app[a], man[a], Jobs(a), budget.faults)
         /\ \A k \in Kind : <<a, k>> \in Slot /\ Jobs(a)[k] = job[<<a, k>>]
<1>1. \A k \in Kind : <<a, k>> \in Slot
  BY DEF Slot
<1> QED BY <1>1 DEF TypeOK, Typed, Jobs, Active

LEMMA OfSlot ==
  ASSUME TypeOK, NEW s \in Slot
  PROVE  /\ s[1] \in App /\ s[2] \in Kind /\ s = <<s[1], s[2]>>
         /\ job[s] \in JobRow /\ Jobs(s[1])[s[2]] = job[s]
<1>1. s[1] \in App /\ s[2] \in Kind /\ s = <<s[1], s[2]>>
  BY DEF Slot
<1> QED BY <1>1 DEF TypeOK, Jobs

(* An action that is about app a keeps the invariant of the others.        *)
LEMMA Elsewhere ==
  ASSUME TypeOK, TypeOK', VolInv, NEW a \in App,
         \A b \in App \ {a} :
           /\ app'[b] = app[b] /\ man'[b] = man[b]
           /\ \A k \in Kind : Alike(job[<<b, k>>], job'[<<b, k>>]),
         budget'.faults <= budget.faults,
         AppInv(a, app[a], man[a], Jobs(a), budget.faults)'
  PROVE  VolInv'
<1>1. ASSUME NEW b \in App, b # a PROVE AppInv(b, app[b], man[b], Jobs(b), budget.faults)'
  <2> DEFINE j2 == Jobs(b)'
  <2>1. Typed(app[b], man[b], Jobs(b), budget.faults) /\ \A k \in Kind : Jobs(b)[k] = job[<<b, k>>]
    BY OfApp
  <2>2. Typed(app[b]', man[b]', j2, budget'.faults) /\ \A k \in Kind : j2[k] = job'[<<b, k>>]
    BY DEF TypeOK, Typed, Jobs, Active, Slot
  <2>3. app[b]' = app[b] /\ man[b]' = man[b] /\ \A k \in Kind : Alike(Jobs(b)[k], j2[k])
    BY <1>1, <2>1, <2>2
  <2>4. AppInv(b, app[b], man[b], Jobs(b), budget.faults)
    BY DEF VolInv
  <2>6. budget'.faults = (budget.faults)'
    OBVIOUS
  <2> HIDE DEF j2
  <2>5. AppInv(b, app[b], man[b], j2, budget'.faults)
    BY <2>1, <2>2, <2>3, <2>4, Superseded
  <2> QED BY <2>3, <2>5 DEF j2
<1> QED BY <1>1 DEF VolInv

(* The operations of an app after one of them has moved.                   *)
LEMMA JobsMove ==
  ASSUME TypeOK, NEW s \in Slot, NEW x, job' = [job EXCEPT ![s] = x]
  PROVE  /\ Jobs(s[1])' = [Jobs(s[1]) EXCEPT ![s[2]] = x]
         /\ \A b \in App \ {s[1]} : Jobs(b)' = Jobs(b) /\ \A k \in Kind : job'[<<b, k>>] = job[<<b, k>>]
<1>s. s[1] \in App /\ s[2] \in Kind /\ s = <<s[1], s[2]>>
  BY OfSlot
<1>1. ASSUME NEW b \in App, NEW k \in Kind
      PROVE  job'[<<b, k>>] = IF b = s[1] /\ k = s[2] THEN x ELSE job[<<b, k>>]
  <2>1. <<b, k>> \in Slot
    BY DEF Slot
  <2>2. job \in [Slot -> JobRow]
    BY DEF TypeOK
  <2>3. <<b, k>> = s <=> b = s[1] /\ k = s[2]
    BY <1>s
  <2> QED BY <2>1, <2>2, <2>3
<1>2. [k \in Kind |-> job'[<<s[1], k>>]] = [[k \in Kind |-> job[<<s[1], k>>]] EXCEPT ![s[2]] = x]
  <2>1. [k \in Kind |-> job'[<<s[1], k>>]] = [k \in Kind |-> IF k = s[2] THEN x ELSE job[<<s[1], k>>]]
    BY <1>1, <1>s
  <2> QED BY <2>1, <1>s
<1>3. Jobs(s[1])' = [Jobs(s[1]) EXCEPT ![s[2]] = x]
  BY <1>2 DEF Jobs
<1>4. ASSUME NEW b \in App, b # s[1] PROVE Jobs(b)' = Jobs(b) /\ \A k \in Kind : job'[<<b, k>>] = job[<<b, k>>]
  BY <1>1, <1>4 DEF Jobs
<1> QED BY <1>3, <1>4

(* A move of one operation, in an action in which the engine goes on.      *)
LEMMA Moves ==
  ASSUME TypeOK, VolInv, NEW s \in Slot, NEW r2 \in Row, NEW x \in JobRow,
         app' = [app EXCEPT ![s[1]] = r2], job' = [job EXCEPT ![s] = x], man' = man,
         budget' = budget \/ Fault,
         AppInv(s[1], r2, man[s[1]], [Jobs(s[1]) EXCEPT ![s[2]] = x], budget'.faults)
  PROVE  TypeOK' /\ VolInv'
<1>s. s[1] \in App /\ s[2] \in Kind /\ s = <<s[1], s[2]>>
  BY OfSlot
<1>b. budget' \in [faults : 0 .. MaxFaults, edits : Nat] /\ budget'.faults <= budget.faults
  BY BoundAssumption DEF TypeOK, Fault
<1>1. TypeOK'
  BY <1>s, <1>b DEF TypeOK
<1>2. Jobs(s[1])' = [Jobs(s[1]) EXCEPT ![s[2]] = x]
  BY JobsMove
<1>3. app[s[1]]' = r2 /\ man[s[1]]' = man[s[1]]
  BY <1>s DEF TypeOK
<1>4. \A b \in App \ {s[1]} :
        /\ app'[b] = app[b] /\ man'[b] = man[b]
        /\ \A k \in Kind : job'[<<b, k>>] = job[<<b, k>>]
  BY <1>s, JobsMove DEF TypeOK
<1>5. AppInv(s[1], app[s[1]], man[s[1]], Jobs(s[1]), budget.faults)'
  BY <1>2, <1>3
<1>6. \A b \in App \ {s[1]} : \A k \in Kind : Alike(job[<<b, k>>], job'[<<b, k>>])
  BY <1>4 DEF Alike
<1> QED BY <1>s, <1>b, <1>1, <1>4, <1>5, <1>6, Elsewhere

(* What a restart does.                                                    *)
LEMMA Restarting ==
  ASSUME TypeOK, Restart
  PROVE  /\ budget'.faults \in 0 .. MaxFaults /\ budget'.faults < budget.faults
         /\ budget' \in [faults : 0 .. MaxFaults, edits : Nat]
         /\ man' \in [App -> ManRow]
         /\ \A b \in App :
              /\ man'[b] = IF man[b].st = "active" THEN [man[b] EXCEPT !.at = 1, !.waits = None] ELSE man[b]
              /\ man'[b].st = man[b].st /\ man'[b].want = man[b].want /\ man'[b].mode = man[b].mode
              /\ man[b].st = "active" => man'[b].at = 1
<1>1. budget' = [budget EXCEPT !.faults = budget.faults - 1] /\ budget.faults > 0
  BY DEF Restart
<1>2. budget \in [faults : 0 .. MaxFaults, edits : Nat]
  BY DEF TypeOK
<1>3. /\ budget'.faults \in 0 .. MaxFaults /\ budget'.faults < budget.faults
      /\ budget' \in [faults : 0 .. MaxFaults, edits : Nat]
  BY <1>1, <1>2, BoundAssumption
<1>4. ASSUME NEW b \in App
      PROVE  /\ man'[b] = IF man[b].st = "active" THEN [man[b] EXCEPT !.at = 1, !.waits = None] ELSE man[b]
             /\ man'[b].st = man[b].st /\ man'[b].want = man[b].want /\ man'[b].mode = man[b].mode
             /\ man[b].st = "active" => man'[b].at = 1
             /\ man'[b] \in ManRow
  BY <1>4 DEF Restart, TypeOK, ManRow
<1>5. man' \in [App -> ManRow]
  BY <1>4 DEF Restart
<1> QED BY <1>3, <1>4, <1>5

(* A move in an action in which the engine dies.                           *)
LEMMA MovesAndDies ==
  ASSUME TypeOK, VolInv, NEW s \in Slot, NEW r2 \in Row, NEW x \in JobRow,
         app' = [app EXCEPT ![s[1]] = r2], job' = [job EXCEPT ![s] = x], Restart,
         AppInv(s[1], r2, man[s[1]], [Jobs(s[1]) EXCEPT ![s[2]] = x], budget.faults)
  PROVE  TypeOK' /\ VolInv'
<1>s. s[1] \in App /\ s[2] \in Kind /\ s = <<s[1], s[2]>>
  BY OfSlot
<1>b. /\ budget'.faults \in 0 .. MaxFaults /\ budget'.faults < budget.faults
      /\ budget' \in [faults : 0 .. MaxFaults, edits : Nat]
      /\ man' \in [App -> ManRow]
      /\ \A b \in App :
           /\ man'[b] = IF man[b].st = "active" THEN [man[b] EXCEPT !.at = 1, !.waits = None] ELSE man[b]
           /\ man'[b].st = man[b].st /\ man'[b].want = man[b].want /\ man'[b].mode = man[b].mode
           /\ man[b].st = "active" => man'[b].at = 1
  BY Restarting
<1>1. TypeOK'
  <2>1. app' \in [App -> Row] /\ job' \in [Slot -> JobRow]
    BY <1>s DEF TypeOK
  <2>2. ASSUME NEW b \in App, man'[b].st = "active"
        PROVE  man'[b].want \in Want /\ man'[b].mode \in Modes /\ man'[b].at > 0
    <3>1. /\ man[b].st = "active" /\ man'[b].want = man[b].want /\ man'[b].mode = man[b].mode
          /\ man'[b].at = 1
      BY <2>2, <1>b
    <3>2. man[b].want \in Want /\ man[b].mode \in Modes
      BY <3>1 DEF TypeOK
    <3> QED BY <3>1, <3>2
  <2> QED BY <2>1, <2>2, <1>b DEF TypeOK
<1>2. ASSUME NEW b \in App PROVE AppInv(b, app[b], man[b], Jobs(b), budget.faults)'
  <2> DEFINE j2 == Jobs(b)'
  <2>1. Typed(app[b]', man[b], j2, budget.faults)
    BY <1>1, <1>s, <1>b DEF TypeOK, Typed, Jobs, Active, Slot
  <2>2. Typed(app[b]', man'[b], j2, budget'.faults)
    BY <1>1 DEF TypeOK, Typed, Jobs, Active, Slot
  <2>3. AppInv(b, app[b]', man[b], j2, budget.faults)
    <3>1. CASE b = s[1]
      BY <3>1, <1>s, JobsMove DEF TypeOK
    <3>2. CASE b # s[1]
      <4>1. app[b]' = app[b] /\ j2 = Jobs(b)
        BY <3>2, <1>s, JobsMove DEF TypeOK
      <4> QED BY <4>1 DEF VolInv
    <3> QED BY <3>1, <3>2
  <2>4. man'[b] = IF man[b].st = "active" THEN [man[b] EXCEPT !.at = 1, !.waits = None] ELSE man[b]
    BY <1>b
  <2>5. budget'.faults < budget.faults
    BY <1>b
  <2> HIDE DEF j2
  <2>7. Typed(app[b]', man'[b], j2, budget'.faults)
    BY <2>2
  <2>6. AppInv(b, app[b]', man'[b], j2, budget'.faults)
    BY <2>1, <2>3, <2>4, <2>5, <2>7, Restarted
  <2> QED BY <2>6 DEF j2
<1> QED BY <1>1, <1>2 DEF VolInv

(* A step that has its effect: its row is written, or the engine dies.     *)
LEMMA Finishes ==
  ASSUME TypeOK, VolInv, NEW s \in Slot, NEW r2 \in Row, NEW x \in JobRow,
         app' = [app EXCEPT ![s[1]] = r2], Finish(s, x),
         AppInv(s[1], r2, man[s[1]], [Jobs(s[1]) EXCEPT ![s[2]] = Past(s, x)], budget.faults),
         AppInv(s[1], r2, man[s[1]], [Jobs(s[1]) EXCEPT ![s[2]] = x], budget.faults)
  PROVE  TypeOK' /\ VolInv'
<1>1. CASE job' = [job EXCEPT ![s] = Past(s, x)] /\ UNCHANGED <<man, del, budget>>
  <2>1. Past(s, x) \in JobRow
    BY PastIs
  <2> QED BY <1>1, <2>1, Moves
<1>2. CASE job' = [job EXCEPT ![s] = x] /\ Restart
  BY <1>2, MovesAndDies
<1> QED BY <1>1, <1>2 DEF Finish

(* A step that throws, and at most leaves the container as it should not.  *)
LEMMA Throws ==
  ASSUME TypeOK, VolInv, NEW s \in Slot, NEW r2 \in Row,
         job[s].st = "running", Throw(s), SameRow(app[s[1]], r2), app' = [app EXCEPT ![s[1]] = r2],
         \/ Fault
         \/ UNCHANGED budget /\ r2 = app[s[1]] /\ (job[s].at = 1 \/ s[2] = "destroy")
  PROVE  TypeOK' /\ VolInv'
<1> DEFINE a == s[1]
           x == Thrown(s, job[s])
<1>s. s[1] \in App /\ s[2] \in Kind /\ job[s] \in JobRow /\ Jobs(s[1])[s[2]] = job[s]
  BY OfSlot
<1>t. Typed(app[a], man[a], Jobs(a), budget.faults) /\ AppInv(a, app[a], man[a], Jobs(a), budget.faults)
  BY <1>s, OfApp DEF VolInv
<1>w. Within(s[2], job[s])
  BY <1>s, <1>t DEF AppInv, Keys
<1>j. job' = [job EXCEPT ![s] = x] /\ man' = man
  BY DEF Throw
<1>b. /\ budget'.faults \in 0 .. MaxFaults /\ budget'.faults <= budget.faults
      /\ budget' = budget \/ Fault
      /\ r2 = app[a] \/ budget'.faults # MaxFaults
      /\ budget'.faults # MaxFaults \/ job[s].at = 1 \/ s[2] = "destroy"
  BY BoundAssumption DEF TypeOK, Fault
<1>x. /\ x \in JobRow
      /\ \/ x.st \in {"failed", "compensated"}
         \/ /\ s[2] \in {"attach", "adopt", "remount"} /\ job[s].at # 1 /\ (s[2] = "remount" => job[s].at = 3)
            /\ x.st = "undoing" /\ x.left # {} /\ SameJob(job[s], x) /\ x.vol = job[s].vol /\ x.old = job[s].old
  BY <1>s, <1>w, ThrownIs
<1> HIDE DEF x
<1>1. AppInv(a, r2, man[a], [Jobs(a) EXCEPT ![s[2]] = x], budget'.faults)
  <2>1. CASE x.st \in {"failed", "compensated"}
    <3>1. Lives(Jobs(a)[s[2]])
      BY <1>s DEF Lives
    <3> QED BY <1>s, <1>t, <1>b, <1>x, <2>1, <3>1, Ends
  <2>2. CASE x.st \notin {"failed", "compensated"}
    <3>1. s[2] \in {"attach", "adopt", "remount"} /\ (In(job[s], 2) \/ In(job[s], 3)) /\ (s[2] = "remount" => In(job[s], 3))
      BY <1>x, <1>w, <2>2 DEF In, Within
    <3>2. budget'.faults # MaxFaults
      BY <1>b, <1>x, <2>2
    <3> QED BY <1>s, <1>t, <1>b, <1>x, <2>2, <3>1, <3>2, Undoes
  <2> QED BY <2>1, <2>2
<1> QED BY <1>j, <1>b, <1>x, <1>1, Moves

(***************************************************************************)
(* The actions of the operations                                           *)
(***************************************************************************)
(* What is known of the operation that acts, and of its app.               *)
LEMMA Acting ==
  ASSUME TypeOK, VolInv, NEW s \in Slot
  PROVE  /\ s[1] \in App /\ s[2] \in Kind /\ s = <<s[1], s[2]>>
         /\ job[s] \in JobRow /\ app[s[1]] \in Row /\ Jobs(s[1])[s[2]] = job[s]
         /\ Typed(app[s[1]], man[s[1]], Jobs(s[1]), budget.faults)
         /\ AppInv(s[1], app[s[1]], man[s[1]], Jobs(s[1]), budget.faults)
         /\ Within(s[2], job[s])
         /\ app = [app EXCEPT ![s[1]] = app[s[1]]]
         /\ Jobs(s[1]) \in [Kind -> JobRow] /\ budget.faults \in 0 .. MaxFaults
<1>1. /\ s[1] \in App /\ s[2] \in Kind /\ s = <<s[1], s[2]>>
      /\ job[s] \in JobRow /\ Jobs(s[1])[s[2]] = job[s]
  BY OfSlot
<1>2. /\ Typed(app[s[1]], man[s[1]], Jobs(s[1]), budget.faults)
      /\ AppInv(s[1], app[s[1]], man[s[1]], Jobs(s[1]), budget.faults)
  BY <1>1, OfApp DEF VolInv
<1>3. Within(s[2], job[s])
  BY <1>1, <1>2 DEF AppInv, Keys
<1>4. app = [app EXCEPT ![s[1]] = app[s[1]]] /\ app[s[1]] \in Row
  BY <1>1 DEF TypeOK
<1>5. Jobs(s[1]) \in [Kind -> JobRow] /\ budget.faults \in 0 .. MaxFaults
  BY <1>2 DEF Typed
<1> QED BY <1>1, <1>2, <1>3, <1>4, <1>5

(* Whoever has the key of an app is the only one that works on it.         *)
LEMMA NobodyWorks ==
  ASSUME TypeOK, VolInv, NEW a \in App, NEW keys, a \in keys, Unlocked(keys)
  PROVE  \A l \in Keyed : ~Works(Jobs(a)[l])
<1> SUFFICES ASSUME NEW l \in Keyed, Works(Jobs(a)[l]) PROVE FALSE
  OBVIOUS
<1>1. l \in Kind
  BY Kinds
<1>2. <<a, l>> \in Slot /\ Jobs(a)[l] = job[<<a, l>>]
  BY <1>1, OfApp
<1>3. Lives(Jobs(a)[l]) /\ Busy(<<a, l>>)
  BY <1>2 DEF Works, Lives, Busy
<1>4. a \in job[<<a, l>>].lock
  BY <1>2, <1>3 DEF VolInv, AppInv, Keys
<1> QED BY <1>2, <1>3, <1>4 DEF Unlocked

LEMMA BeginKeeps ==
  ASSUME TypeOK, VolInv, NEW s \in Slot, Begin(s)
  PROVE  TypeOK' /\ VolInv'
<1> DEFINE a == s[1]
           k == s[2]
           x == [job[s] EXCEPT !.st = "running", !.at = 1]
<1>s. /\ s[1] \in App /\ s[2] \in Kind /\ job[s] \in JobRow /\ app[s[1]] \in Row /\ Jobs(s[1])[s[2]] = job[s]
      /\ Typed(app[s[1]], man[s[1]], Jobs(s[1]), budget.faults)
      /\ AppInv(s[1], app[s[1]], man[s[1]], Jobs(s[1]), budget.faults)
      /\ app = [app EXCEPT ![s[1]] = app[s[1]]]
  BY Acting
<1>x. x \in JobRow /\ x.st = "running" /\ x.at = 1 /\ SameJob(job[s], x) /\ x.vol = job[s].vol
  BY <1>s DEF JobRow, SameJob
<1>1. job[s].st = "pending" /\ Unlocked(job[s].lock) /\ job' = [job EXCEPT ![s] = x]
      /\ app' = app /\ man' = man /\ budget' = budget
  BY <1>s DEF Begin, world, TypeOK
<1> HIDE DEF x
<1>2. ASSUME k # "resize" PROVE \A l \in Keyed : ~Works(Jobs(a)[l])
  <2>1. a \in job[s].lock
    BY <1>s, <1>1, <1>2 DEF AppInv, Keys, Keyed, Lives
  <2> QED BY <1>s, <1>1, <2>1, NobodyWorks
<1>3. AppInv(a, app[a], man[a], [Jobs(a) EXCEPT ![k] = x], budget.faults)
  BY <1>s, <1>x, <1>1, <1>2, Begins
<1>4. AppInv(a, app[a], man[a], [Jobs(a) EXCEPT ![k] = x], budget'.faults)
  BY <1>1, <1>3
<1>5. app' = [app EXCEPT ![a] = app[a]]
  BY <1>s, <1>1
<1> QED BY <1>s, <1>x, <1>1, <1>4, <1>5, Moves

(* A step that throws and has not touched the row of the app.              *)
LEMMA Refused ==
  ASSUME TypeOK, VolInv, NEW s \in Slot, job[s].st = "running", Throw(s), UNCHANGED app,
         Fault \/ (UNCHANGED budget /\ (job[s].at = 1 \/ s[2] = "destroy"))
  PROVE  TypeOK' /\ VolInv'
<1>1. app[s[1]] \in Row /\ app' = [app EXCEPT ![s[1]] = app[s[1]]]
  BY Acting
<1>2. SameRow(app[s[1]], app[s[1]])
  BY DEF SameRow
<1> QED BY <1>1, <1>2, Throws

LEMMA RefusalsKeep ==
  ASSUME TypeOK, VolInv, NEW s \in Slot,
         \/ StepFails(s) \/ CreateUnanswered(s) \/ CreateRefused(s) \/ AttachUnconfirmed(s) \/ AttachRefused(s)
         \/ DetachRefused(s) \/ DetachUnconfirmed(s) \/ ResizeRefused(s) \/ ValidateRefused(s)
  PROVE  TypeOK' /\ VolInv'
<1>w. Within(s[2], job[s])
  BY Acting
<1>1. job[s].st = "running" /\ Throw(s) /\ UNCHANGED app
  BY DEF StepFails, CreateUnanswered, CreateRefused, AttachUnconfirmed, AttachRefused,
         DetachRefused, DetachUnconfirmed, ResizeRefused, ValidateRefused, At, world
<1>2. CASE StepFails(s) \/ CreateUnanswered(s) \/ AttachUnconfirmed(s) \/ DetachUnconfirmed(s)
  <2>1. Fault
    BY <1>2 DEF StepFails, CreateUnanswered, AttachUnconfirmed, DetachUnconfirmed
  <2> QED BY <1>1, <2>1, Refused
<1>3. CASE CreateRefused(s) \/ AttachRefused(s) \/ DetachRefused(s) \/ ResizeRefused(s) \/ ValidateRefused(s)
  <2>1. UNCHANGED budget
    BY <1>3 DEF CreateRefused, AttachRefused, DetachRefused, ResizeRefused, ValidateRefused
  <2>2. At(s, "create") \/ At(s, "attach") \/ At(s, "detach") \/ At(s, "resize") \/ At(s, "validate")
    BY <1>3 DEF CreateRefused, AttachRefused, DetachRefused, ResizeRefused, ValidateRefused
  <2>3. job[s].at = 1
    BY <2>2, <1>w, Where
  <2> QED BY <1>1, <2>1, <2>3, Refused
<1> QED BY <1>2, <1>3

LEMMA CreateVolumeKeeps ==
  ASSUME TypeOK, VolInv, NEW s \in Slot, CreateVolume(s)
  PROVE  TypeOK' /\ VolInv'
<1> DEFINE a == s[1]
<1>s. /\ s[1] \in App /\ s[2] \in Kind /\ job[s] \in JobRow /\ app[s[1]] \in Row /\ Jobs(s[1])[s[2]] = job[s]
      /\ Typed(app[s[1]], man[s[1]], Jobs(s[1]), budget.faults)
      /\ AppInv(s[1], app[s[1]], man[s[1]], Jobs(s[1]), budget.faults)
      /\ app = [app EXCEPT ![s[1]] = app[s[1]]] /\ Within(s[2], job[s])
  BY Acting
<1>1. CanTake(a) /\ app' = [app EXCEPT ![a] = app[a]]
  BY <1>s DEF CreateVolume
<1>2. s[2] = "attach" /\ In(job[s], 1)
  BY <1>s, Where DEF CreateVolume, In
<1>3. PICK x : /\ x \in JobRow /\ Finish(s, x) /\ In(x, 1) /\ SameJob(job[s], x) /\ x.vol # None
  <2>1. CASE job[s].vol = None /\ \E w \in Vol : Finish(s, [job[s] EXCEPT !.vol = w])
    <3>1. PICK w \in Vol : Finish(s, [job[s] EXCEPT !.vol = w])
      BY <2>1
    <3> DEFINE x == [job[s] EXCEPT !.vol = w]
    <3>2. x \in JobRow /\ In(x, 1) /\ SameJob(job[s], x) /\ x.vol = w
      BY <1>s, <1>2 DEF JobRow, In, SameJob
    <3>3. w # None
      BY NamesAssumption
    <3> QED BY <3>1, <3>2, <3>3
  <2>2. CASE job[s].vol # None /\ Finish(s, job[s])
    BY <1>s, <1>2, <2>2 DEF SameJob
  <2> QED BY <2>1, <2>2 DEF CreateVolume
<1>4. s[2] \in Taker /\ Stays(app[a]) => app[a].vol = None
  BY <1>1 DEF CanTake
<1>5. AppInv(a, app[a], man[a], [Jobs(a) EXCEPT ![s[2]] = x], budget.faults)
  <2>1. x.st = "running" /\ x.at \in {1, 2}
    BY <1>3 DEF In
  <2> QED BY <1>s, <1>1, <1>2, <1>3, <2>1, Kinds, TakerGoes DEF CanTake
<1>6. AppInv(a, app[a], man[a], [Jobs(a) EXCEPT ![s[2]] = Past(s, x)], budget.faults)
  <2> DEFINE y == Past(s, x)
  <2>1. y \in JobRow /\ y.st = "running" /\ y.at \in {1, 2} /\ SameJob(x, y) /\ y.vol = x.vol
    BY <1>2, <1>3, PastIs DEF In, Last
  <2>2. SameJob(job[s], y) /\ y.vol # None
    BY <1>3, <2>1 DEF SameJob
  <2> HIDE DEF y
  <2> QED BY <1>s, <1>1, <1>2, <2>1, <2>2, Kinds, TakerGoes DEF CanTake, y
<1> QED BY <1>s, <1>1, <1>3, <1>5, <1>6, Finishes

LEMMA AttachVolumeKeeps ==
  ASSUME TypeOK, VolInv, NEW s \in Slot, AttachVolume(s)
  PROVE  TypeOK' /\ VolInv'
<1> DEFINE a == s[1]
           x == job[s]
           y == Past(s, job[s])
<1>s. /\ s[1] \in App /\ s[2] \in Kind /\ job[s] \in JobRow /\ app[s[1]] \in Row /\ Jobs(s[1])[s[2]] = job[s]
      /\ Typed(app[s[1]], man[s[1]], Jobs(s[1]), budget.faults)
      /\ AppInv(s[1], app[s[1]], man[s[1]], Jobs(s[1]), budget.faults)
      /\ app = [app EXCEPT ![s[1]] = app[s[1]]] /\ Within(s[2], job[s])
  BY Acting
<1>1. CanTake(a) /\ app' = [app EXCEPT ![a] = app[a]] /\ Finish(s, x)
  BY <1>s DEF AttachVolume
<1>2. s[2] = "adopt" /\ In(x, 1)
  BY <1>s, Where DEF AttachVolume, In
<1>3. y \in JobRow /\ y.st = "running" /\ y.at \in {1, 2} /\ SameJob(x, y) /\ y.vol = x.vol
  BY <1>s, <1>2, PastIs DEF In, Last
<1> HIDE DEF y
<1>4. ASSUME Stays(app[a]) PROVE app[a].vol = None /\ x.vol # None
  <2>1. Recording(app[a], Jobs(a))
    BY <1>s, <1>4 DEF AppInv, Whole, Rows
  <2> QED BY <1>s, <1>1, <1>2, <2>1 DEF Recording, Taker, CanTake, Lives, In
<1>5. x.st = "running" /\ x.at = 1 /\ s[2] \in Taker /\ SameJob(x, x)
  BY <1>2, Kinds DEF In, SameJob
<1>6. AppInv(a, app[a], man[a], [Jobs(a) EXCEPT ![s[2]] = x], budget.faults)
  BY <1>s, <1>2, <1>4, <1>5, TakerGoes
<1>7. AppInv(a, app[a], man[a], [Jobs(a) EXCEPT ![s[2]] = y], budget.faults)
  BY <1>s, <1>2, <1>3, <1>4, <1>5, TakerGoes
<1> QED BY <1>s, <1>1, <1>6, <1>7, Finishes DEF y

LEMMA RecordVolumeKeeps ==
  ASSUME TypeOK, VolInv, NEW s \in Slot, RecordVolume(s)
  PROVE  TypeOK' /\ VolInv'
<1> DEFINE a == s[1]
           x == job[s]
           y == Past(s, job[s])
           r2 == [app[a] EXCEPT !.vol = x.vol, !.path = x.path, !.adopted = (s[2] = "adopt"),
                                !.driver = TRUE, !.cur = FALSE]
<1>s. /\ s[1] \in App /\ s[2] \in Kind /\ job[s] \in JobRow /\ app[s[1]] \in Row /\ Jobs(s[1])[s[2]] = job[s]
      /\ Typed(app[s[1]], man[s[1]], Jobs(s[1]), budget.faults)
      /\ AppInv(s[1], app[s[1]], man[s[1]], Jobs(s[1]), budget.faults)
      /\ app = [app EXCEPT ![s[1]] = app[s[1]]] /\ Within(s[2], job[s])
  BY Acting
<1>1. app[a].vol \in {None, x.vol} /\ app' = [app EXCEPT ![a] = r2] /\ Finish(s, x)
  BY DEF RecordVolume
<1>2. s[2] \in Taker /\ In(x, 2)
  BY <1>s, Where DEF RecordVolume, In
<1>3. y \in JobRow /\ y.st = "running" /\ y.at \in {2, 3} /\ SameJob(x, y) /\ y.vol = x.vol
  BY <1>s, <1>2, PastIs DEF In, Last, Taker
<1>4. x.st = "running" /\ x.at \in {2, 3} /\ SameJob(x, x)
  BY <1>2 DEF In, SameJob
<1>5. /\ r2 \in Row
      /\ r2.here = app[a].here /\ r2.doomed = app[a].doomed /\ r2.vol = x.vol /\ r2.path = x.path
      /\ (r2.adopted = TRUE <=> s[2] = "adopt") /\ r2.cur = FALSE
  BY <1>s DEF Row, JobRow
<1>6. y.path = x.path /\ r2.path = y.path /\ r2.vol = y.vol /\ app[a].vol \in {None, y.vol}
  BY <1>1, <1>3, <1>5 DEF SameJob
<1> HIDE DEF y, r2
<1>7. AppInv(a, r2, man[a], [Jobs(a) EXCEPT ![s[2]] = x], budget.faults)
  BY <1>s, <1>1, <1>2, <1>4, <1>5, Records
<1>8. AppInv(a, r2, man[a], [Jobs(a) EXCEPT ![s[2]] = y], budget.faults)
  <2>1. In(Jobs(a)[s[2]], 2) /\ SameJob(Jobs(a)[s[2]], y) /\ y.vol = Jobs(a)[s[2]].vol
    BY <1>s, <1>2, <1>3
  <2> HIDE DEF x, a
  <2> QED BY <2>1, <1>s, <1>2, <1>3, <1>5, <1>6, Records DEF a
<1> QED BY <1>s, <1>1, <1>5, <1>7, <1>8, Finishes DEF y

(* The container runs again, as it was or with mount m.                    *)
LEMMA RecreatedIs ==
  ASSUME NEW r \in Row, NEW m \in [vol : Vol \cup {None}, path : Path \cup {None}]
  PROVE  /\ Recreated(r, m) \in Row /\ SameRow(r, Recreated(r, m)) /\ Recreated(r, m).cur = TRUE
         /\ Recreated(r, m).box = IF r.cur = TRUE /\ r.box # Down THEN r.box ELSE m
BY DEF Recreated, Row, SameRow

LEMMA RecreateContainerKeeps ==
  ASSUME TypeOK, VolInv, NEW s \in Slot, RecreateContainer(s)
  PROVE  TypeOK' /\ VolInv'
<1> DEFINE a == s[1]
           x == job[s]
           y == Past(s, job[s])
           mount == [vol |-> job[s].vol, path |-> job[s].path]
           r2 == Recreated(app[a], mount)
<1>s. /\ s[1] \in App /\ s[2] \in Kind /\ job[s] \in JobRow /\ app[s[1]] \in Row /\ Jobs(s[1])[s[2]] = job[s]
      /\ Typed(app[s[1]], man[s[1]], Jobs(s[1]), budget.faults)
      /\ AppInv(s[1], app[s[1]], man[s[1]], Jobs(s[1]), budget.faults)
      /\ app = [app EXCEPT ![s[1]] = app[s[1]]] /\ Within(s[2], job[s])
  BY Acting
<1>1. app' = [app EXCEPT ![a] = r2] /\ Finish(s, x)
  BY DEF RecreateContainer
<1>2. s[2] \in {"attach", "adopt", "remount"} /\ In(x, 3)
  BY <1>s, Where DEF RecreateContainer, In
<1>3. y \in JobRow /\ y.st = "done"
  BY <1>s, <1>2, PastIs DEF In, Last
<1>4. x.st = "running" /\ x.at = 3 /\ SameJob(x, x)
  BY <1>2 DEF In, SameJob
<1>5. /\ r2 \in Row /\ SameRow(app[a], r2)
      /\ r2.box = IF app[a].cur = TRUE /\ app[a].box # Down THEN app[a].box ELSE mount
  <2>1. mount \in [vol : Vol \cup {None}, path : Path \cup {None}]
    BY <1>s DEF JobRow
  <2> HIDE DEF mount
  <2> QED BY <1>s, <2>1, RecreatedIs
<1> HIDE DEF y, r2
<1>7. AppInv(a, r2, man[a], [Jobs(a) EXCEPT ![s[2]] = x], budget.faults)
  BY <1>s, <1>1, <1>2, <1>4, <1>5, Recreates
<1>8. AppInv(a, r2, man[a], [Jobs(a) EXCEPT ![s[2]] = y], budget.faults)
  BY <1>s, <1>2, <1>3, <1>5, Recreates
<1> QED BY <1>s, <1>1, <1>5, <1>7, <1>8, Finishes DEF y

LEMMA RecreateFailsKeeps ==
  ASSUME TypeOK, VolInv, NEW s \in Slot, RecreateFails(s)
  PROVE  TypeOK' /\ VolInv'
<1> DEFINE a == s[1]
           mount == [vol |-> job[s].vol, path |-> job[s].path]
           lost == [app[a] EXCEPT !.box = IF app[a].cur THEN app[a].box ELSE Down]
<1>s. /\ s[1] \in App /\ s[2] \in Kind /\ job[s] \in JobRow /\ app[s[1]] \in Row /\ Jobs(s[1])[s[2]] = job[s]
      /\ Typed(app[s[1]], man[s[1]], Jobs(s[1]), budget.faults)
      /\ AppInv(s[1], app[s[1]], man[s[1]], Jobs(s[1]), budget.faults)
      /\ app = [app EXCEPT ![s[1]] = app[s[1]]] /\ Within(s[2], job[s])
  BY Acting
<1>1. Fault /\ Throw(s) /\ job[s].st = "running"
  BY DEF RecreateFails, At
<1>2. mount \in [vol : Vol \cup {None}, path : Path \cup {None}]
  BY <1>s DEF JobRow
<1>3. CASE app' = [app EXCEPT ![a] = Recreated(app[a], mount)]
  <2> HIDE DEF mount
  <2> QED BY <1>s, <1>1, <1>2, <1>3, RecreatedIs, Throws
<1>4. CASE app' = [app EXCEPT ![a] = lost]
  <2>1. lost \in Row /\ SameRow(app[a], lost)
    BY <1>s DEF Row, SameRow
  <2> HIDE DEF lost
  <2> QED BY <1>s, <1>1, <1>4, <2>1, Throws
<1>5. app' \in {[app EXCEPT ![a] = Recreated(app[a], mount)], [app EXCEPT ![a] = lost]}
  <2>1. [app EXCEPT ![a].box = IF app[a].cur THEN @ ELSE Down] = [app EXCEPT ![a] = lost]
    BY <1>s DEF TypeOK
  <2>2. [app EXCEPT ![a] = Recreated(@, mount)] = [app EXCEPT ![a] = Recreated(app[a], mount)]
    BY <1>s DEF TypeOK
  <2>3. app' \in {[app EXCEPT ![a] = Recreated(@, mount)], [app EXCEPT ![a].box = IF app[a].cur THEN @ ELSE Down]}
    BY DEF RecreateFails
  <2> QED BY <2>1, <2>2, <2>3
<1> QED BY <1>3, <1>4, <1>5

LEMMA DetachVolumeKeeps ==
  ASSUME TypeOK, VolInv, NEW s \in Slot, DetachVolume(s)
  PROVE  TypeOK' /\ VolInv'
<1> DEFINE a == s[1]
           x == job[s]
           y == Past(s, job[s])
<1>s. /\ s[1] \in App /\ s[2] \in Kind /\ job[s] \in JobRow /\ app[s[1]] \in Row /\ Jobs(s[1])[s[2]] = job[s]
      /\ Typed(app[s[1]], man[s[1]], Jobs(s[1]), budget.faults)
      /\ AppInv(s[1], app[s[1]], man[s[1]], Jobs(s[1]), budget.faults)
      /\ app = [app EXCEPT ![s[1]] = app[s[1]]] /\ Within(s[2], job[s])
  BY Acting
<1>1. app' = [app EXCEPT ![a] = app[a]] /\ Finish(s, x)
  BY <1>s DEF DetachVolume
<1>2. s[2] = "detach" /\ In(x, 1)
  BY <1>s, Where DEF DetachVolume, In
<1>3. y \in JobRow /\ y.st = "running" /\ y.at \in {1, 2} /\ SameJob(x, y)
  BY <1>s, <1>2, PastIs DEF In, Last
<1>4. x.st = "running" /\ x.at \in {1, 2} /\ SameJob(x, x)
  BY <1>2 DEF In, SameJob
<1> HIDE DEF y
<1>5. AppInv(a, app[a], man[a], [Jobs(a) EXCEPT ![s[2]] = x], budget.faults)
  BY <1>s, <1>2, <1>4, DetachGoes
<1>6. AppInv(a, app[a], man[a], [Jobs(a) EXCEPT ![s[2]] = y], budget.faults)
  BY <1>s, <1>2, <1>3, DetachGoes
<1> QED BY <1>s, <1>1, <1>5, <1>6, Finishes DEF y

(* The fields of a row without a volume.                                   *)
LEMMA ClearIs ==
  ASSUME NEW r \in Row
  PROVE  /\ Clear(r) \in Row /\ Clear(r).here = r.here /\ Clear(r).doomed = r.doomed
         /\ Clear(r).vol = None /\ Clear(r).path = None /\ Clear(r).box = r.box /\ Clear(r).cur = r.cur
BY DEF Clear, Row

LEMMA ClearAppVolumeKeeps ==
  ASSUME TypeOK, VolInv, NEW s \in Slot, ClearAppVolume(s)
  PROVE  TypeOK' /\ VolInv'
<1> DEFINE a == s[1]
           x == job[s]
           y == Past(s, job[s])
           r2 == Clear(app[a])
<1>s. /\ s[1] \in App /\ s[2] \in Kind /\ job[s] \in JobRow /\ app[s[1]] \in Row /\ Jobs(s[1])[s[2]] = job[s]
      /\ Typed(app[s[1]], man[s[1]], Jobs(s[1]), budget.faults)
      /\ AppInv(s[1], app[s[1]], man[s[1]], Jobs(s[1]), budget.faults)
      /\ app = [app EXCEPT ![s[1]] = app[s[1]]] /\ Within(s[2], job[s])
  BY Acting
<1>1. app' = [app EXCEPT ![a] = r2] /\ Finish(s, x)
  BY DEF ClearAppVolume
<1>2. s[2] = "detach" /\ In(x, 2)
  BY <1>s, Where DEF ClearAppVolume, In
<1>3. y \in JobRow /\ y.st = "running" /\ y.at \in {2, 3} /\ SameJob(x, y)
  BY <1>s, <1>2, PastIs DEF In, Last
<1>4. x.st = "running" /\ x.at \in {2, 3} /\ SameJob(x, x)
  BY <1>2 DEF In, SameJob
<1>5. /\ r2 \in Row /\ r2.here = app[a].here /\ r2.doomed = app[a].doomed
      /\ r2.vol = None /\ r2.path = None /\ r2.box = app[a].box /\ r2.cur = app[a].cur
  BY <1>s, ClearIs
<1> HIDE DEF y, r2
<1>6. AppInv(a, r2, man[a], [Jobs(a) EXCEPT ![s[2]] = x], budget.faults)
  BY <1>s, <1>2, <1>4, <1>5, Clears
<1>7. AppInv(a, r2, man[a], [Jobs(a) EXCEPT ![s[2]] = y], budget.faults)
  BY <1>s, <1>2, <1>3, <1>5, Clears
<1> QED BY <1>s, <1>1, <1>5, <1>6, <1>7, Finishes DEF y

LEMMA RecreateBareKeeps ==
  ASSUME TypeOK, VolInv, NEW s \in Slot, RecreateBare(s) \/ RecreateBareFails(s)
  PROVE  TypeOK' /\ VolInv'
<1> DEFINE a == s[1]
           x == job[s]
           y == Past(s, job[s])
           r2 == Recreated(app[a], Bare)
           lost == [app[a] EXCEPT !.box = IF app[a].cur THEN app[a].box ELSE Down]
<1>s. /\ s[1] \in App /\ s[2] \in Kind /\ job[s] \in JobRow /\ app[s[1]] \in Row /\ Jobs(s[1])[s[2]] = job[s]
      /\ Typed(app[s[1]], man[s[1]], Jobs(s[1]), budget.faults)
      /\ AppInv(s[1], app[s[1]], man[s[1]], Jobs(s[1]), budget.faults)
      /\ app = [app EXCEPT ![s[1]] = app[s[1]]] /\ Within(s[2], job[s])
  BY Acting
<1>1. CASE RecreateBare(s)
  <2>1. app' = [app EXCEPT ![a] = r2] /\ Finish(s, x)
    BY <1>1 DEF RecreateBare
  <2>2. s[2] = "detach" /\ In(x, 3)
    BY <1>s, <1>1, Where DEF RecreateBare, In
  <2>3. y \in JobRow /\ y.st = "done"
    BY <1>s, <2>2, PastIs DEF In, Last
  <2>4. x.st = "running" /\ x.at = 3 /\ SameJob(x, x)
    BY <2>2 DEF In, SameJob
  <2>5. Bare \in [vol : Vol \cup {None}, path : Path \cup {None}] /\ Bare = [vol |-> None, path |-> None]
    BY DEF Bare
  <2>6. /\ r2 \in Row /\ SameRow(app[a], r2)
        /\ r2.box = IF app[a].cur = TRUE /\ app[a].box # Down THEN app[a].box ELSE Bare
    BY <1>s, <2>5, RecreatedIs
  <2> HIDE DEF y, r2
  <2>7. AppInv(a, r2, man[a], [Jobs(a) EXCEPT ![s[2]] = x], budget.faults)
    BY <1>s, <2>2, <2>4, <2>5, <2>6, Bares
  <2>8. AppInv(a, r2, man[a], [Jobs(a) EXCEPT ![s[2]] = y], budget.faults)
    BY <1>s, <2>2, <2>3, <2>5, <2>6, Bares
  <2> QED BY <1>s, <2>1, <2>6, <2>7, <2>8, Finishes DEF y
<1>2. CASE RecreateBareFails(s)
  <2>1. Fault /\ Throw(s) /\ job[s].st = "running"
    BY <1>2 DEF RecreateBareFails, At
  <2>2. app' = [app EXCEPT ![a] = lost]
    BY <1>2, <1>s DEF RecreateBareFails, TypeOK
  <2>3. lost \in Row /\ SameRow(app[a], lost)
    BY <1>s DEF Row, SameRow
  <2> HIDE DEF lost
  <2> QED BY <1>s, <2>1, <2>2, <2>3, Throws
<1> QED BY <1>1, <1>2

LEMMA ResizeVolumeKeeps ==
  ASSUME TypeOK, VolInv, NEW s \in Slot, ResizeVolume(s)
  PROVE  TypeOK' /\ VolInv'
<1> DEFINE a == s[1]
           x == job[s]
           y == Past(s, job[s])
<1>s. /\ s[1] \in App /\ s[2] \in Kind /\ job[s] \in JobRow /\ app[s[1]] \in Row /\ Jobs(s[1])[s[2]] = job[s]
      /\ Typed(app[s[1]], man[s[1]], Jobs(s[1]), budget.faults)
      /\ AppInv(s[1], app[s[1]], man[s[1]], Jobs(s[1]), budget.faults)
      /\ app = [app EXCEPT ![s[1]] = app[s[1]]] /\ Within(s[2], job[s])
  BY Acting
<1>1. app' = [app EXCEPT ![a] = app[a]] /\ Finish(s, x)
  BY <1>s DEF ResizeVolume, world
<1>2. s[2] = "resize" /\ In(x, 1)
  BY <1>s, Where DEF ResizeVolume, In
<1>3. y \in JobRow /\ y.st = "done"
  BY <1>s, <1>2, PastIs DEF In, Last
<1>4. Works(Jobs(a)[s[2]])
  BY <1>s, <1>2 DEF In, Works
<1> HIDE DEF y
<1>5. AppInv(a, app[a], man[a], [Jobs(a) EXCEPT ![s[2]] = x], budget.faults)
  <2>1. Jobs(a) \in [Kind -> JobRow]
    BY <1>s DEF Typed
  <2>2. [Jobs(a) EXCEPT ![s[2]] = x] = Jobs(a)
    BY <2>1, <1>s
  <2> QED BY <2>2, <1>s
<1>6. AppInv(a, app[a], man[a], [Jobs(a) EXCEPT ![s[2]] = y], budget.faults)
  BY <1>s, <1>2, <1>3, <1>4, Resizes
<1> QED BY <1>s, <1>1, <1>5, <1>6, Finishes DEF y

LEMMA ValidateMountKeeps ==
  ASSUME TypeOK, VolInv, NEW s \in Slot, ValidateMount(s)
  PROVE  TypeOK' /\ VolInv'
<1> DEFINE a == s[1]
           x == [job[s] EXCEPT !.vol = app[a].vol, !.old = app[a].path]
           y == Past(s, x)
<1>s. /\ s[1] \in App /\ s[2] \in Kind /\ job[s] \in JobRow /\ app[s[1]] \in Row /\ Jobs(s[1])[s[2]] = job[s]
      /\ Typed(app[s[1]], man[s[1]], Jobs(s[1]), budget.faults)
      /\ AppInv(s[1], app[s[1]], man[s[1]], Jobs(s[1]), budget.faults)
      /\ app = [app EXCEPT ![s[1]] = app[s[1]]] /\ Within(s[2], job[s])
  BY Acting
<1>1. app[a].vol # None /\ app' = [app EXCEPT ![a] = app[a]] /\ Finish(s, x)
  BY <1>s DEF ValidateMount, world
<1>2. s[2] = "remount" /\ In(job[s], 1)
  BY <1>s, Where DEF ValidateMount, In
<1>3. x \in JobRow /\ x.st = "running" /\ x.at = 1 /\ SameJob(job[s], x) /\ x.vol = app[a].vol /\ x.old = app[a].path
  BY <1>s, <1>2 DEF JobRow, Row, In, SameJob
<1> HIDE DEF x
<1>4. /\ y \in JobRow /\ y.st = "running" /\ y.at \in {1, 2} /\ SameJob(x, y)
      /\ y.vol = app[a].vol /\ y.old = app[a].path
  BY <1>s, <1>2, <1>3, PastIs DEF Last
<1>5. SameJob(job[s], y)
  BY <1>3, <1>4 DEF SameJob
<1> HIDE DEF y
<1>6. AppInv(a, app[a], man[a], [Jobs(a) EXCEPT ![s[2]] = x], budget.faults)
  BY <1>s, <1>1, <1>2, <1>3, MountGoes
<1>7. AppInv(a, app[a], man[a], [Jobs(a) EXCEPT ![s[2]] = y], budget.faults)
  BY <1>s, <1>1, <1>2, <1>4, <1>5, MountGoes
<1> QED BY <1>s, <1>1, <1>3, <1>6, <1>7, Finishes DEF y

(* The fields of a row with another path.                                  *)
LEMMA MountedIs ==
  ASSUME NEW r \in Row, NEW p \in Path \cup {None}
  PROVE  /\ Mounted(r, p) \in Row /\ Mounted(r, p).here = r.here /\ Mounted(r, p).doomed = r.doomed
         /\ Mounted(r, p).vol = r.vol /\ Mounted(r, p).path = p /\ Mounted(r, p).adopted = r.adopted
         /\ Mounted(r, p).box = r.box /\ Mounted(r, p).cur = r.cur
BY DEF Mounted, Row

LEMMA UpdateMountKeeps ==
  ASSUME TypeOK, VolInv, NEW s \in Slot, UpdateMount(s)
  PROVE  TypeOK' /\ VolInv'
<1> DEFINE a == s[1]
           x == job[s]
           y == Past(s, job[s])
           r2 == IF app[a].path = x.path THEN app[a] ELSE Mounted(app[a], x.path)
<1>s. /\ s[1] \in App /\ s[2] \in Kind /\ job[s] \in JobRow /\ app[s[1]] \in Row /\ Jobs(s[1])[s[2]] = job[s]
      /\ Typed(app[s[1]], man[s[1]], Jobs(s[1]), budget.faults)
      /\ AppInv(s[1], app[s[1]], man[s[1]], Jobs(s[1]), budget.faults)
      /\ app = [app EXCEPT ![s[1]] = app[s[1]]] /\ Within(s[2], job[s])
  BY Acting
<1>1. app' = [app EXCEPT ![a] = r2] /\ Finish(s, x)
  BY <1>s DEF UpdateMount, TypeOK
<1>2. s[2] = "remount" /\ In(x, 2)
  BY <1>s, Where DEF UpdateMount, In
<1>3. /\ y \in JobRow /\ y.st = "running" /\ y.at \in {2, 3} /\ SameJob(x, y) /\ y.vol = x.vol /\ y.old = x.old
      /\ y.path = x.path
  BY <1>s, <1>2, PastIs DEF In, Last, SameJob
<1>4. x.st = "running" /\ x.at \in {2, 3} /\ SameJob(x, x)
  BY <1>2 DEF In, SameJob
<1>p. x.path \in Path \cup {None}
  BY <1>s DEF JobRow
<1>5. /\ r2 \in Row /\ r2.here = app[a].here /\ r2.doomed = app[a].doomed
      /\ r2.vol = app[a].vol /\ r2.path = x.path /\ r2.adopted = app[a].adopted
      /\ r2.box = app[a].box /\ r2.cur = app[a].cur
  BY <1>s, <1>p, MountedIs
<1> HIDE DEF y, r2
<1>6. AppInv(a, r2, man[a], [Jobs(a) EXCEPT ![s[2]] = x], budget.faults)
  BY <1>s, <1>2, <1>4, <1>5, Updates
<1>7. AppInv(a, r2, man[a], [Jobs(a) EXCEPT ![s[2]] = y], budget.faults)
  BY <1>s, <1>2, <1>3, <1>5, Updates
<1> QED BY <1>s, <1>1, <1>5, <1>6, <1>7, Finishes DEF y

(* A step of a destruction is over, well or not.                           *)
LEMMA DestroyGoes ==
  ASSUME TypeOK, VolInv, NEW s \in Slot, NEW r2 \in Row, NEW n2 \in 0 .. MaxFaults, n2 <= budget.faults,
         s[2] = "destroy", job[s].st = "running", r2 = app[s[1]] \/ ~Stays(r2),
         NEW x \in JobRow, SameJob(job[s], x), x.at = job[s].at, x.st = "running"
  PROVE  /\ AppInv(s[1], r2, man[s[1]], [Jobs(s[1]) EXCEPT ![s[2]] = x], n2)
         /\ AppInv(s[1], r2, man[s[1]], [Jobs(s[1]) EXCEPT ![s[2]] = Past(s, x)], n2)
<1> DEFINE a == s[1]
           y == Past(s, x)
<1>s. /\ s[1] \in App /\ s[2] \in Kind /\ job[s] \in JobRow /\ app[s[1]] \in Row /\ Jobs(s[1])[s[2]] = job[s]
      /\ Typed(app[s[1]], man[s[1]], Jobs(s[1]), budget.faults)
      /\ AppInv(s[1], app[s[1]], man[s[1]], Jobs(s[1]), budget.faults)
      /\ app = [app EXCEPT ![s[1]] = app[s[1]]] /\ Within(s[2], job[s])
  BY Acting
<1>1. Works(Jobs(a)["destroy"])
  BY <1>s DEF Works
<1>2. x.at \in {1, 2, 3}
  BY <1>s DEF Within
<1>3. y \in JobRow /\ (x.at = 3 => y.st = "done") /\ (x.at # 3 => y.st = "running" /\ y.at = x.at + 1 /\ SameJob(x, y))
  BY <1>s, PastIs DEF Last
<1>4. SameJob(job[s], y) \/ y.st # "running"
  BY <1>3 DEF SameJob
<1>5. y.st \in {"done", "failed"} \/ (y.st = "running" /\ y.at \in {1, 2, 3})
  BY <1>2, <1>3
<1> HIDE DEF y
<1>6. AppInv(a, r2, man[a], [Jobs(a) EXCEPT ![s[2]] = x], n2)
  BY <1>s, <1>1, <1>2, Destroys
<1>7. AppInv(a, r2, man[a], [Jobs(a) EXCEPT ![s[2]] = y], n2)
  BY <1>s, <1>1, <1>3, <1>4, <1>5, Destroys
<1> QED BY <1>6, <1>7 DEF y

(* A destruction that is reported incomplete goes on.                      *)
LEMMA SoftFailure ==
  ASSUME TypeOK, VolInv, NEW s \in Slot, NEW r2 \in Row,
         s[2] = "destroy", job[s].st = "running", r2 = app[s[1]] \/ ~Stays(r2),
         app' = [app EXCEPT ![s[1]] = r2], Fault \/ UNCHANGED budget,
         job' = [job EXCEPT ![s] = Past(s, [job[s] EXCEPT !.soft = TRUE])], man' = man
  PROVE  TypeOK' /\ VolInv'
<1> DEFINE x == [job[s] EXCEPT !.soft = TRUE]
<1>s. job[s] \in JobRow
  BY Acting
<1>1. x \in JobRow /\ SameJob(job[s], x) /\ x.at = job[s].at /\ x.st = "running"
  BY <1>s DEF JobRow, SameJob
<1>2. budget'.faults \in 0 .. MaxFaults /\ budget'.faults <= budget.faults
  BY BoundAssumption DEF TypeOK, Fault
<1>4. Past(s, x) \in JobRow
  BY <1>1, PastIs
<1> HIDE DEF x
<1>3. AppInv(s[1], r2, man[s[1]], [Jobs(s[1]) EXCEPT ![s[2]] = Past(s, x)], budget'.faults)
  BY <1>1, <1>2, DestroyGoes
<1> QED BY <1>3, <1>4, Moves DEF x

LEMMA DestroyingKeeps ==
  ASSUME TypeOK, VolInv, NEW s \in Slot, Destroying(s)
  PROVE  TypeOK' /\ VolInv'
<1> DEFINE a == s[1]
           x == job[s]
<1>s. /\ s[1] \in App /\ s[2] \in Kind /\ job[s] \in JobRow /\ app[s[1]] \in Row /\ Jobs(s[1])[s[2]] = job[s]
      /\ Typed(app[s[1]], man[s[1]], Jobs(s[1]), budget.faults)
      /\ AppInv(s[1], app[s[1]], man[s[1]], Jobs(s[1]), budget.faults)
      /\ app = [app EXCEPT ![s[1]] = app[s[1]]] /\ Within(s[2], job[s])
  BY Acting
<1>1. s[2] = "destroy" /\ job[s].st = "running"
  BY <1>s, Where DEF Destroying, StopApp, ReleaseVolume, DeleteRows
<1>2. SameJob(x, x) /\ budget.faults \in 0 .. MaxFaults /\ budget.faults <= budget.faults
  BY <1>s DEF SameJob, Typed
<1>3. ASSUME NEW r2 \in Row, r2 = app[a] \/ ~Stays(r2), app' = [app EXCEPT ![a] = r2], Finish(s, x)
      PROVE  TypeOK' /\ VolInv'
  BY <1>s, <1>1, <1>2, <1>3, DestroyGoes, Finishes
<1>4. [job EXCEPT ![s] = Past(s, [@ EXCEPT !.soft = TRUE])] = [job EXCEPT ![s] = Past(s, [job[s] EXCEPT !.soft = TRUE])]
  BY DEF TypeOK
<1>5. CASE StopApp(s)
  <2> DEFINE down == [app[a] EXCEPT !.doomed = app[a].here, !.box = Down]
             doomed == [app[a] EXCEPT !.doomed = app[a].here]
  <2>1. down \in Row /\ ~Stays(down) /\ doomed \in Row /\ ~Stays(doomed)
    BY <1>s DEF Row, Stays
  <2>2. CASE app' = [app EXCEPT ![a].doomed = app[a].here, ![a].box = Down] /\ Finish(s, x)
    <3>1. app' = [app EXCEPT ![a] = down]
      BY <1>s, <2>2 DEF TypeOK
    <3> HIDE DEF down
    <3> QED BY <2>1, <2>2, <3>1, <1>3
  <2>3. CASE /\ Fault /\ app' = [app EXCEPT ![a].doomed = app[a].here] /\ man' = man
             /\ job' = [job EXCEPT ![s] = Past(s, [@ EXCEPT !.soft = TRUE])]
    <3>1. app' = [app EXCEPT ![a] = doomed]
      BY <1>s, <2>3 DEF TypeOK
    <3> HIDE DEF doomed
    <3> QED BY <2>1, <2>3, <3>1, <1>1, <1>4, SoftFailure
  <2> QED BY <1>5, <2>2, <2>3 DEF StopApp
<1>6. CASE ReleaseVolume(s)
  <2>1. app' = [app EXCEPT ![a] = app[a]]
    BY <1>6, <1>s DEF ReleaseVolume
  <2>2. CASE Finish(s, x)
    BY <2>1, <2>2, <1>s, <1>3
  <2>3. CASE /\ Fault \/ UNCHANGED budget
             /\ job' = [job EXCEPT ![s] = Past(s, [@ EXCEPT !.soft = TRUE])] /\ man' = man
    BY <2>1, <2>3, <1>s, <1>1, <1>4, SoftFailure
  <2> QED BY <1>6, <2>2, <2>3 DEF ReleaseVolume
<1>7. CASE DeleteRows(s)
  <2> DEFINE gone == [Clear(app[a]) EXCEPT !.here = FALSE, !.doomed = FALSE]
  <2>1. gone \in Row /\ ~Stays(gone)
    <3>1. Clear(app[a]) \in Row
      BY <1>s, ClearIs
    <3>2. \A c \in Row : LET g == [c EXCEPT !.here = FALSE, !.doomed = FALSE] IN g \in Row /\ ~Stays(g)
      BY DEF Row, Stays
    <3> QED BY <3>1, <3>2
  <2>2. CASE app' = [app EXCEPT ![a] = [Clear(@) EXCEPT !.here = FALSE, !.doomed = FALSE]] /\ Finish(s, x)
    <3>1. app' = [app EXCEPT ![a] = gone]
      BY <1>s, <2>2 DEF TypeOK
    <3> HIDE DEF gone
    <3> QED BY <2>1, <2>2, <3>1, <1>3
  <2>3. CASE Throw(s) /\ UNCHANGED <<app, budget>>
    BY <2>3, <1>1, Refused
  <2> QED BY <1>7, <2>2, <2>3 DEF DeleteRows
<1> QED BY <1>5, <1>6, <1>7 DEF Destroying

(* What is undone, and what is owed then.                                  *)
LEMMA LessLeft ==
  ASSUME NEW x \in JobRow, NEW step \in StepName
  PROVE  /\ [x EXCEPT !.left = x.left \ {step}] \in JobRow
         /\ [x EXCEPT !.left = x.left \ {step}, !.owes = x.owes \cup {step}] \in JobRow
         /\ \A y \in {[x EXCEPT !.left = x.left \ {step}],
                      [x EXCEPT !.left = x.left \ {step}, !.owes = x.owes \cup {step}]} :
              y.st = x.st /\ SameJob(x, y) /\ y.vol = x.vol /\ y.old = x.old
BY DEF JobRow, SameJob

(* The invariant says less when fewer faults are left.                     *)
LEMMA FewerFaults ==
  ASSUME NEW a, NEW r, NEW m, NEW j, NEW n, NEW n2 \in 0 .. MaxFaults,
         Typed(r, m, j, n), n2 <= n, AppInv(a, r, m, j, n)
  PROVE  AppInv(a, r, m, j, n2)
<1>1. \A k \in Kind : Alike(j[k], j[k])
  BY DEF Alike
<1>2. Typed(r, m, j, n2)
  BY DEF Typed
<1> QED BY <1>1, <1>2, Superseded

(* A compensation that leaves the row of the app as r2, with its ends.     *)
LEMMA Compensates ==
  ASSUME TypeOK, VolInv, NEW s \in Slot, NEW r2 \in Row, NEW step \in StepName,
         job[s].st = "undoing", app' = [app EXCEPT ![s[1]] = r2],
         UndoSucceeds(s, step) \/ Undone(s, step) \/ UndoFails(s, step),
         \A x \in JobRow :
           x.st = "undoing" /\ SameJob(job[s], x) /\ x.vol = job[s].vol /\ x.old = job[s].old
           => AppInv(s[1], r2, man[s[1]], [Jobs(s[1]) EXCEPT ![s[2]] = x], budget.faults)
  PROVE  TypeOK' /\ VolInv'
<1> DEFINE a == s[1]
<1>s. /\ s[1] \in App /\ s[2] \in Kind /\ job[s] \in JobRow /\ app[s[1]] \in Row /\ Jobs(s[1])[s[2]] = job[s]
      /\ Typed(app[s[1]], man[s[1]], Jobs(s[1]), budget.faults)
      /\ AppInv(s[1], app[s[1]], man[s[1]], Jobs(s[1]), budget.faults)
      /\ app = [app EXCEPT ![s[1]] = app[s[1]]] /\ Within(s[2], job[s])
  BY Acting
<1>1. CASE Undone(s, step)
  <2> DEFINE x == [job[s] EXCEPT !.left = job[s].left \ {step}]
  <2>1. job' = [job EXCEPT ![s] = x] /\ man' = man /\ budget' = budget
    BY <1>1, <1>s DEF Undone, TypeOK
  <2>2. x \in JobRow /\ x.st = "undoing" /\ SameJob(job[s], x) /\ x.vol = job[s].vol /\ x.old = job[s].old
    BY <1>s, LessLeft
  <2> HIDE DEF x
  <2>3. AppInv(a, r2, man[a], [Jobs(a) EXCEPT ![s[2]] = x], budget'.faults)
    BY <2>1, <2>2
  <2> QED BY <2>1, <2>2, <2>3, Moves
<1>2. CASE Restart /\ UNCHANGED job
  <2>1. job' = [job EXCEPT ![s] = job[s]]
    BY <1>2 DEF TypeOK
  <2>2. SameJob(job[s], job[s])
    BY DEF SameJob
  <2>3. AppInv(a, r2, man[a], [Jobs(a) EXCEPT ![s[2]] = job[s]], budget.faults)
    BY <1>s, <2>2
  <2> QED BY <1>s, <1>2, <2>1, <2>3, MovesAndDies
<1>3. CASE UndoFails(s, step)
  <2> DEFINE x == [job[s] EXCEPT !.left = job[s].left \ {step}, !.owes = job[s].owes \cup {step}]
  <2>1. job' = [job EXCEPT ![s] = x] /\ man' = man /\ Fault
    BY <1>3, <1>s DEF UndoFails, TypeOK
  <2>2. x \in JobRow /\ x.st = "undoing" /\ SameJob(job[s], x) /\ x.vol = job[s].vol /\ x.old = job[s].old
    BY <1>s, LessLeft
  <2> HIDE DEF x
  <2>4. budget'.faults \in 0 .. MaxFaults /\ budget'.faults <= budget.faults
    BY <2>1, BoundAssumption DEF TypeOK, Fault
  <2>3. AppInv(a, r2, man[a], [Jobs(a) EXCEPT ![s[2]] = x], budget'.faults)
    <3>1. AppInv(a, r2, man[a], [Jobs(a) EXCEPT ![s[2]] = x], budget.faults)
      BY <2>2
    <3>2. [Jobs(a) EXCEPT ![s[2]] = x] \in [Kind -> JobRow] /\ budget.faults \in 0 .. MaxFaults
      BY <1>s, <2>2 DEF Typed
    <3>3. \A j \in [Kind -> JobRow] : AppInv(a, r2, man[a], j, budget.faults) => AppInv(a, r2, man[a], j, budget'.faults)
      BY <1>s, <2>4, <3>2, FewerFaults DEF Typed
    <3> QED BY <3>1, <3>2, <3>3
  <2> QED BY <2>1, <2>2, <2>3, Moves
<1> QED BY <1>1, <1>2, <1>3 DEF UndoSucceeds

(* The compensations that leave the row of the app alone.                  *)
LEMMA UndoOtherKeeps ==
  ASSUME TypeOK, VolInv, NEW s \in Slot, s[2] \in Taker, UndoCreate(s) \/ UndoAttach(s)
  PROVE  TypeOK' /\ VolInv'
<1> DEFINE a == s[1]
<1>s. /\ s[1] \in App /\ s[2] \in Kind /\ job[s] \in JobRow /\ app[s[1]] \in Row /\ Jobs(s[1])[s[2]] = job[s]
      /\ Typed(app[s[1]], man[s[1]], Jobs(s[1]), budget.faults)
      /\ AppInv(s[1], app[s[1]], man[s[1]], Jobs(s[1]), budget.faults)
      /\ app = [app EXCEPT ![s[1]] = app[s[1]]] /\ Within(s[2], job[s])
  BY Acting
<1>1. job[s].st = "undoing"
  BY DEF UndoCreate, UndoAttach, Undoing
<1>2. app' = [app EXCEPT ![a] = app[a]]
  BY <1>s DEF UndoCreate, UndoAttach, world
<1>3. ASSUME NEW x \in JobRow, x.st = "undoing", SameJob(job[s], x), x.vol = job[s].vol
      PROVE  AppInv(a, app[a], man[a], [Jobs(a) EXCEPT ![s[2]] = x], budget.faults)
  BY <1>s, <1>1, <1>3, UndoesOther
<1>4. ASSUME NEW step \in StepName, UndoSucceeds(s, step) \/ Undone(s, step) \/ UndoFails(s, step)
      PROVE  TypeOK' /\ VolInv'
  BY <1>s, <1>1, <1>2, <1>3, <1>4, Compensates
<1>5. "create" \in StepName /\ "attach" \in StepName
  BY DEF StepName
<1>6. CASE UndoCreate(s)
  <2>1. UndoSucceeds(s, "create") \/ Undone(s, "create") \/ UndoFails(s, "create")
    BY <1>6 DEF UndoCreate
  <2> QED BY <2>1, <1>4, <1>5
<1>7. CASE UndoAttach(s)
  <2>1. UndoSucceeds(s, "attach") \/ UndoFails(s, "attach")
    BY <1>7 DEF UndoAttach
  <2> QED BY <2>1, <1>4, <1>5
<1> QED BY <1>6, <1>7

LEMMA UndoRecordKeeps ==
  ASSUME TypeOK, VolInv, NEW s \in Slot, s[2] \in Taker, UndoRecord(s)
  PROVE  TypeOK' /\ VolInv'
<1> DEFINE a == s[1]
           cleared == [Clear(app[a]) EXCEPT !.cur = FALSE]
           bare == Recreated(cleared, Bare)
           lost == [cleared EXCEPT !.box = Down]
<1>s. /\ s[1] \in App /\ s[2] \in Kind /\ job[s] \in JobRow /\ app[s[1]] \in Row /\ Jobs(s[1])[s[2]] = job[s]
      /\ Typed(app[s[1]], man[s[1]], Jobs(s[1]), budget.faults)
      /\ AppInv(s[1], app[s[1]], man[s[1]], Jobs(s[1]), budget.faults)
      /\ app = [app EXCEPT ![s[1]] = app[s[1]]] /\ Within(s[2], job[s])
  BY Acting
<1>1. job[s].st = "undoing" /\ job[s].sup = FALSE
  BY <1>s DEF UndoRecord, Undoing, JobRow
<1>2. "record" \in StepName
  BY DEF StepName
<1>3. cleared \in Row /\ cleared.here = app[a].here /\ cleared.doomed = app[a].doomed /\ cleared.vol = None /\ cleared.path = None
  <2>1. Clear(app[a]) \in Row
    BY <1>s, ClearIs
  <2>2. \A c \in Row : LET d == [c EXCEPT !.cur = FALSE]
                       IN  d \in Row /\ d.here = c.here /\ d.doomed = c.doomed /\ d.vol = c.vol /\ d.path = c.path
    BY DEF Row
  <2> QED BY <1>s, <2>1, <2>2, ClearIs
<1> HIDE DEF cleared
<1>4. Bare \in [vol : Vol \cup {None}, path : Path \cup {None}]
  BY DEF Bare
<1>5. /\ bare \in Row /\ bare.here = app[a].here /\ bare.doomed = app[a].doomed /\ bare.vol = None /\ bare.path = None
      /\ lost \in Row /\ lost.here = app[a].here /\ lost.doomed = app[a].doomed /\ lost.vol = None /\ lost.path = None
  <2>1. bare \in Row /\ SameRow(cleared, bare)
    BY <1>3, <1>4, RecreatedIs
  <2>2. lost \in Row /\ SameRow(cleared, lost)
    BY <1>3 DEF Row, SameRow
  <2> HIDE DEF bare, lost
  <2> QED BY <1>3, <2>1, <2>2 DEF SameRow
<1> HIDE DEF bare, lost
<1>6. ASSUME NEW r2 \in {bare, lost}, app' = [app EXCEPT ![a] = r2], UndoSucceeds(s, "record") \/ UndoFails(s, "record")
      PROVE  TypeOK' /\ VolInv'
  <2>1. r2 \in Row /\ r2.here = app[a].here /\ r2.doomed = app[a].doomed /\ r2.vol = None /\ r2.path = None
    BY <1>5
  <2>2. ASSUME NEW x \in JobRow, x.st = "undoing", SameJob(job[s], x), x.vol = job[s].vol
        PROVE  AppInv(a, r2, man[a], [Jobs(a) EXCEPT ![s[2]] = x], budget.faults)
    <3>1. /\ Jobs(a)[s[2]].st = "undoing" /\ Jobs(a)[s[2]].sup = FALSE
          /\ SameJob(Jobs(a)[s[2]], x) /\ x.vol = Jobs(a)[s[2]].vol
      BY <1>s, <1>1, <2>2
    <3> HIDE DEF a
    <3> QED BY <1>s, <2>1, <2>2, <3>1, UnRecords DEF a
  <2> QED BY <1>1, <1>2, <1>6, <2>1, <2>2, Compensates
<1>7. CASE app' = [app EXCEPT ![a] = app[a]] /\ UndoSucceeds(s, "record")
  <2>1. ASSUME NEW x \in JobRow, x.st = "undoing", SameJob(job[s], x), x.vol = job[s].vol
        PROVE  AppInv(a, app[a], man[a], [Jobs(a) EXCEPT ![s[2]] = x], budget.faults)
    BY <1>s, <1>1, <2>1, UndoesOther
  <2> QED BY <1>s, <1>1, <1>2, <1>7, <2>1, Compensates
<1>8. \/ app' = [app EXCEPT ![a] = bare] /\ UndoSucceeds(s, "record")
      \/ app' = [app EXCEPT ![a] = app[a]] /\ UndoSucceeds(s, "record")
      \/ app' = [app EXCEPT ![a] = lost] /\ UndoFails(s, "record")
  BY <1>s DEF UndoRecord, TypeOK, cleared, bare, lost
<1> QED BY <1>6, <1>7, <1>8

LEMMA UndoMountKeeps ==
  ASSUME TypeOK, VolInv, NEW s \in Slot, s[2] = "remount", UndoMount(s)
  PROVE  TypeOK' /\ VolInv'
<1> DEFINE a == s[1]
           mount == [vol |-> job[s].vol, path |-> job[s].old]
           before == Mounted(app[a], job[s].old)
           back == Recreated(before, mount)
<1>s. /\ s[1] \in App /\ s[2] \in Kind /\ job[s] \in JobRow /\ app[s[1]] \in Row /\ Jobs(s[1])[s[2]] = job[s]
      /\ Typed(app[s[1]], man[s[1]], Jobs(s[1]), budget.faults)
      /\ AppInv(s[1], app[s[1]], man[s[1]], Jobs(s[1]), budget.faults)
      /\ app = [app EXCEPT ![s[1]] = app[s[1]]] /\ Within(s[2], job[s])
  BY Acting
<1>1. job[s].st = "undoing" /\ job[s].sup = FALSE
  BY <1>s DEF UndoMount, Undoing, JobRow
<1>2. "update" \in StepName
  BY DEF StepName
<1>3. /\ mount \in [vol : Vol \cup {None}, path : Path \cup {None}]
      /\ job[s].old \in Path \cup {None}
  BY <1>s DEF JobRow
<1>4. /\ before \in Row /\ before.here = app[a].here /\ before.doomed = app[a].doomed
      /\ before.vol = app[a].vol /\ before.path = job[s].old /\ before.adopted = app[a].adopted
  BY <1>s, <1>3, MountedIs
<1> HIDE DEF before, mount
<1>5. /\ back \in Row /\ back.here = app[a].here /\ back.doomed = app[a].doomed
      /\ back.vol = app[a].vol /\ back.path = job[s].old /\ back.adopted = app[a].adopted
  <2>1. back \in Row /\ SameRow(before, back)
    BY <1>3, <1>4, RecreatedIs
  <2> HIDE DEF back
  <2> QED BY <1>4, <2>1 DEF SameRow
<1> HIDE DEF back
<1>6. ASSUME NEW r2 \in {before, back}, app' = [app EXCEPT ![a] = r2], UndoSucceeds(s, "update") \/ UndoFails(s, "update")
      PROVE  TypeOK' /\ VolInv'
  <2>1. /\ r2 \in Row /\ r2.here = app[a].here /\ r2.doomed = app[a].doomed
        /\ r2.vol = app[a].vol /\ r2.path = job[s].old /\ r2.adopted = app[a].adopted
    BY <1>4, <1>5
  <2>2. ASSUME NEW x \in JobRow, x.st = "undoing", SameJob(job[s], x), x.vol = job[s].vol, x.old = job[s].old
        PROVE  AppInv(a, r2, man[a], [Jobs(a) EXCEPT ![s[2]] = x], budget.faults)
    <3> DEFINE j == Jobs(a)
    <3>1. /\ j["remount"].st = "undoing" /\ j["remount"].sup = FALSE /\ SameJob(j["remount"], x)
          /\ x.vol = j["remount"].vol /\ x.old = j["remount"].old /\ r2.path = j["remount"].old
      BY <1>s, <1>1, <2>1, <2>2
    <3>2. Typed(app[a], man[a], j, budget.faults) /\ AppInv(a, app[a], man[a], j, budget.faults)
      BY <1>s
    <3> HIDE DEF j
    <3>3. AppInv(a, r2, man[a], [j EXCEPT !["remount"] = x], budget.faults)
      BY <2>1, <2>2, <3>1, <3>2, UnMounts
    <3> QED BY <3>3 DEF j
  <2> QED BY <1>1, <1>2, <1>6, <2>1, <2>2, Compensates
<1>7. \/ app' = [app EXCEPT ![a] = back] /\ UndoSucceeds(s, "update")
      \/ app' = [app EXCEPT ![a] = before] /\ UndoFails(s, "update")
  BY DEF UndoMount, before, back, mount
<1> QED BY <1>6, <1>7

LEMMA UndoEndsKeeps ==
  ASSUME TypeOK, VolInv, NEW s \in Slot, UndoEnds(s)
  PROVE  TypeOK' /\ VolInv'
<1> DEFINE a == s[1]
           x == Ended("compensated")
           y == [job[s] EXCEPT !.st = "owing"]
<1>s. /\ s[1] \in App /\ s[2] \in Kind /\ job[s] \in JobRow /\ app[s[1]] \in Row /\ Jobs(s[1])[s[2]] = job[s]
      /\ Typed(app[s[1]], man[s[1]], Jobs(s[1]), budget.faults)
      /\ AppInv(s[1], app[s[1]], man[s[1]], Jobs(s[1]), budget.faults)
      /\ app = [app EXCEPT ![s[1]] = app[s[1]]] /\ Within(s[2], job[s])
  BY Acting
<1>1. job[s].st = "undoing" /\ UNCHANGED <<app, man, budget>> /\ Lives(Jobs(a)[s[2]])
  BY <1>s DEF UndoEnds, world, Lives
<1>2. app' = [app EXCEPT ![a] = app[a]] /\ budget.faults \in 0 .. MaxFaults /\ budget.faults <= budget.faults
  BY <1>s, <1>1 DEF Typed
<1>3. CASE job' = [job EXCEPT ![s] = x]
  <2>1. x \in JobRow /\ x.st = "compensated"
    BY EndedIs
  <2>2. SameRow(app[a], app[a])
    BY DEF SameRow
  <2> HIDE DEF x
  <2>3. AppInv(a, app[a], man[a], [Jobs(a) EXCEPT ![s[2]] = x], budget'.faults)
    BY <1>s, <1>1, <1>2, <2>1, <2>2, Ends
  <2> QED BY <1>s, <1>1, <1>2, <1>3, <2>1, <2>3, Moves
<1>4. CASE job' = [job EXCEPT ![s] = y] /\ job[s].left = {}
  <2>1. y \in JobRow /\ y.st = "owing" /\ SameJob(job[s], y) /\ y.vol = job[s].vol /\ y.old = job[s].old
    BY <1>s DEF JobRow, SameJob
  <2> HIDE DEF y
  <2>2. s[2] \in {"attach", "adopt", "remount"}
    BY <1>s, <1>1 DEF Within
  <2>3. AppInv(a, app[a], man[a], [Jobs(a) EXCEPT ![s[2]] = y], budget'.faults)
    BY <1>s, <1>1, <1>4, <2>1, <2>2, Owes
  <2> QED BY <1>s, <1>1, <1>2, <1>4, <2>1, <2>3, Moves
<1>5. job' = [job EXCEPT ![s] = x] \/ (job' = [job EXCEPT ![s] = y] /\ job[s].left = {})
  BY DEF UndoEnds, TypeOK
<1> QED BY <1>3, <1>4, <1>5

LEMMA UndoAgainKeeps ==
  ASSUME TypeOK, VolInv, NEW s \in Slot, UndoAgain(s)
  PROVE  TypeOK' /\ VolInv'
<1> DEFINE a == s[1]
           x == [job[s] EXCEPT !.st = "undoing", !.left = job[s].owes, !.owes = {}]
<1>s. /\ s[1] \in App /\ s[2] \in Kind /\ job[s] \in JobRow /\ app[s[1]] \in Row /\ Jobs(s[1])[s[2]] = job[s]
      /\ Typed(app[s[1]], man[s[1]], Jobs(s[1]), budget.faults)
      /\ AppInv(s[1], app[s[1]], man[s[1]], Jobs(s[1]), budget.faults)
      /\ app = [app EXCEPT ![s[1]] = app[s[1]]] /\ Within(s[2], job[s])
  BY Acting
<1>1. job[s].st = "owing" /\ Unlocked(job[s].lock) /\ UNCHANGED <<app, man, budget>> /\ job' = [job EXCEPT ![s] = x]
  BY <1>s DEF UndoAgain, world, TypeOK
<1>2. app' = [app EXCEPT ![a] = app[a]]
  BY <1>s, <1>1
<1>3. s[2] \in {"attach", "adopt", "remount"} /\ s[2] \in Keyed
  BY <1>s, <1>1 DEF Within, Keyed, Kind
<1>4. a \in job[s].lock
  BY <1>s, <1>1, <1>3 DEF AppInv, Keys, Lives
<1>5. \A l \in Keyed : ~Works(Jobs(a)[l])
  BY <1>s, <1>1, <1>4, NobodyWorks
<1>6. x \in JobRow /\ x.st = "undoing" /\ SameJob(job[s], x) /\ x.vol = job[s].vol /\ x.old = job[s].old
  BY <1>s DEF JobRow, SameJob
<1> HIDE DEF x
<1>7. AppInv(a, app[a], man[a], [Jobs(a) EXCEPT ![s[2]] = x], budget'.faults)
  BY <1>s, <1>1, <1>3, <1>5, <1>6, UndoesAgain
<1> QED BY <1>s, <1>1, <1>2, <1>6, <1>7, Moves

(* Whatever an operation does.                                             *)
LEMMA OperationKeeps ==
  ASSUME TypeOK, VolInv, NEW s \in Slot, Run(s) \/ Operation(s)
  PROVE  TypeOK' /\ VolInv'
<1>1. CASE Run(s)
  BY <1>1, BeginKeeps, RefusalsKeep, UndoEndsKeeps, UndoAgainKeeps DEF Run
<1>2. CASE s[2] = "attach" /\ Attaching(s)
  BY <1>2, CreateVolumeKeeps, RefusalsKeep, RecordVolumeKeeps, RecreateContainerKeeps, RecreateFailsKeeps,
     UndoOtherKeeps, UndoRecordKeeps DEF Attaching, Taker
<1>3. CASE s[2] = "adopt" /\ Adopting(s)
  BY <1>3, AttachVolumeKeeps, RefusalsKeep, RecordVolumeKeeps, RecreateContainerKeeps, RecreateFailsKeeps,
     UndoOtherKeeps, UndoRecordKeeps DEF Adopting, Taker
<1>4. CASE Detaching(s)
  BY <1>4, DetachVolumeKeeps, RefusalsKeep, ClearAppVolumeKeeps, RecreateBareKeeps DEF Detaching
<1>5. CASE Resizing(s)
  BY <1>5, ResizeVolumeKeeps, RefusalsKeep DEF Resizing
<1>6. CASE s[2] = "remount" /\ Remounting(s)
  BY <1>6, ValidateMountKeeps, RefusalsKeep, UpdateMountKeeps, RecreateContainerKeeps, RecreateFailsKeeps,
     UndoMountKeeps DEF Remounting
<1>7. CASE Destroying(s)
  BY <1>7, DestroyingKeeps
<1> QED BY <1>1, <1>2, <1>3, <1>4, <1>5, <1>6, <1>7 DEF Operation

(***************************************************************************)
(* The actions of the manifests, of destructions and of deletions          *)
(***************************************************************************)
(* Nothing that the invariant is about has changed.                        *)
LEMMA Stands ==
  ASSUME TypeOK, VolInv, UNCHANGED <<app, man, job>>,
         budget' \in [faults : 0 .. MaxFaults, edits : Nat], budget'.faults <= budget.faults
  PROVE  TypeOK' /\ VolInv'
<1>1. TypeOK'
  BY DEF TypeOK
<1>2. ASSUME NEW a \in App PROVE AppInv(a, app[a], man[a], Jobs(a), budget.faults)'
  <2>1. Typed(app[a], man[a], Jobs(a), budget.faults) /\ AppInv(a, app[a], man[a], Jobs(a), budget.faults)
    BY OfApp DEF VolInv
  <2>2. budget'.faults \in 0 .. MaxFaults
    OBVIOUS
  <2>3. AppInv(a, app[a], man[a], Jobs(a), budget'.faults)
    BY <2>1, <2>2, FewerFaults
  <2> QED BY <2>3 DEF Jobs
<1> QED BY <1>1, <1>2 DEF VolInv

LEMMA CrashKeeps ==
  ASSUME TypeOK, VolInv, Crash
  PROVE  TypeOK' /\ VolInv'
<1>b. /\ budget'.faults \in 0 .. MaxFaults /\ budget'.faults < budget.faults
      /\ budget' \in [faults : 0 .. MaxFaults, edits : Nat]
      /\ man' \in [App -> ManRow]
      /\ \A b \in App :
           /\ man'[b] = IF man[b].st = "active" THEN [man[b] EXCEPT !.at = 1, !.waits = None] ELSE man[b]
           /\ man'[b].st = man[b].st /\ man'[b].want = man[b].want /\ man'[b].mode = man[b].mode
           /\ man[b].st = "active" => man'[b].at = 1
  BY Restarting DEF Crash
<1>u. app' = app /\ job' = job
  BY DEF Crash, world
<1>1. TypeOK'
  <2>1. app' \in [App -> Row] /\ job' \in [Slot -> JobRow]
    BY <1>u DEF TypeOK
  <2>2. ASSUME NEW b \in App, man'[b].st = "active"
        PROVE  man'[b].want \in Want /\ man'[b].mode \in Modes /\ man'[b].at > 0
    <3>1. /\ man[b].st = "active" /\ man'[b].want = man[b].want /\ man'[b].mode = man[b].mode
          /\ man'[b].at = 1
      BY <2>2, <1>b
    <3>2. man[b].want \in Want /\ man[b].mode \in Modes
      BY <3>1 DEF TypeOK
    <3> QED BY <3>1, <3>2
  <2> QED BY <2>1, <2>2, <1>b DEF TypeOK
<1>2. ASSUME NEW a \in App PROVE AppInv(a, app[a], man[a], Jobs(a), budget.faults)'
  <2>1. Typed(app[a], man[a], Jobs(a), budget.faults) /\ AppInv(a, app[a], man[a], Jobs(a), budget.faults)
    BY OfApp DEF VolInv
  <2>2. Typed(app[a], man'[a], Jobs(a), budget'.faults)
    BY <2>1, <1>b DEF Typed, Active
  <2>3. AppInv(a, app[a], man'[a], Jobs(a), budget'.faults)
    BY <2>1, <2>2, <1>b, Restarted
  <2>4. Jobs(a)' = Jobs(a)
    BY <1>u DEF Jobs
  <2> QED BY <2>3, <2>4, <1>u
<1> QED BY <1>1, <1>2 DEF VolInv

LEMMA DeletionKeeps ==
  ASSUME TypeOK, VolInv, Deletion
  PROVE  TypeOK' /\ VolInv'
<1>1. UNCHANGED <<app, man, job>>
  BY DEF Deletion, Expire, SweepVolume, DeleteRetained, InspectVolume, DeleteVolume, DeleteFails, world
<1>2. budget' = budget \/ Requested \/ Fault
  BY DEF Deletion, Expire, SweepVolume, DeleteRetained, InspectVolume, DeleteVolume, DeleteFails
<1>3. budget' \in [faults : 0 .. MaxFaults, edits : Nat] /\ budget'.faults <= budget.faults
  BY <1>2, BoundAssumption DEF TypeOK, Requested, Fault
<1> QED BY <1>1, <1>3, Stands

(* A claim supersedes, and does nothing else.                              *)
LEMMA ClaimIs ==
  ASSUME TypeOK, NEW keys, NEW rows \in [Slot -> JobRow]
  PROVE  /\ Claim(keys, rows) \in [Slot -> JobRow]
         /\ \A s \in Slot :
              /\ Alike(rows[s], Claim(keys, rows)[s])
              /\ ~Live(s) => Claim(keys, rows)[s] = rows[s]
              /\ \A a \in keys \cap App : Live(s) /\ a \in job[s].lock => Claim(keys, rows)[s].sup = TRUE
<1>1. ASSUME NEW s \in Slot
      PROVE  LET y == IF Live(s) /\ Contests(keys, job[s].lock) THEN [rows[s] EXCEPT !.sup = TRUE] ELSE rows[s]
             IN  y \in JobRow /\ Alike(rows[s], y) /\ (Live(s) /\ Contests(keys, job[s].lock) => y.sup = TRUE)
  <2>1. rows[s] \in JobRow
    OBVIOUS
  <2>2. [rows[s] EXCEPT !.sup = TRUE] \in JobRow /\ Alike(rows[s], [rows[s] EXCEPT !.sup = TRUE])
        /\ [rows[s] EXCEPT !.sup = TRUE].sup = TRUE /\ Alike(rows[s], rows[s])
    BY <2>1 DEF JobRow, Alike
  <2> QED BY <2>1, <2>2
<1>2. ASSUME NEW s \in Slot, NEW a \in keys \cap App, a \in job[s].lock PROVE Contests(keys, job[s].lock)
  BY <1>2 DEF Contests
<1> QED BY <1>1, <1>2 DEF Claim

(* The operations of an app after a claim on its key.                      *)
LEMMA Claimed ==
  ASSUME TypeOK, VolInv, NEW a \in App, NEW keys, NEW rows \in [Slot -> JobRow], a \in keys
  PROVE  \A k \in Keyed : Lives(job[<<a, k>>]) => Claim(keys, rows)[<<a, k>>].sup = TRUE
<1> SUFFICES ASSUME NEW k \in Keyed, Lives(job[<<a, k>>])
             PROVE  Claim(keys, rows)[<<a, k>>].sup = TRUE
  OBVIOUS
<1>1. k \in Kind /\ <<a, k>> \in Slot /\ Jobs(a)[k] = job[<<a, k>>]
  BY Kinds, OfApp
<1>2. a \in job[<<a, k>>].lock
  BY <1>1 DEF VolInv, AppInv, Keys
<1>3. Live(<<a, k>>)
  BY DEF Live, Lives
<1> QED BY <1>1, <1>2, <1>3, ClaimIs

(* What the phases of the reconcile step need.                             *)
LEMMA NeededIs ==
  ASSUME NEW a
  PROVE  /\ Len(Phase) = 6
         /\ Needed(a, 1) = IF man[a].mode = "candidate" THEN "redeploy" ELSE "nothing"
         /\ Needed(a, 2) = IF app[a].vol # None /\ (man[a].want.vol = None \/ Wrong(app[a], man[a]))
                           THEN "detach" ELSE "nothing"
         /\ Needed(a, 3) = IF man[a].want.vol # None /\ app[a].vol = None THEN Takes(man[a]) ELSE "nothing"
         /\ Needed(a, 4) = IF man[a].want.vol # None /\ app[a].vol # None THEN "resize" ELSE "nothing"
         /\ Needed(a, 5) = IF man[a].at = 5 /\ app[a].path # man[a].want.path THEN "remount" ELSE "nothing"
         /\ Needed(a, 6) = IF man[a].mode = "config" THEN "reload" ELSE "nothing"
<1>1. /\ Phase[1] = "candidate" /\ Phase[2] = "detach" /\ Phase[3] = "take"
      /\ Phase[4] = "resize" /\ Phase[5] = "remount" /\ Phase[6] = "reload"
  BY DEF Phase
<1>0. Len(Phase) = 6
  BY DEF Phase
<1>2. Needed(a, 1) = IF man[a].mode = "candidate" THEN "redeploy" ELSE "nothing"
  BY <1>1 DEF Needed
<1>3. Needed(a, 2) = IF app[a].vol # None /\ (man[a].want.vol = None \/ WrongVolume(a))
                     THEN "detach" ELSE "nothing"
  BY <1>1 DEF Needed
<1>4. Needed(a, 3) = IF man[a].want.vol # None /\ app[a].vol = None THEN Takes(man[a]) ELSE "nothing"
  BY <1>1 DEF Needed, Takes
<1>5. Needed(a, 4) = IF man[a].want.vol # None /\ app[a].vol # None THEN "resize" ELSE "nothing"
  BY <1>1 DEF Needed
<1>6. Needed(a, 5) = IF man[a].at = 5 /\ app[a].path # man[a].want.path THEN "remount" ELSE "nothing"
  BY <1>1 DEF Needed
<1>7. Needed(a, 6) = IF man[a].mode = "config" THEN "reload" ELSE "nothing"
  BY <1>1 DEF Needed
<1> QED BY <1>0, <1>2, <1>3, <1>4, <1>5, <1>6, <1>7 DEF Wrong, WrongVolume

(* An action of the manifest, or of the destruction, of app a.             *)
LEMMA ActsOn ==
  ASSUME TypeOK, VolInv, NEW a \in App, NEW r2 \in Row, NEW m2 \in ManRow,
         app' = [app EXCEPT ![a] = r2], man' = [man EXCEPT ![a] = m2], job' \in [Slot -> JobRow],
         m2.st = "active" => m2.want \in Want /\ m2.mode \in Modes /\ m2.at > 0,
         \A b \in App \ {a} : \A k \in Kind : Alike(job[<<b, k>>], job'[<<b, k>>]),
         budget' \in [faults : 0 .. MaxFaults, edits : Nat], budget'.faults <= budget.faults,
         AppInv(a, r2, m2, Jobs(a)', budget'.faults)
  PROVE  TypeOK' /\ VolInv'
<1>1. TypeOK'
  <2>1. app' \in [App -> Row] /\ man' \in [App -> ManRow]
    BY DEF TypeOK
  <2>2. ASSUME NEW b \in App, man'[b].st = "active"
        PROVE  man'[b].want \in Want /\ man'[b].mode \in Modes /\ man'[b].at > 0
    <3>1. CASE b = a
      BY <2>2, <3>1 DEF TypeOK
    <3>2. CASE b # a
      BY <2>2, <3>2 DEF TypeOK
    <3> QED BY <3>1, <3>2
  <2> QED BY <2>1, <2>2 DEF TypeOK
<1>2. app'[a] = r2 /\ man'[a] = m2 /\ \A b \in App \ {a} : app'[b] = app[b] /\ man'[b] = man[b]
  BY DEF TypeOK
<1>3. AppInv(a, app[a], man[a], Jobs(a), budget.faults)'
  BY <1>2
<1> QED BY <1>1, <1>2, <1>3, Elsewhere

(* The row of a manifest that has ended.                                   *)
LEMMA EndedManifest ==
  ASSUME TypeOK, VolInv, NEW a \in App, NEW st \in {"done", "failed"}, EndManifest(a, st),
         UNCHANGED <<app, job>>, budget' = budget \/ Fault,
         \A k \in Kind \ {"destroy"} : budget.faults = MaxFaults => ~Lives(Jobs(a)[k]),
         Stays(app[a]) => /\ \A k \in Taker : ~Unrecorded(app[a], Jobs(a)[k])
                          /\ ~Uncleared(app[a], Jobs(a)["detach"])
  PROVE  TypeOK' /\ VolInv'
<1> DEFINE m2 == [NoManifest EXCEPT !.st = st]
<1>1. Typed(app[a], man[a], Jobs(a), budget.faults) /\ AppInv(a, app[a], man[a], Jobs(a), budget.faults)
  BY OfApp DEF VolInv
<1>2. budget' \in [faults : 0 .. MaxFaults, edits : Nat] /\ budget'.faults <= budget.faults /\ budget'.faults \in 0 .. MaxFaults
  BY BoundAssumption DEF TypeOK, Fault
<1>3. m2 \in ManRow /\ ~Active(m2) /\ m2.st # "active"
  BY DEF ManRow, NoManifest, Active
<1>4. man' = [man EXCEPT ![a] = m2]
  BY DEF EndManifest
<1> HIDE DEF m2
<1>5. AppInv(a, app[a], m2, Jobs(a), budget'.faults)
  BY <1>1, <1>2, <1>3, ManifestEnds
<1>6. app' = [app EXCEPT ![a] = app[a]] /\ app[a] \in Row /\ job' \in [Slot -> JobRow] /\ Jobs(a)' = Jobs(a)
  BY DEF TypeOK, Jobs
<1>7. \A b \in App \ {a} : \A k \in Kind : Alike(job[<<b, k>>], job'[<<b, k>>])
  BY DEF Alike
<1>8. AppInv(a, app[a], m2, Jobs(a)', budget'.faults)
  BY <1>5, <1>6
<1> QED BY <1>2, <1>3, <1>4, <1>6, <1>7, <1>8, ActsOn

(* While a manifest waits for nothing and nothing has failed, no operation *)
(* of the app is under way.                                                *)
LEMMA NothingLives ==
  ASSUME TypeOK, VolInv, NEW a \in App, man[a].waits = None \/ ~Lives(Jobs(a)[man[a].waits])
  PROVE  \A k \in Kind \ {"destroy"} : budget.faults = MaxFaults => ~Lives(Jobs(a)[k])
<1>1. \A k \in Kind : k # None
  BY NamesAssumption
<1>2. CalmKids(man[a], Jobs(a), budget.faults)
  BY DEF VolInv, AppInv
<1> QED BY <1>1, <1>2 DEF CalmKids

LEMMA AppVanishedKeeps ==
  ASSUME TypeOK, VolInv, NEW a \in App, AppVanished(a)
  PROVE  TypeOK' /\ VolInv'
<1>1. ~Stays(app[a]) /\ man[a].waits = None
  BY DEF AppVanished, Reconciles, Stays
<1>2. EndManifest(a, "failed") /\ UNCHANGED <<app, job>> /\ budget' = budget
  BY DEF AppVanished, world
<1> QED BY <1>1, <1>2, NothingLives, EndedManifest

LEMMA AwaitChildKeeps ==
  ASSUME TypeOK, VolInv, NEW a \in App, AwaitChild(a)
  PROVE  TypeOK' /\ VolInv'
<1> DEFINE k == man[a].waits
<1>1. /\ Active(man[a]) /\ k \in Kind /\ k # None /\ UNCHANGED <<app, job, budget>>
      /\ Jobs(a)[k] = job[<<a, k>>] /\ ~Lives(Jobs(a)[k])
  <2>1. k \in Kind
    BY DEF AwaitChild, TypeOK, ManRow
  <2> QED BY <2>1, OfApp DEF AwaitChild, Active, world, Live, Lives
<1>2. /\ Typed(app[a], man[a], Jobs(a), budget.faults) /\ AppInv(a, app[a], man[a], Jobs(a), budget.faults)
      /\ man[a] \in ManRow /\ app[a] \in Row
  BY OfApp DEF VolInv, TypeOK
<1>3. CASE Jobs(a)[k].st = "done"
  <2> DEFINE m2 == [man[a] EXCEPT !.at = man[a].at + 1, !.waits = None]
  <2>1. man' = [man EXCEPT ![a] = m2]
    BY <1>1, <1>3 DEF AwaitChild, TypeOK
  <2>2. /\ m2 \in ManRow /\ SameMan(man[a], m2) /\ m2.kids = man[a].kids /\ m2.waits = None
        /\ m2.at = man[a].at + 1 /\ m2.at > 0
    <3>1. man[a].at + 1 \in Nat /\ man[a].at + 1 > 0
      BY <1>2 DEF ManRow
    <3>2. m2 \in ManRow
      BY <1>2, <3>1 DEF ManRow
    <3>3. SameMan(man[a], m2) /\ m2.kids = man[a].kids /\ m2.waits = None /\ m2.at = man[a].at + 1
      BY <1>2 DEF ManRow, SameMan
    <3> QED BY <3>1, <3>2, <3>3
  <2> HIDE DEF m2
  <2>3. AppInv(a, app[a], m2, Jobs(a), budget.faults)
    BY <1>1, <1>2, <1>3, <2>2, Awaited
  <2>4. m2.want \in Want /\ m2.mode \in Modes
    BY <1>1, <2>2 DEF TypeOK, SameMan, Active
  <2>5. app' = [app EXCEPT ![a] = app[a]] /\ job' \in [Slot -> JobRow] /\ Jobs(a)' = Jobs(a)
    BY <1>1 DEF TypeOK, Jobs
  <2>6. \A b \in App \ {a} : \A l \in Kind : Alike(job[<<b, l>>], job'[<<b, l>>])
    BY <1>1 DEF Alike
  <2>7. budget' \in [faults : 0 .. MaxFaults, edits : Nat] /\ budget'.faults <= budget.faults
    BY <1>1, BoundAssumption DEF TypeOK
  <2>8. AppInv(a, app[a], m2, Jobs(a)', budget'.faults)
    BY <1>1, <2>3, <2>5
  <2> QED BY <1>2, <2>1, <2>2, <2>4, <2>5, <2>6, <2>7, <2>8, ActsOn
<1>4. CASE Jobs(a)[k].st # "done"
  <2>1. EndManifest(a, "failed")
    BY <1>1, <1>4 DEF AwaitChild
  <2>2. ASSUME Stays(app[a])
        PROVE  /\ \A l \in Taker : ~Unrecorded(app[a], Jobs(a)[l])
               /\ ~Uncleared(app[a], Jobs(a)["detach"])
    <3>1. Taking(app[a], man[a], Jobs(a)) /\ Detached(app[a], man[a], Jobs(a)["detach"])
      BY <1>2, <2>2 DEF AppInv, Whole
    <3>2. \A l \in Kind : Unrecorded(app[a], Jobs(a)[l]) \/ Uncleared(app[a], Jobs(a)[l]) => Lives(Jobs(a)[l])
      BY DEF Unrecorded, Uncleared, In, Lives
    <3> QED BY <1>1, <3>1, <3>2, Kinds DEF Taking, Detached
  <2> QED BY <1>1, <2>1, <2>2, NothingLives, EndedManifest
<1> QED BY <1>3, <1>4

(* When no phase before the reload needs anything, the row of the app is   *)
(* as it was asked for.                                                    *)
LEMMA NothingNeeded ==
  ASSUME TypeOK, VolInv, NEW a \in App, Reconciles(a), Stays(app[a]), man[a].at <= 6,
         \A i \in 1 .. 5 : man[a].at <= i => Needed(a, i) = "nothing"
  PROVE  AsAsked(app[a], man[a])
<1> DEFINE r == app[a]
           m == man[a]
<1>1. Active(m) /\ m.waits = None /\ m.at \in Nat
  BY DEF Reconciles, Active, TypeOK, ManRow
<1>2. Whole(r, m, Jobs(a), budget.faults)
  BY DEF VolInv, AppInv
<1>3. m.at \in 1 .. 6 /\ (m.want.vol = None <=> m.want.path = None)
  BY <1>1, <1>2 DEF Whole, Phases
<1>4. Right(r, m)
  <2>1. CASE m.at >= 3
    BY <1>1, <1>2, <2>1 DEF Whole, Settled
  <2>2. CASE m.at <= 2
    <3>1. Needed(a, 2) = "nothing"
      BY <2>2
    <3>2. ~(r.vol # None /\ (m.want.vol = None \/ Wrong(r, m)))
      BY <3>1, NeededIs
    <3> QED BY <3>2 DEF Right
  <2> QED BY <1>3, <2>1, <2>2
<1>5. CASE m.want.vol = None
  BY <1>4, <1>5 DEF AsAsked, Right
<1>6. CASE m.want.vol # None
  <2>1. CASE m.at = 6
    BY <1>1, <1>2, <1>6, <2>1 DEF Whole, Phases, Remounts, AsAsked
  <2>2. CASE m.at = 5
    <3>1. r.path = m.want.path
      BY <2>2, NeededIs
    <3>2. r.vol # None
      BY <1>2, <1>3, <1>6, <3>1 DEF Whole, Rows
    <3> QED BY <1>4, <1>6, <3>1, <3>2 DEF AsAsked, Wanted, Right
  <2>3. CASE m.at <= 4
    <3>1. r.vol = None
      <4>1. Needed(a, 4) = "nothing"
        BY <2>3
      <4> QED BY <4>1, <1>6, NeededIs
    <3>2. CASE m.at = 4
      BY <1>1, <1>2, <1>6, <3>1, <3>2, Kinds DEF Whole, Phases, Taking, Takes
    <3>3. CASE m.at <= 3
      <4>1. Needed(a, 3) = "nothing"
        BY <3>3
      <4>2. Needed(a, 3) = Takes(m)
        BY <1>6, <3>1, NeededIs
      <4> QED BY <4>1, <4>2 DEF Takes
    <3> QED BY <1>3, <2>3, <3>2, <3>3
  <2> QED BY <1>3, <2>1, <2>2, <2>3
<1> QED BY <1>5, <1>6

(* A row that is as it was asked for leaves an active manifest nothing to  *)
(* look after.                                                             *)
LEMMA NothingOpen ==
  ASSUME NEW r, NEW m, NEW j, NEW n, Whole(r, m, j, n), Active(m), AsAsked(r, m) \/ m.at > 3, m.at \in Nat
  PROVE  (\A k \in Taker : ~Unrecorded(r, j[k])) /\ ~Uncleared(r, j["detach"])
<1>1. ASSUME NEW k \in Taker, Unrecorded(r, j[k]) PROVE FALSE
  <2>1. r.vol = None /\ m.at <= 3 /\ k \in m.kids
    BY <1>1 DEF Whole, Taking
  <2>2. m.want.vol # None
    BY <2>1, Kinds DEF Whole, Phases
  <2> QED BY <2>1, <2>2 DEF AsAsked, Wanted
<1>2. ASSUME Uncleared(r, j["detach"]) PROVE FALSE
  <2>1. ~Right(r, m) /\ m.at <= 2
    BY <1>2 DEF Whole, Detached
  <2> QED BY <2>1 DEF AsAsked, Wanted, Right
<1> QED BY <1>1, <1>2

LEMMA ManifestDoneKeeps ==
  ASSUME TypeOK, VolInv, NEW a \in App, ManifestDone(a)
  PROVE  TypeOK' /\ VolInv'
<1>1. /\ Reconciles(a) /\ Active(man[a]) /\ man[a].waits = None /\ EndManifest(a, "done")
      /\ UNCHANGED <<app, job>> /\ budget' = budget /\ Work(a) = {}
  BY DEF ManifestDone, Reconciles, Active, world
<1>2. man[a].at \in Nat
  BY DEF TypeOK, ManRow
<1>3. ASSUME NEW i \in 1 .. 6, man[a].at <= i PROVE Needed(a, i) = "nothing"
  <2>1. Len(Phase) = 6
    BY NeededIs
  <2>2. i \in man[a].at .. Len(Phase)
    BY <1>2, <1>3, <2>1
  <2> QED BY <1>1, <2>2 DEF Work
<1>4. ASSUME Stays(app[a])
      PROVE  /\ \A k \in Taker : ~Unrecorded(app[a], Jobs(a)[k])
             /\ ~Uncleared(app[a], Jobs(a)["detach"])
  <2>1. Whole(app[a], man[a], Jobs(a), budget.faults)
    BY <1>4 DEF VolInv, AppInv
  <2>2. AsAsked(app[a], man[a]) \/ man[a].at > 3
    BY <1>1, <1>2, <1>3, <1>4, NothingNeeded
  <2> QED BY <1>1, <1>2, <2>1, <2>2, NothingOpen
<1> QED BY <1>1, <1>4, NothingLives, EndedManifest

LEMMA ApplyManifestKeeps ==
  ASSUME TypeOK, VolInv, NEW a \in App, NEW mode \in Modes, NEW w \in Wish, ApplyManifest(a, mode, w)
  PROVE  TypeOK' /\ VolInv'
<1> DEFINE m2 == [NoManifest EXCEPT !.st = "active", !.at = 1, !.mode = mode, !.want = w]
           r2 == [app[a] EXCEPT !.cur = (app[a].cur /\ mode = "candidate")]
           rows == [s \in Slot |-> IF s[1] = a /\ s[2] # "detach" /\ ~Live(s) THEN NoJob ELSE job[s]]
           j2 == Jobs(a)'
<1>w. w \in Want /\ (w.vol = None <=> w.path = None)
  <2>1. \A v \in Vol : v # None
    BY NamesAssumption
  <2>2. \A p \in Path : p # None
    BY NamesAssumption
  <2>3. New # None
    BY NamesAssumption
  <2>4. CASE w = [vol |-> None, path |-> None]
    BY <2>4 DEF Want
  <2>5. CASE w \in [vol : {New} \cup {v \in Vol : place[v] # "unborn"}, path : Path]
    BY <2>1, <2>2, <2>3, <2>5 DEF Want
  <2> QED BY <2>4, <2>5 DEF Wish
<1>m. /\ m2 \in ManRow /\ Active(m2) /\ m2.st = "active" /\ m2.at = 1 /\ m2.at > 0 /\ m2.mode = mode /\ m2.want = w
      /\ m2.kids = {} /\ m2.waits = None
  <2>1. NoManifest \in ManRow /\ NoManifest.kids = {} /\ NoManifest.waits = None
    BY DEF ManRow, NoManifest
  <2>2. \A x \in ManRow : LET y == [x EXCEPT !.st = "active", !.at = 1, !.mode = mode, !.want = w]
                          IN  /\ y \in ManRow /\ y.st = "active" /\ y.at = 1 /\ y.mode = mode /\ y.want = w
                              /\ y.kids = x.kids /\ y.waits = x.waits
    BY <1>w DEF ManRow
  <2>3. /\ m2 \in ManRow /\ m2.st = "active" /\ m2.at = 1 /\ m2.mode = mode /\ m2.want = w
        /\ m2.kids = {} /\ m2.waits = None
    BY <2>1, <2>2
  <2> HIDE DEF m2
  <2> QED BY <2>3 DEF Active
<1>r. r2 \in Row /\ SameRow(app[a], r2) /\ (mode = "config" => r2.cur = FALSE)
  BY DEF Row, SameRow, TypeOK
<1>n. NoJob \in JobRow /\ ~Lives(NoJob)
  BY DEF NoJob, JobRow, Lives
<1>j. rows \in [Slot -> JobRow]
  BY <1>n DEF TypeOK
<1>b. /\ budget' \in [faults : 0 .. MaxFaults, edits : Nat] /\ budget'.faults = budget.faults
      /\ budget'.faults <= budget.faults
  BY BoundAssumption DEF ApplyManifest, Requested, TypeOK
<1>1. /\ man' = [man EXCEPT ![a] = m2] /\ app' = [app EXCEPT ![a] = r2] /\ job' = Claim({a}, rows)
      /\ ~Active(man[a])
  BY DEF ApplyManifest, Active, TypeOK
<1>2. Typed(app[a], man[a], Jobs(a), budget.faults) /\ AppInv(a, app[a], man[a], Jobs(a), budget.faults)
  BY OfApp DEF VolInv
<1>3. /\ job' \in [Slot -> JobRow]
      /\ \A s \in Slot : Alike(rows[s], job'[s]) /\ (~Live(s) => job'[s] = rows[s])
      /\ \A k \in Keyed : Lives(job[<<a, k>>]) => job'[<<a, k>>].sup = TRUE
  <2> HIDE DEF rows
  <2> QED BY <1>1, <1>j, ClaimIs, Claimed
<1>4. \A b \in App \ {a} : \A k \in Kind : Alike(job[<<b, k>>], job'[<<b, k>>])
  <2> SUFFICES ASSUME NEW b \in App \ {a}, NEW k \in Kind PROVE Alike(job[<<b, k>>], job'[<<b, k>>])
    OBVIOUS
  <2>1. <<b, k>> \in Slot /\ rows[<<b, k>>] = job[<<b, k>>]
    BY DEF Slot
  <2> QED BY <2>1, <1>3
<1>5. ASSUME NEW k \in Kind
      PROVE  /\ Jobs(a)[k] = job[<<a, k>>] /\ j2[k] = job'[<<a, k>>]
             /\ Lives(Jobs(a)[k]) => Alike(Jobs(a)[k], j2[k]) /\ (k \in Keyed => j2[k].sup = TRUE)
             /\ ~Lives(Jobs(a)[k]) => ~Lives(j2[k])
  <2>1. <<a, k>> \in Slot /\ Jobs(a)[k] = job[<<a, k>>] /\ j2[k] = job'[<<a, k>>]
    BY DEF Slot, Jobs
  <2>2. Live(<<a, k>>) <=> Lives(Jobs(a)[k])
    BY <2>1 DEF Live, Lives
  <2>3. /\ Live(<<a, k>>) => rows[<<a, k>>] = job[<<a, k>>]
        /\ ~Live(<<a, k>>) => rows[<<a, k>>] = job[<<a, k>>] \/ rows[<<a, k>>] = NoJob
    BY <2>1
  <2> HIDE DEF rows, j2
  <2> QED BY <2>1, <2>2, <2>3, <1>3, <1>n
<1>6. j2 \in [Kind -> JobRow]
  BY <1>3 DEF Jobs, Slot
<1> HIDE DEF m2, r2, rows, j2
<1>7. AppInv(a, r2, m2, j2, budget.faults)
  BY <1>1, <1>2, <1>5, <1>6, <1>m, <1>r, <1>w, Applies
<1>8. AppInv(a, r2, m2, Jobs(a)', budget'.faults)
  BY <1>7, <1>b DEF j2
<1> QED BY <1>1, <1>3, <1>4, <1>8, <1>b, <1>m, <1>r, <1>w, ActsOn

(* An operation that is put in line supersedes what has its keys.          *)
LEMMA EnqueueIs ==
  ASSUME TypeOK, VolInv, NEW a \in App, NEW k \in Kind, NEW v \in Vol \cup {None}, NEW p \in Path \cup {None},
         Enqueue(a, k, v, p), ~Live(<<a, k>>), k = "resize" => v # None
  PROVE  \E x \in JobRow, jc \in [Kind -> JobRow] :
           /\ x.st = "pending" /\ x.sup = FALSE /\ x.path = p /\ x.vol = v /\ (k # "resize" => a \in x.lock)
           /\ Jobs(a)' = [jc EXCEPT ![k] = x] /\ job' \in [Slot -> JobRow]
           /\ \A l \in Kind : Alike(Jobs(a)[l], jc[l])
           /\ k # "resize" => \A l \in Keyed : Lives(jc[l]) => jc[l].sup = TRUE
           /\ \A b \in App \ {a} : \A l \in Kind : Alike(job[<<b, l>>], job'[<<b, l>>])
<1> DEFINE keys == KeysOf(a, k, v)
           x == [NoJob EXCEPT !.st = "pending", !.lock = keys, !.vol = v, !.path = p]
           rows == [job EXCEPT ![<<a, k>>] = x]
           jc == [l \in Kind |-> IF l = k THEN job[<<a, k>>] ELSE job'[<<a, l>>]]
<1>1. keys \in SUBSET (App \cup Vol) /\ (k # "resize" => a \in keys)
  <2>1. a # None
    BY NamesAssumption
  <2> QED BY <2>1 DEF KeysOf
<1>2. x \in JobRow /\ x.st = "pending" /\ x.sup = FALSE /\ x.path = p /\ x.vol = v /\ x.lock = keys
  BY <1>1 DEF NoJob, JobRow
<1>3. job' = Claim(keys, rows)
  BY DEF Enqueue
<1> HIDE DEF keys, x
<1>4. <<a, k>> \in Slot /\ rows \in [Slot -> JobRow] /\ rows[<<a, k>>] = x
      /\ \A s \in Slot : s # <<a, k>> => rows[s] = job[s]
  BY <1>2 DEF TypeOK, Slot
<1> HIDE DEF rows
<1>5. /\ job' \in [Slot -> JobRow] /\ \A s \in Slot : Alike(rows[s], job'[s])
      /\ job'[<<a, k>>] = x
  BY <1>3, <1>4, ClaimIs
<1>6. a \in keys => \A l \in Keyed : Lives(job[<<a, l>>]) => job'[<<a, l>>].sup = TRUE
  BY <1>3, <1>4, Claimed
<1>7. ASSUME NEW b \in App, NEW l \in Kind, b # a \/ l # k
      PROVE  <<b, l>> \in Slot /\ Alike(job[<<b, l>>], job'[<<b, l>>])
  <2>1. <<b, l>> \in Slot /\ <<b, l>> # <<a, k>>
    BY <1>7 DEF Slot
  <2> QED BY <2>1, <1>4, <1>5
<1>8. jc \in [Kind -> JobRow]
  BY <1>4, <1>5 DEF Slot, TypeOK
<1>9. Jobs(a)' = [jc EXCEPT ![k] = x]
  <2>1. Jobs(a)' = [l \in Kind |-> job'[<<a, l>>]]
    BY DEF Jobs
  <2>2. [jc EXCEPT ![k] = x] = [l \in Kind |-> IF l = k THEN x ELSE job'[<<a, l>>]]
    BY DEF Jobs
  <2> QED BY <2>1, <2>2, <1>5
<1>10. ASSUME NEW l \in Kind PROVE Alike(Jobs(a)[l], jc[l]) /\ Jobs(a)[l] = job[<<a, l>>]
  <2>1. Jobs(a)[l] = job[<<a, l>>]
    BY DEF Jobs
  <2>2. CASE l = k
    BY <2>1, <2>2 DEF Alike
  <2>3. CASE l # k
    BY <2>1, <2>3, <1>7
  <2> QED BY <2>1, <2>2, <2>3
<1>11. ASSUME k # "resize", NEW l \in Keyed, Lives(jc[l]) PROVE jc[l].sup = TRUE
  <2>1. l \in Kind
    BY Kinds
  <2>2. Lives(job[<<a, l>>])
    BY <2>1, <1>10, <1>11 DEF Alike, Lives
  <2>3. l # k
    BY <2>2 DEF Live, Lives
  <2> QED BY <2>1, <2>2, <2>3, <1>1, <1>6, <1>11
<1>12. /\ x.st = "pending" /\ x.sup = FALSE /\ x.path = p /\ x.vol = v /\ (k # "resize" => a \in x.lock)
       /\ Jobs(a)' = [jc EXCEPT ![k] = x] /\ job' \in [Slot -> JobRow]
       /\ \A l \in Kind : Alike(Jobs(a)[l], jc[l])
       /\ k # "resize" => \A l \in Keyed : Lives(jc[l]) => jc[l].sup = TRUE
       /\ \A b \in App \ {a} : \A l \in Kind : Alike(job[<<b, l>>], job'[<<b, l>>])
  BY <1>1, <1>2, <1>5, <1>7, <1>9, <1>10, <1>11
<1> HIDE DEF jc
<1> QED BY <1>2, <1>8, <1>12

(* What the reconcile step has seen when it asks for an operation.         *)
LEMMA Seen ==
  ASSUME TypeOK, VolInv, NEW a \in App, Reconciles(a), NEW i \in Work(a), \A q \in Work(a) : i <= q,
         Needed(a, i) \in Kind
  PROVE  /\ Needed(a, i) \in {"attach", "adopt", "detach", "resize", "remount"} /\ i = Place(Needed(a, i))
         /\ Needed(a, i) = "adopt" => man[a].want.vol \in Vol
         /\ Needed(a, i) = "resize" => app[a].vol # None
         /\ Stays(app[a]) => Asks(app[a], man[a], Jobs(a), Needed(a, i))
<1> DEFINE r == app[a]
           m == man[a]
           k == Needed(a, i)
<1>1. /\ Active(m) /\ m.waits = None /\ m.at \in Nat /\ m.at > 0
      /\ m.want.vol \in Vol \cup {None, New} /\ m.mode \in Modes
  BY DEF Reconciles, Active, TypeOK, ManRow, Want
<1>0. Len(Phase) = 6
  BY NeededIs
<1>2. i \in m.at .. 6 /\ i \in 1 .. 6
  BY <1>0, <1>1 DEF Work
<1>3. ASSUME NEW q \in 1 .. 6, m.at <= q, q < i PROVE Needed(a, q) = "nothing"
  <2>1. q \in m.at .. Len(Phase)
    BY <1>0, <1>1, <1>3
  <2>2. q \notin Work(a)
    BY <1>2, <1>3
  <2> QED BY <2>1, <2>2 DEF Work
<1>4. \/ i = 2 /\ k = "detach" /\ r.vol # None /\ (m.want.vol = None \/ Wrong(r, m))
      \/ i = 3 /\ k = Takes(m) /\ k \in Taker /\ m.want.vol # None /\ r.vol = None
      \/ i = 4 /\ k = "resize" /\ m.want.vol # None /\ r.vol # None
      \/ i = 5 /\ k = "remount" /\ m.at = 5 /\ r.path # m.want.path
  <2>1. k # "nothing" /\ k # "redeploy" /\ k # "reload"
    BY DEF Kind
  <2>2. Takes(m) \in Taker
    BY DEF Takes, Taker
  <2>n. /\ i = 1 => k = IF m.mode = "candidate" THEN "redeploy" ELSE "nothing"
        /\ i = 2 => k = IF r.vol # None /\ (m.want.vol = None \/ Wrong(r, m)) THEN "detach" ELSE "nothing"
        /\ i = 3 => k = IF m.want.vol # None /\ r.vol = None THEN Takes(m) ELSE "nothing"
        /\ i = 4 => k = IF m.want.vol # None /\ r.vol # None THEN "resize" ELSE "nothing"
        /\ i = 5 => k = IF m.at = 5 /\ r.path # m.want.path THEN "remount" ELSE "nothing"
        /\ i = 6 => k = IF m.mode = "config" THEN "reload" ELSE "nothing"
    BY NeededIs
  <2> HIDE DEF r, m, k
  <2>3. i # 1 /\ i # 6
    BY <2>1, <2>n
  <2>4. CASE i = 2
    BY <2>1, <2>4, <2>n
  <2>5. CASE i = 3
    BY <2>1, <2>2, <2>5, <2>n
  <2>6. CASE i = 4
    BY <2>1, <2>6, <2>n
  <2>7. CASE i = 5
    BY <2>1, <2>7, <2>n
  <2> QED BY <1>2, <2>3, <2>4, <2>5, <2>6, <2>7
<1>5. k \in {"attach", "adopt", "detach", "resize", "remount"} /\ i = Place(k)
  BY <1>4 DEF Place, Taker
<1>6. k = "adopt" => m.want.vol \in Vol
  BY <1>1, <1>4 DEF Takes
<1>7. k = "resize" => r.vol # None
  BY <1>4, Kinds DEF Taker
<1>8. ASSUME Stays(r) PROVE Asks(r, m, Jobs(a), k)
  <2>w. Whole(r, m, Jobs(a), budget.faults)
    BY <1>8 DEF VolInv, AppInv
  <2>1. m.at # 7
    BY <1>1, <1>2
  <2>2. ASSUME m.mode = "candidate" PROVE "redeploy" \in m.kids
    <3>1. CASE m.at = 1
      <4>1. 1 < i
        BY <1>4
      <4>2. Needed(a, 1) = "nothing"
        BY <1>3, <3>1, <4>1
      <4> QED BY <2>2, <4>2, NeededIs
    <3>2. CASE m.at > 1
      BY <1>1, <2>w, <2>2, <3>2 DEF Whole, Phases
    <3> QED BY <1>1, <3>1, <3>2
  <2>3. k = "detach" => r.vol # None /\ ~Right(r, m)
    BY <1>4 DEF Right, Taker
  <2>4. ASSUME k # "detach" PROVE Right(r, m) /\ m.want.vol # None
    <3>1. i > 2
      BY <1>4, <2>4
    <3>2. Right(r, m)
      <4>1. CASE m.at >= 3
        BY <1>1, <2>w, <4>1 DEF Whole, Settled
      <4>2. CASE m.at <= 2
        <5>1. Needed(a, 2) = "nothing"
          BY <1>3, <3>1, <4>2
        <5>2. ~(r.vol # None /\ (m.want.vol = None \/ Wrong(r, m)))
          BY <5>1, NeededIs
        <5> QED BY <5>2 DEF Right
      <4> QED BY <1>1, <4>1, <4>2
    <3>3. m.want.vol # None
      <4>1. CASE m.at = 5
        BY <1>1, <2>w, <4>1 DEF Whole, Phases
      <4>2. CASE m.at # 5
        BY <1>4, <2>4, <4>2
      <4> QED BY <4>1, <4>2
    <3> QED BY <3>2, <3>3
  <2>5. k \in Taker => r.vol = None /\ k = Takes(m)
    BY <1>4 DEF Taker
  <2>6. k = "remount" => m.at = 5 /\ r.path # m.want.path
    BY <1>4 DEF Taker
  <2>7. ASSUME NEW l \in Taker, Unrecorded(r, Jobs(a)[l]) PROVE l = k
    <3>1. l \in m.kids /\ m.kids \cap Later = {} /\ r.vol = None /\ m.at <= 3
      BY <2>w, <2>7 DEF Whole, Taking
    <3>2. l = Takes(m) /\ m.want.vol # None
      BY <1>1, <2>w, <3>1, Kinds DEF Whole, Phases
    <3> QED BY <1>4, <3>1, <3>2
  <2> QED BY <1>7, <2>1, <2>2, <2>3, <2>4, <2>5, <2>6, <2>7 DEF Asks
<1> QED BY <1>5, <1>6, <1>7, <1>8

(* The row of a manifest that goes on to a phase, waiting for l.           *)
Onward(x, q, l, ks) == [x EXCEPT !.at = q, !.waits = l, !.kids = ks]

LEMMA GoesOn ==
  ASSUME NEW x \in ManRow, NEW q \in Nat, NEW l \in Kind \cup {None},
         NEW ks \in SUBSET (Kind \cup {"redeploy", "reload"}),
         NEW y, y = Onward(x, q, l, ks)
  PROVE  /\ y \in ManRow /\ y.at = q /\ y.waits = l /\ y.kids = ks
         /\ y.st = x.st /\ y.mode = x.mode /\ y.want = x.want
<1> DEFINE S == SUBSET (Kind \cup {"redeploy", "reload"})
<1>1. ks \in S /\ ManRow = [st : {"idle", "active", "done", "failed"}, at : Nat, mode : Modes \cup {None},
                want : Want \cup {None}, kids : S, waits : Kind \cup {None}]
  BY DEF ManRow
<1> HIDE DEF S
<1>2. y \in ManRow /\ y.at = q /\ y.waits = l /\ y.kids = ks
      /\ y.st = x.st /\ y.mode = x.mode /\ y.want = x.want
  BY <1>1 DEF Onward
<1> QED BY <1>2

LEMMA RunChildKeeps ==
  ASSUME TypeOK, VolInv, NEW a \in App, Reconciles(a), NEW i \in Work(a), \A q \in Work(a) : i <= q,
         RunChild(a, i)
  PROVE  TypeOK' /\ VolInv'
<1> DEFINE k == Needed(a, i)
           m == man[a]
           v == CASE k = "adopt" -> m.want.vol [] k = "attach" -> None [] OTHER -> app[a].vol
           m2 == [m EXCEPT !.at = i, !.waits = k, !.kids = m.kids \cup {k}]
<1>1. /\ k \in m.kids \/ ~Live(<<a, k>>)
      /\ man' = [man EXCEPT ![a] = m2] /\ app' = app /\ budget' = budget
      /\ k \in m.kids => job' = job
      /\ k \notin m.kids => Enqueue(a, k, v, m.want.path)
  BY DEF RunChild, world, TypeOK
<1>2. /\ k \in Kind
      /\ k \in {"attach", "adopt", "detach", "resize", "remount"} /\ i = Place(k)
      /\ k = "adopt" => m.want.vol \in Vol
      /\ k = "resize" => app[a].vol # None
      /\ Stays(app[a]) => Asks(app[a], m, Jobs(a), k)
  <2>1. k \in Kind
    BY DEF RunChild
  <2> QED BY <2>1, Seen
<1>3. /\ Typed(app[a], m, Jobs(a), budget.faults) /\ AppInv(a, app[a], m, Jobs(a), budget.faults)
      /\ m \in ManRow /\ Active(m) /\ m.waits = None /\ m.want \in Want /\ m.mode \in Modes /\ app[a] \in Row
  BY OfApp DEF VolInv, TypeOK, Reconciles, Active
<1>4. i \in {2, 3, 4, 5}
  BY <1>2 DEF Place
<1>5. /\ m2 \in ManRow /\ SameMan(m, m2) /\ m2.kids = m.kids \cup {k} /\ m2.waits = k /\ m2.at = i
      /\ m2.want \in Want /\ m2.mode \in Modes /\ m2.at > 0
  <2> HIDE DEF k
  <2>k. m.kids \cup {k} \in SUBSET (Kind \cup {"redeploy", "reload"}) /\ i \in Nat
    BY <1>2, <1>3, <1>4 DEF ManRow
  <2>1. m2 \in ManRow /\ m2.at = i /\ m2.waits = k /\ m2.kids = m.kids \cup {k}
        /\ m2.st = m.st /\ m2.mode = m.mode /\ m2.want = m.want
    <3>1. m \in ManRow /\ k \in Kind \cup {None}
      BY <1>2, <1>3
    <3> DEFINE ks == m.kids \cup {k}
    <3>2. ks \in SUBSET (Kind \cup {"redeploy", "reload"}) /\ i \in Nat
      BY <2>k
    <3>3. m2 = Onward(m, i, k, ks)
      BY DEF Onward
    <3> HIDE DEF m, ks, m2, k
    <3>4. /\ m2 \in ManRow /\ m2.at = i /\ m2.waits = k /\ m2.kids = ks
          /\ m2.st = m.st /\ m2.mode = m.mode /\ m2.want = m.want
      BY <3>1, <3>2, <3>3, GoesOn
    <3> QED BY <3>4 DEF ks
  <2> HIDE DEF m2
  <2> QED BY <2>1, <1>3, <1>4 DEF SameMan
<1>6. /\ app' = [app EXCEPT ![a] = app[a]]
      /\ budget' \in [faults : 0 .. MaxFaults, edits : Nat] /\ budget'.faults <= budget.faults
  BY <1>1, BoundAssumption DEF TypeOK
<1> HIDE DEF m2, k, v
<1>7. CASE k \in m.kids
  <2>1. m2.kids = m.kids
    BY <1>5, <1>7
  <2>2. AppInv(a, app[a], m2, Jobs(a), budget.faults)
    BY <1>2, <1>3, <1>5, <1>7, <2>1, AskedAgain
  <2>3. job' \in [Slot -> JobRow] /\ Jobs(a)' = Jobs(a) /\ \A b \in App \ {a} : \A l \in Kind : Alike(job[<<b, l>>], job'[<<b, l>>])
    BY <1>1, <1>7 DEF Jobs, TypeOK, Alike
  <2>4. AppInv(a, app[a], m2, Jobs(a)', budget'.faults)
    BY <1>1, <2>2, <2>3
  <2> QED BY <1>1, <1>3, <1>5, <1>6, <2>3, <2>4, ActsOn
<1>8. CASE k \notin m.kids
  <2>1. v \in Vol \cup {None} /\ (k = "adopt" => v = m.want.vol) /\ (k = "resize" => v # None)
    BY <1>2, <1>3 DEF v, Row
  <2>2. m.want.path \in Path \cup {None}
    BY <1>3 DEF Want
  <2>3. ~Live(<<a, k>>) /\ ~Lives(Jobs(a)[k]) /\ Enqueue(a, k, v, m.want.path)
    BY <1>1, <1>2, <1>8, OfApp DEF Live, Lives
  <2>4. PICK x \in JobRow, jc \in [Kind -> JobRow] :
           /\ x.st = "pending" /\ x.sup = FALSE /\ x.path = m.want.path /\ x.vol = v /\ (k # "resize" => a \in x.lock)
           /\ Jobs(a)' = [jc EXCEPT ![k] = x] /\ job' \in [Slot -> JobRow]
           /\ \A l \in Kind : Alike(Jobs(a)[l], jc[l])
           /\ k # "resize" => \A l \in Keyed : Lives(jc[l]) => jc[l].sup = TRUE
           /\ \A b \in App \ {a} : \A l \in Kind : Alike(job[<<b, l>>], job'[<<b, l>>])
    BY <1>2, <2>1, <2>2, <2>3, EnqueueIs
  <2>5. Typed(app[a], m, jc, budget.faults) /\ budget.faults <= budget.faults
    BY <1>3, BoundAssumption DEF Typed
  <2>6. AppInv(a, app[a], m, jc, budget.faults)
    BY <1>3, <2>4, <2>5, Superseded
  <2>7. ~Lives(jc[k])
    BY <1>2, <2>3, <2>4 DEF Alike, Lives
  <2>8. Stays(app[a]) => Asks(app[a], m, jc, k)
    <3>1. ASSUME NEW l \in Taker, Unrecorded(app[a], jc[l]) PROVE Unrecorded(app[a], Jobs(a)[l])
      BY <2>4, <3>1, Kinds DEF Unrecorded, Alike, In
    <3> QED BY <1>2, <3>1 DEF Asks
  <2>9. AppInv(a, app[a], m2, [jc EXCEPT ![k] = x], budget.faults)
    <3>1. /\ k \in {"attach", "adopt", "detach", "resize", "remount"} /\ k \notin m.kids
          /\ m2.kids = m.kids \cup {k} /\ m2.waits = k /\ m2.at = Place(k) /\ SameMan(m, m2)
          /\ Active(m) /\ m.waits = None
      BY <1>2, <1>3, <1>5, <1>8
    <3>2. /\ x.st = "pending" /\ x.sup = FALSE /\ x.path = m.want.path
          /\ k = "adopt" => x.vol = m.want.vol
          /\ k # "resize" => a \in x.lock /\ \A l \in Keyed \ {k} : Lives(jc[l]) => jc[l].sup = TRUE
      BY <2>1, <2>4
    <3> HIDE DEF m
    <3> DEFINE n == budget.faults
               r == app[a]
    <3>3. /\ Typed(r, m, jc, n) /\ AppInv(a, r, m, jc, n) /\ ~Lives(jc[k])
          /\ Stays(r) => Asks(r, m, jc, k)
      BY <2>5, <2>6, <2>7, <2>8
    <3> HIDE DEF n, r
    <3>4. AppInv(a, r, m2, [jc EXCEPT ![k] = x], n)
      BY <3>1, <3>2, <3>3, Asked, ZenonT(60)
    <3> QED BY <3>4 DEF n, r
  <2>10. AppInv(a, app[a], m2, Jobs(a)', budget'.faults)
    BY <1>1, <2>4, <2>9
  <2> QED BY <1>1, <1>3, <1>5, <1>6, <2>4, <2>10, ActsOn
<1> QED BY <1>7, <1>8

(* What it has seen when it starts the container.                          *)
LEMMA SeenToRun ==
  ASSUME TypeOK, VolInv, NEW a \in App, Reconciles(a), NEW i \in Work(a), \A q \in Work(a) : i <= q,
         Needed(a, i) \in {"redeploy", "reload"}
  PROVE  \/ Needed(a, i) = "redeploy" /\ i = 1 /\ man[a].at = 1 /\ man[a].mode = "candidate"
         \/ /\ Needed(a, i) = "reload" /\ i = 6 /\ man[a].at <= 6 /\ man[a].mode = "config"
            /\ Stays(app[a]) => AsAsked(app[a], man[a])
<1> DEFINE m == man[a]
           k == Needed(a, i)
<1>0. Len(Phase) = 6
  BY NeededIs
<1>1. Active(m) /\ m.at \in Nat /\ m.at > 0
  BY DEF Reconciles, Active, TypeOK, ManRow
<1>2. i \in m.at .. 6 /\ i \in 1 .. 6
  BY <1>0, <1>1 DEF Work
<1>3. Takes(m) \in {"attach", "adopt"}
  BY DEF Takes
<1>4. /\ i = 1 => k = IF m.mode = "candidate" THEN "redeploy" ELSE "nothing"
      /\ i = 2 => k \in {"detach", "nothing"}
      /\ i = 3 => k \in {"attach", "adopt", "nothing"}
      /\ i = 4 => k \in {"resize", "nothing"}
      /\ i = 5 => k \in {"remount", "nothing"}
      /\ i = 6 => k = IF m.mode = "config" THEN "reload" ELSE "nothing"
  BY <1>3, NeededIs
<1>5. k \in {"redeploy", "reload"}
  OBVIOUS
<1> HIDE DEF k
<1>6. i = 1 \/ i = 6
  <2>1. i # 2
    BY <1>4, <1>5
  <2>2. i # 3
    BY <1>4, <1>5
  <2>3. i # 4
    BY <1>4, <1>5
  <2>4. i # 5
    BY <1>4, <1>5
  <2> QED BY <1>2, <2>1, <2>2, <2>3, <2>4
<1>7. CASE i = 1
  <2>1. k = "redeploy" /\ m.mode = "candidate"
    BY <1>4, <1>5, <1>7
  <2>2. m.at = 1
    BY <1>1, <1>2, <1>7
  <2> QED BY <1>7, <2>1, <2>2 DEF k
<1>8. CASE i = 6
  <2>1. k = "reload" /\ m.mode = "config"
    BY <1>4, <1>5, <1>8
  <2>2. m.at <= 6
    BY <1>1, <1>2, <1>8
  <2>3. ASSUME NEW q \in 1 .. 5, m.at <= q PROVE Needed(a, q) = "nothing"
    <3>1. q \in m.at .. Len(Phase)
      BY <1>0, <1>1, <2>3
    <3>2. q \notin Work(a)
      BY <1>8, <2>3
    <3> QED BY <3>1, <3>2 DEF Work
  <2>4. Stays(app[a]) => AsAsked(app[a], m)
    BY <2>2, <2>3, NothingNeeded
  <2> QED BY <1>8, <2>1, <2>2, <2>4 DEF k
<1> QED BY <1>6, <1>7, <1>8

(* The container is not started, and the manifest fails.                   *)
LEMMA RunFailsKeeps ==
  ASSUME TypeOK, VolInv, NEW a \in App, Reconciles(a), NEW i \in Work(a), \A q \in Work(a) : i <= q,
         Needed(a, i) \in {"redeploy", "reload"}, EndManifest(a, "failed"), UNCHANGED <<app, job>>,
         \/ Needed(a, i) \notin man[a].kids /\ Fault
         \/ app[a].doomed /\ budget' = budget
  PROVE  TypeOK' /\ VolInv'
<1> DEFINE m == man[a]
<1>1. Active(m) /\ m.waits = None /\ m.at \in Nat /\ m.at > 0
  BY DEF Reconciles, Active, TypeOK, ManRow
<1>2. budget' = budget \/ Fault
  OBVIOUS
<1>3. \A k \in Kind \ {"destroy"} : budget.faults = MaxFaults => ~Lives(Jobs(a)[k])
  BY <1>1, NothingLives
<1>4. ASSUME Stays(app[a])
      PROVE  /\ \A k \in Taker : ~Unrecorded(app[a], Jobs(a)[k])
             /\ ~Uncleared(app[a], Jobs(a)["detach"])
  <2>w. Whole(app[a], m, Jobs(a), budget.faults) /\ Needed(a, i) \notin m.kids
    BY <1>4 DEF VolInv, AppInv, Stays
  <2>1. CASE Needed(a, i) = "redeploy" /\ m.mode = "candidate"
    <3>1. m.kids = {}
      BY <1>1, <2>w, <2>1 DEF Whole, Phases
    <3> QED BY <2>w, <3>1 DEF Whole, Taking, Detached
  <2>2. CASE AsAsked(app[a], m)
    BY <1>1, <2>w, <2>2, NothingOpen
  <2> QED BY <1>4, <2>1, <2>2, SeenToRun
<1> QED BY <1>2, <1>3, <1>4, EndedManifest

(* Nothing works on the app when its container is started.                 *)
LEMMA RunsKeeps ==
  ASSUME TypeOK, VolInv, NEW a \in App, Reconciles(a), NEW i \in Work(a), \A q \in Work(a) : i <= q,
         Needed(a, i) \in {"redeploy", "reload"},
         Unlocked({a}), ~app[a].doomed, app[a].here, budget' = budget,
         app' = [app EXCEPT ![a] = IF Needed(a, i) \in man[a].kids THEN @
                                   ELSE Recreated(Stored(@, Needed(a, i)), Recorded(a))],
         job' = IF Needed(a, i) \in man[a].kids THEN job ELSE Claim({a}, job),
         man' = [man EXCEPT ![a].at = i + 1, ![a].kids = @ \cup {Needed(a, i)}]
  PROVE  TypeOK' /\ VolInv'
<1> DEFINE k == Needed(a, i)
           m == man[a]
           r == app[a]
           n == budget.faults
           again == k \in m.kids
           r0 == Stored(r, k)
           r2 == IF again THEN r ELSE Recreated(r0, Recorded(a))
           ks == m.kids \cup {k}
           m2 == Onward(m, i + 1, None, ks)
           j2 == Jobs(a)'
<1>1. /\ Active(m) /\ m.waits = None /\ m.at \in Nat /\ m.at > 0 /\ m \in ManRow
      /\ m.want \in Want /\ m.mode \in Modes /\ r \in Row /\ Stays(r)
      /\ Typed(r, m, Jobs(a), n) /\ AppInv(a, r, m, Jobs(a), n)
  BY OfApp DEF Reconciles, Active, TypeOK, VolInv, ManRow, Stays, Row
<1>2. k \in {"redeploy", "reload"} /\ i \in Nat
  <2>1. Len(Phase) = 6
    BY NeededIs
  <2> QED BY <1>1, <2>1 DEF Work
<1>m. /\ m2 \in ManRow /\ m2.at = i + 1 /\ m2.waits = None /\ m2.kids = ks
      /\ SameMan(m, m2) /\ m2.want \in Want /\ m2.mode \in Modes /\ m2.at > 0
  <2>1. ks \in SUBSET (Kind \cup {"redeploy", "reload"}) /\ i + 1 \in Nat /\ i + 1 > 0
    BY <1>1, <1>2 DEF ManRow
  <2> DEFINE q == i + 1
  <2>3. /\ m2 = Onward(m, q, None, ks) /\ m \in ManRow /\ None \in Kind \cup {None} /\ q \in Nat
        /\ ks \in SUBSET (Kind \cup {"redeploy", "reload"})
    BY <1>1, <2>1
  <2> HIDE DEF ks, m, k, m2, q
  <2>2. /\ m2 \in ManRow /\ m2.at = q /\ m2.waits = None /\ m2.kids = ks
        /\ m2.st = m.st /\ m2.mode = m.mode /\ m2.want = m.want
    BY <2>3, GoesOn
  <2> QED BY <1>1, <2>1, <2>2 DEF SameMan, q
<1>3. man' = [man EXCEPT ![a] = m2]
  <2>1. m2 = [m EXCEPT !.at = i + 1, !.kids = ks]
    BY <1>1 DEF Onward, ManRow
  <2> QED BY <2>1 DEF TypeOK
<1>r. r2 \in Row /\ SameRow(r, r2)
  <2>1. r0 \in Row /\ SameRow(r, r0)
    BY <1>1 DEF Stored, Row, SameRow
  <2>2. Recorded(a) \in [vol : Vol \cup {None}, path : Path \cup {None}]
    BY <1>1 DEF Recorded, Row
  <2> HIDE DEF r0
  <2>3. Recreated(r0, Recorded(a)) \in Row /\ SameRow(r0, Recreated(r0, Recorded(a)))
    BY <2>1, <2>2, RecreatedIs
  <2> QED BY <1>1, <2>1, <2>3 DEF SameRow
<1>b. /\ again /\ k = "reload" => r2.box = r.box /\ r2.cur = r.cur
      /\ ~again /\ k = "reload" =>
           r2.box = IF r.cur = TRUE /\ r.box # Down THEN r.box ELSE [vol |-> r.vol, path |-> r.path]
  <2>1. CASE ~again /\ k = "reload"
    <3>1. r0 = r
      BY <1>1, <2>1 DEF Stored, Row
    <3>2. Recorded(a) = [vol |-> r.vol, path |-> r.path] /\ Recorded(a) \in [vol : Vol \cup {None}, path : Path \cup {None}]
      BY <1>1 DEF Recorded, Row
    <3>3. r2 = Recreated(r, Recorded(a))
      BY <2>1, <3>1
    <3> HIDE DEF r2
    <3> QED BY <1>1, <2>1, <3>2, <3>3, RecreatedIs
  <2> QED BY <2>1
<1>4. /\ app' = [app EXCEPT ![a] = r2]
      /\ budget' \in [faults : 0 .. MaxFaults, edits : Nat] /\ budget'.faults = n /\ budget'.faults <= n
  <2>1. app' = [app EXCEPT ![a] = r2]
    BY DEF TypeOK
  <2>2. budget \in [faults : 0 .. MaxFaults, edits : Nat] /\ budget.faults <= budget.faults
    BY BoundAssumption DEF TypeOK
  <2> HIDE DEF r2
  <2> QED BY <2>1, <2>2
<1>5. /\ job' \in [Slot -> JobRow] /\ \A s \in Slot : Alike(job[s], job'[s])
      /\ ~again => \A l \in Keyed : Lives(job[<<a, l>>]) => job'[<<a, l>>].sup = TRUE
  <2>1. job \in [Slot -> JobRow] /\ \A s \in Slot : Alike(job[s], job[s])
    BY DEF TypeOK, Alike
  <2>2. CASE again
    BY <2>1, <2>2
  <2>3. CASE ~again
    BY <2>1, <2>3, ClaimIs, Claimed
  <2> QED BY <2>2, <2>3
<1>6. \A b \in App \ {a} : \A l \in Kind : Alike(job[<<b, l>>], job'[<<b, l>>])
  BY <1>5 DEF Slot
<1>7. /\ j2 \in [Kind -> JobRow] /\ \A l \in Kind : Alike(Jobs(a)[l], j2[l])
      /\ ~again => \A l \in Keyed : Lives(j2[l]) => j2[l].sup = TRUE
  <2>1. \A l \in Kind : <<a, l>> \in Slot /\ Jobs(a)[l] = job[<<a, l>>] /\ j2[l] = job'[<<a, l>>]
    BY DEF Slot, Jobs
  <2>2. j2 \in [Kind -> JobRow]
    BY <1>5, <2>1 DEF Jobs
  <2>3. \A l \in Kind : Alike(Jobs(a)[l], j2[l])
    BY <1>5, <2>1
  <2> HIDE DEF j2
  <2>4. ASSUME ~again, NEW l \in Keyed, Lives(j2[l]) PROVE j2[l].sup = TRUE
    <3>1. l \in Kind
      BY Kinds
    <3>2. Lives(job[<<a, l>>])
      BY <2>1, <2>3, <2>4, <3>1 DEF Alike, Lives
    <3> QED BY <1>5, <2>1, <2>4, <3>1, <3>2
  <2> QED BY <2>2, <2>3, <2>4
<1>s. \A l \in Keyed : ~Works(Jobs(a)[l])
  BY NobodyWorks
<1>e. \/ k = "redeploy" /\ i = 1 /\ m.at = 1 /\ m.mode = "candidate"
      \/ k = "reload" /\ i = 6 /\ m.mode = "config" /\ AsAsked(r, m)
  BY <1>1, SeenToRun
<1> HIDE DEF j2, m2, r2, ks
<1>8. Typed(r, m, j2, n) /\ n <= n
  BY <1>1, <1>7, BoundAssumption DEF Typed
<1>9. AppInv(a, r, m, j2, n)
  <2> DEFINE j == Jobs(a)
  <2>1. Typed(r, m, j, n) /\ AppInv(a, r, m, j, n) /\ \A l \in Kind : Alike(j[l], j2[l])
    BY <1>1, <1>7
  <2> HIDE DEF j, r, m, n
  <2> QED BY <1>8, <2>1, Superseded
<1>10. \A l \in Keyed : ~Works(j2[l])
  BY <1>s, <1>7, Kinds DEF Alike, Works
<1>11. AppInv(a, r2, m2, j2, n)
  <2>1. CASE k = "redeploy" /\ i = 1 /\ m.at = 1 /\ m.mode = "candidate"
    <3>1. m2.kids = m.kids \cup {"redeploy"} /\ m2.at = 2
      BY <1>m, <2>1 DEF ks
    <3> HIDE DEF m, r, n, k, again
    <3> QED BY <1>1, <1>8, <1>9, <1>m, <1>r, <2>1, <3>1, Redeploys
  <2>2. CASE k = "reload" /\ i = 6 /\ m.mode = "config" /\ AsAsked(r, m)
    <3>1. m2.kids = m.kids \cup {"reload"} /\ m2.at = 7
      BY <1>m, <2>2 DEF ks
    <3>2. \/ "reload" \in m.kids /\ r2.box = r.box /\ r2.cur = r.cur
          \/ /\ \A l \in Keyed : Lives(j2[l]) => j2[l].sup = TRUE
             /\ r2.box = IF r.cur = TRUE /\ r.box # Down THEN r.box ELSE [vol |-> r.vol, path |-> r.path]
      <4>1. CASE again
        BY <1>b, <2>2, <4>1
      <4>2. CASE ~again
        BY <1>b, <1>7, <2>2, <4>2
      <4> QED BY <4>1, <4>2
    <3> HIDE DEF m, r, n, k, again
    <3> QED BY <1>1, <1>8, <1>9, <1>10, <1>m, <1>r, <2>2, <3>1, <3>2, Reloads
  <2> QED BY <1>e, <2>1, <2>2
<1>12. AppInv(a, r2, m2, Jobs(a)', budget'.faults)
  BY <1>4, <1>11 DEF j2
<1> QED BY <1>3, <1>4, <1>5, <1>6, <1>12, <1>m, <1>r, ActsOn

LEMMA RunContainerKeeps ==
  ASSUME TypeOK, VolInv, NEW a \in App, Reconciles(a), app[a].here, NEW i \in Work(a), \A q \in Work(a) : i <= q,
         RunContainer(a, i)
  PROVE  TypeOK' /\ VolInv'
<1>1. Needed(a, i) \in {"redeploy", "reload"}
  BY DEF RunContainer
<1>2. CASE EndManifest(a, "failed") /\ UNCHANGED <<app, job>>
           /\ \/ Needed(a, i) \notin man[a].kids /\ Fault
              \/ app[a].doomed /\ budget' = budget
  BY <1>1, <1>2, RunFailsKeeps
<1>3. CASE /\ Unlocked({a}) /\ ~app[a].doomed /\ budget' = budget
           /\ app' = [app EXCEPT ![a] = IF Needed(a, i) \in man[a].kids THEN @
                                     ELSE Recreated(Stored(@, Needed(a, i)), Recorded(a))]
           /\ job' = IF Needed(a, i) \in man[a].kids THEN job ELSE Claim({a}, job)
           /\ man' = [man EXCEPT ![a].at = i + 1, ![a].kids = @ \cup {Needed(a, i)}]
  BY <1>1, <1>3, RunsKeeps
<1> QED BY <1>2, <1>3 DEF RunContainer

(* The reconcile step works on the first phase that needs something.       *)
LEMMA FirstIs ==
  ASSUME TypeOK, NEW a \in App, man[a].st = "active", Work(a) # {}
  PROVE  \E i \in Work(a) : \A q \in Work(a) : i <= q
<1>1. Work(a) \subseteq 1 .. 6
  <2>1. man[a].at \in Nat /\ man[a].at > 0 /\ Len(Phase) = 6
    BY NeededIs DEF TypeOK, ManRow
  <2> QED BY <2>1 DEF Work
<1> DEFINE W == Work(a)
<1> HIDE DEF W
<1>2. W \subseteq 1 .. 6 /\ W # {}
  BY <1>1 DEF W
<1>3. \E i \in W : \A q \in W : i <= q
  <2>1. PICK w \in W : w \in 1 .. 6
    BY <1>2
  <2>2. CASE 1 \in W
    BY <1>2, <2>2
  <2>3. CASE 1 \notin W /\ 2 \in W
    BY <1>2, <2>3
  <2>4. CASE 1 \notin W /\ 2 \notin W /\ 3 \in W
    BY <1>2, <2>4
  <2>5. CASE 1 \notin W /\ 2 \notin W /\ 3 \notin W /\ 4 \in W
    BY <1>2, <2>5
  <2>6. CASE 1 \notin W /\ 2 \notin W /\ 3 \notin W /\ 4 \notin W /\ 5 \in W
    BY <1>2, <2>6
  <2>7. CASE 1 \notin W /\ 2 \notin W /\ 3 \notin W /\ 4 \notin W /\ 5 \notin W
    BY <1>2, <2>1, <2>7
  <2> QED BY <2>2, <2>3, <2>4, <2>5, <2>6, <2>7
<1> QED BY <1>3 DEF W

LEMMA ReconcileManifestKeeps ==
  ASSUME TypeOK, VolInv, NEW a \in App, ReconcileManifest(a)
  PROVE  TypeOK' /\ VolInv'
<1> DEFINE First(q) == \A o \in Work(a) : q <= o
           i == CHOOSE q \in Work(a) : First(q)
<1>1. Reconciles(a) /\ app[a].here /\ Work(a) # {} /\ (RunChild(a, i) \/ RunContainer(a, i))
  BY DEF ReconcileManifest
<1>2. \E q \in Work(a) : First(q)
  BY <1>1, FirstIs DEF Reconciles
<1>3. i \in Work(a) /\ First(i)
  <2> HIDE DEF First
  <2> QED BY <1>2
<1> HIDE DEF i
<1>4. CASE RunChild(a, i)
  BY <1>1, <1>3, <1>4, RunChildKeeps
<1>5. CASE RunContainer(a, i)
  BY <1>1, <1>3, <1>5, RunContainerKeeps
<1> QED BY <1>1, <1>4, <1>5

LEMMA DestroyAppKeeps ==
  ASSUME TypeOK, VolInv, NEW a \in App, DestroyApp(a)
  PROVE  TypeOK' /\ VolInv'
<1> DEFINE k == "destroy"
           v == app[a].vol
           n == budget.faults
<1>1. /\ ~Live(<<a, k>>) /\ Enqueue(a, k, v, None) /\ app' = app /\ man' = man
      /\ budget' = budget \/ Requested
  BY DEF DestroyApp, world
<1>2. /\ Typed(app[a], man[a], Jobs(a), n) /\ AppInv(a, app[a], man[a], Jobs(a), n)
      /\ man[a] \in ManRow /\ app[a] \in Row /\ v \in Vol \cup {None} /\ k \in Kind
      /\ Active(man[a]) => man[a].want \in Want /\ man[a].mode \in Modes /\ man[a].at > 0
  BY OfApp, Kinds DEF VolInv, TypeOK, Row, Active
<1>3. PICK x \in JobRow, jc \in [Kind -> JobRow] :
         /\ x.st = "pending" /\ x.sup = FALSE /\ x.path = None /\ x.vol = v /\ (k # "resize" => a \in x.lock)
         /\ Jobs(a)' = [jc EXCEPT ![k] = x] /\ job' \in [Slot -> JobRow]
         /\ \A l \in Kind : Alike(Jobs(a)[l], jc[l])
         /\ k # "resize" => \A l \in Keyed : Lives(jc[l]) => jc[l].sup = TRUE
         /\ \A b \in App \ {a} : \A l \in Kind : Alike(job[<<b, l>>], job'[<<b, l>>])
  BY <1>1, <1>2, EnqueueIs
<1>4. Typed(app[a], man[a], jc, n) /\ n <= n
  BY <1>2, BoundAssumption DEF Typed
<1>5. AppInv(a, app[a], man[a], jc, n)
  BY <1>2, <1>3, <1>4, Superseded
<1>6. /\ budget' \in [faults : 0 .. MaxFaults, edits : Nat] /\ budget'.faults = n /\ budget'.faults <= n
  BY <1>1, BoundAssumption DEF TypeOK, Requested
<1>7. AppInv(a, app[a], man[a], [jc EXCEPT !["destroy"] = x], n)
  <2>1. \A l \in Keyed \ {"destroy"} : Lives(jc[l]) => jc[l].sup = TRUE
    BY <1>3
  <2>2. x.st = "pending" /\ a \in x.lock
    BY <1>3
  <2> DEFINE r == app[a]
             m == man[a]
  <2> HIDE DEF r, m, n
  <2>3. AppInv(a, r, m, [jc EXCEPT !["destroy"] = x], n)
    BY <1>4, <1>5, <2>1, <2>2, DestroyAsked, ZenonT(60) DEF r, m
  <2> QED BY <2>3 DEF r, m
<1>8. AppInv(a, app[a], man[a], Jobs(a)', budget'.faults)
  BY <1>3, <1>6, <1>7
<1>9. app' = [app EXCEPT ![a] = app[a]] /\ man' = [man EXCEPT ![a] = man[a]]
  BY <1>1 DEF TypeOK
<1> QED BY <1>2, <1>3, <1>6, <1>8, <1>9, ActsOn DEF Active

(* A step of a manifest, or of who asks for a destruction.                 *)
LEMMA ManifestKeeps ==
  ASSUME TypeOK, VolInv, NEW a \in App, Manifest(a)
  PROVE  TypeOK' /\ VolInv'
<1>1. CASE \E w \in Wish, mode \in Modes : ApplyManifest(a, mode, w)
  BY <1>1, ApplyManifestKeeps
<1>2. CASE ReconcileManifest(a)
  BY <1>2, ReconcileManifestKeeps
<1>3. CASE AwaitChild(a)
  BY <1>3, AwaitChildKeeps
<1>4. CASE ManifestDone(a)
  BY <1>4, ManifestDoneKeeps
<1>5. CASE AppVanished(a)
  BY <1>5, AppVanishedKeeps
<1>6. CASE DestroyApp(a)
  BY <1>6, DestroyAppKeeps
<1>7. CASE ReattachVolume(a)
  <2>1. UNCHANGED <<app, man, job>> /\ budget' = budget
    BY <1>7 DEF ReattachVolume
  <2>2. budget' \in [faults : 0 .. MaxFaults, edits : Nat] /\ budget'.faults <= budget.faults
    BY <2>1, BoundAssumption DEF TypeOK
  <2> QED BY <2>1, <2>2, Stands
<1> QED BY <1>1, <1>2, <1>3, <1>4, <1>5, <1>6, <1>7 DEF Manifest

(***************************************************************************)
(* The theorems                                                            *)
(***************************************************************************)
LEMMA VolumesStart ==
  ASSUME Init
  PROVE  TypeOK /\ VolInv
<1>1. PICK owner \in App \cup {None}, v \in Vol \ Kept, p \in Path :
         app = [a \in App |-> IF a = owner THEN Using(v, p) ELSE Fresh]
  BY DEF Init
<1>2. /\ Fresh \in Row /\ Using(v, p) \in Row
      /\ Fresh.vol = None /\ Fresh.path = None /\ Using(v, p).vol = v /\ Using(v, p).path = p
  BY DEF Fresh, Using, Row, Bare
<1>3. /\ NoJob \in JobRow /\ NoJob.st = "idle" /\ NoManifest \in ManRow /\ NoManifest.st = "idle"
  BY DEF NoJob, JobRow, NoManifest, ManRow
<1>4. TypeOK
  BY <1>1, <1>2, <1>3, BoundAssumption DEF Init, TypeOK
<1>5. ASSUME NEW a \in App PROVE AppInv(a, app[a], man[a], Jobs(a), budget.faults)
  <2>1. \A k \in Kind : Jobs(a)[k].st = "idle"
    BY <1>3 DEF Init, Jobs, Slot
  <2>2. ~Active(man[a])
    BY <1>3 DEF Init, Active
  <2>3. app[a].vol = None <=> app[a].path = None
    BY <1>1, <1>2, NamesAssumption
  <2> DEFINE j == Jobs(a)
             r == app[a]
             m == man[a]
             n == budget.faults
  <2> HIDE DEF j, r, m, n
  <2>4. \A k \in Kind : ~Lives(j[k]) /\ ~Works(j[k]) /\ ~Unrecorded(r, j[k]) /\ ~Uncleared(r, j[k])
                        /\ ~In(j[k], 1) /\ ~In(j[k], 2) /\ ~In(j[k], 3) /\ j[k].st = "idle"
    BY <2>1 DEF j, Lives, Works, Unrecorded, Uncleared, In
  <2>5. Keys(a, m, j) /\ CalmKids(m, j, n)
    BY <2>2, <2>4, Kinds DEF m, Keys, CalmKids, Within
  <2>6. Rows(r, j)
    BY <2>3, <2>4, Kinds DEF r, Rows, Recording, Mounting
  <2>7. Phases(m, j) /\ Settled(r, m, j) /\ CalmBox(r, m, n) /\ Remounts(r, m, j["remount"])
    BY <2>2 DEF m, Phases, Settled, CalmBox, Remounts
  <2>8. Taking(r, m, j) /\ Detached(r, m, j["detach"])
    BY <2>2, <2>4, Kinds DEF m, Taking, Detached
  <2>9. AppInv(a, r, m, j, n)
    BY <2>5, <2>6, <2>7, <2>8 DEF AppInv, Whole
  <2> QED BY <2>9 DEF j, r, m, n
<1> QED BY <1>4, <1>5 DEF VolInv

LEMMA VolumesGoOn ==
  ASSUME TypeOK, VolInv, [Next]_vars
  PROVE  TypeOK' /\ VolInv'
<1>1. CASE \E s \in Slot : Live(s) /\ (Run(s) \/ Operation(s))
  BY <1>1, OperationKeeps
<1>2. CASE \E a \in App : Manifest(a)
  BY <1>2, ManifestKeeps
<1>3. CASE Deletion
  BY <1>3, DeletionKeeps
<1>4. CASE Crash
  BY <1>4, CrashKeeps
<1>5. CASE UNCHANGED vars
  <2>1. UNCHANGED <<app, man, job>> /\ budget' = budget
    BY <1>5 DEF vars
  <2>2. budget' \in [faults : 0 .. MaxFaults, edits : Nat] /\ budget'.faults <= budget.faults
    BY <2>1, BoundAssumption DEF TypeOK
  <2> QED BY <2>1, <2>2, Stands
<1> QED BY <1>1, <1>2, <1>3, <1>4, <1>5 DEF Next

(* The rows of apps, operations and manifests are what they should be, and *)
(* every app keeps the invariant of its operations and its manifest.       *)
THEOREM VolumesAreSound == Spec => [](TypeOK /\ VolInv)
<1>1. Init => TypeOK /\ VolInv
  BY VolumesStart
<1>2. (TypeOK /\ VolInv) /\ [Next]_vars => (TypeOK /\ VolInv)'
  BY VolumesGoOn
<1> QED BY <1>1, <1>2, PTL DEF Spec

(* No operation of an app ends a manifest.                                 *)
LEMMA ManifestsStay ==
  ASSUME NEW s \in Slot, Run(s) \/ Operation(s)
  PROVE  man' = man \/ Restart
<1>1. CASE Run(s)
  BY <1>1 DEF Run, Begin, StepFails, UndoEnds, UndoAgain, Throw
<1>2. CASE Attaching(s)
  BY <1>2 DEF Attaching, CreateVolume, CreateUnanswered, CreateRefused, RecordVolume, RecreateContainer,
     RecreateFails, UndoCreate, UndoRecord, Throw, Finish, Undone, UndoSucceeds, UndoFails
<1>3. CASE Adopting(s)
  BY <1>3 DEF Adopting, AttachVolume, AttachUnconfirmed, AttachRefused, RecordVolume, RecreateContainer,
     RecreateFails, UndoAttach, UndoRecord, Throw, Finish, Undone, UndoSucceeds, UndoFails
<1>4. CASE Detaching(s)
  BY <1>4 DEF Detaching, DetachVolume, DetachRefused, DetachUnconfirmed, ClearAppVolume, RecreateBare,
     RecreateBareFails, Throw, Finish
<1>5. CASE Resizing(s)
  BY <1>5 DEF Resizing, ResizeVolume, ResizeRefused, Throw, Finish
<1>6. CASE Remounting(s)
  BY <1>6 DEF Remounting, ValidateMount, ValidateRefused, UpdateMount, RecreateContainer, RecreateFails,
     UndoMount, Throw, Finish, Undone, UndoSucceeds, UndoFails
<1>7. CASE Destroying(s)
  BY <1>7 DEF Destroying, StopApp, ReleaseVolume, DeleteRows, Throw, Finish
<1> QED BY <1>1, <1>2, <1>3, <1>4, <1>5, <1>6, <1>7 DEF Operation

(* A manifest becomes done in one way only.                                *)
LEMMA OnlyDone ==
  ASSUME TypeOK, NEW a \in App, [Next]_vars, man[a].st = "active", man'[a].st = "done"
  PROVE  ManifestDone(a)
<1>0. man' # man
  OBVIOUS
<1>1. ~Restart
  <2>1. Restart => man'[a].st = man[a].st
    BY Restarting
  <2> QED BY <2>1
<1>2. ASSUME NEW s \in Slot, Run(s) \/ Operation(s) PROVE FALSE
  BY <1>0, <1>1, <1>2, ManifestsStay
<1>3. ASSUME NEW b \in App, Manifest(b), ~ManifestDone(a) PROVE FALSE
  <2>1. ASSUME NEW w, NEW mode, ApplyManifest(b, mode, w) PROVE FALSE
    BY <2>1 DEF ApplyManifest, TypeOK
  <2>2. ASSUME NEW i, RunChild(b, i) PROVE FALSE
    BY <2>2 DEF RunChild, TypeOK, ManRow
  <2>3. ASSUME NEW i, RunContainer(b, i) PROVE FALSE
    <3>1. CASE EndManifest(b, "failed")
      BY <3>1 DEF EndManifest, TypeOK, NoManifest
    <3>2. CASE man' = [man EXCEPT ![b].at = i + 1, ![b].kids = @ \cup {Needed(b, i)}]
      BY <3>2 DEF TypeOK, ManRow
    <3> QED BY <2>3, <3>1, <3>2 DEF RunContainer
  <2>4. ~ReconcileManifest(b)
    BY <2>2, <2>3 DEF ReconcileManifest
  <2>5. ~EndManifest(b, "failed")
    BY DEF EndManifest, TypeOK, NoManifest
  <2>6. ~AwaitChild(b) /\ ~AppVanished(b)
    BY <2>5 DEF AwaitChild, AppVanished, TypeOK, ManRow
  <2>7. ~ManifestDone(b)
    BY <1>3 DEF ManifestDone, EndManifest, TypeOK, NoManifest
  <2>8. ~DestroyApp(b) /\ ~ReattachVolume(b)
    BY <1>0 DEF DestroyApp, ReattachVolume
  <2> QED BY <1>3, <2>1, <2>4, <2>6, <2>7, <2>8 DEF Manifest
<1>4. ~Deletion
  BY <1>0 DEF Deletion, Expire, SweepVolume, DeleteRetained, InspectVolume, DeleteVolume, DeleteFails
<1>5. ~Crash /\ ~UNCHANGED vars
  BY <1>0, <1>1 DEF Crash, vars
<1> QED BY <1>2, <1>3, <1>4, <1>5 DEF Next

(* A manifest that is done has the row as it asked for it.                 *)
LEMMA DoneIsAsked ==
  ASSUME TypeOK, VolInv, NEW a \in App, ManifestDone(a), ~app[a].doomed, ~StrayRemount(a)
  PROVE  /\ AsAsked(app[a], man[a])
         /\ man[a].mode = "config" /\ budget.faults = MaxFaults => app[a].box = Recorded(a)
<1> DEFINE r == app[a]
           m == man[a]
<1>1. /\ Reconciles(a) /\ Active(m) /\ m.at \in Nat /\ Work(a) = {} /\ Stays(r)
      /\ Whole(r, m, Jobs(a), budget.faults)
  <2>1. Stays(r)
    BY DEF ManifestDone, Stays, TypeOK, Row
  <2> QED BY <2>1 DEF ManifestDone, Reconciles, Active, TypeOK, ManRow, VolInv, AppInv
<1>2. m.at \in 1 .. 7
  BY <1>1 DEF Whole, Phases
<1>3. ASSUME NEW i \in 1 .. 6, m.at <= i PROVE Needed(a, i) = "nothing"
  <2>1. Len(Phase) = 6
    BY NeededIs
  <2>2. i \in m.at .. Len(Phase)
    BY <1>1, <1>3, <2>1
  <2> QED BY <1>1, <2>2 DEF Work
<1>4. CASE m.at <= 6
  <2>1. AsAsked(r, m)
    BY <1>1, <1>3, <1>4, NothingNeeded
  <2>2. m.mode # "config"
    <3>1. Needed(a, 6) = "nothing"
      BY <1>3, <1>4
    <3> QED BY <3>1, NeededIs
  <2> QED BY <2>1, <2>2
<1>5. CASE m.at = 7
  <2>1. ~Stray(m, Jobs(a)["remount"])
    BY OfApp, Kinds DEF Stray, StrayRemount
  <2>2. AsAsked(r, m)
    BY <1>1, <1>5, <2>1 DEF Whole, Remounts
  <2>3. m.mode = "config" /\ budget.faults = MaxFaults => r.box = [vol |-> r.vol, path |-> r.path]
    BY <1>1, <1>5 DEF Whole, Phases, CalmBox
  <2> QED BY <2>2, <2>3 DEF Recorded
<1> QED BY <1>2, <1>4, <1>5

(* A manifest that reports done, of an app that nobody destroys and that   *)
(* has no stray remount, has left the app with the volume and the path it  *)
(* asked for; when nothing failed, a manifest of configuration only has    *)
(* also left the container with that mount.                                *)
THEOREM ManifestsAreApplied == Spec => ManifestIsApplied
<1> DEFINE Step == \A a \in App :
       LET w == man[a].want
       IN  man[a].st = "active" /\ man'[a].st = "done" /\ ~app[a].doomed /\ ~StrayRemount(a) =>
             /\ w.vol = None <=> app[a].vol = None
             /\ w.vol \in Vol => app[a].vol = w.vol
             /\ w.vol = New => ~app[a].adopted
             /\ w.vol # None => app[a].path = w.path
             /\ man[a].mode = "config" /\ budget.faults = MaxFaults => app[a].box = Recorded(a)
<1>1. TypeOK /\ VolInv /\ [Next]_vars => Step
  <2> SUFFICES ASSUME TypeOK, VolInv, [Next]_vars, NEW a \in App,
                      man[a].st = "active", man'[a].st = "done", ~app[a].doomed, ~StrayRemount(a)
               PROVE  LET w == man[a].want
                      IN  /\ w.vol = None <=> app[a].vol = None
                          /\ w.vol \in Vol => app[a].vol = w.vol
                          /\ w.vol = New => ~app[a].adopted
                          /\ w.vol # None => app[a].path = w.path
                          /\ man[a].mode = "config" /\ budget.faults = MaxFaults => app[a].box = Recorded(a)
    OBVIOUS
  <2>1. ManifestDone(a)
    BY OnlyDone
  <2>2. /\ AsAsked(app[a], man[a])
        /\ man[a].mode = "config" /\ budget.faults = MaxFaults => app[a].box = Recorded(a)
    BY <2>1, DoneIsAsked
  <2>3. man[a].want \in Want /\ app[a].adopted \in BOOLEAN
    BY DEF TypeOK, Row
  <2>4. New # None /\ None \notin Vol
    BY NamesAssumption
  <2> DEFINE r == app[a]
             m == man[a]
  <2>5. /\ m.want.vol = None <=> r.vol = None
        /\ m.want.vol \in Vol => r.vol = m.want.vol
        /\ m.want.vol = New => r.adopted = FALSE
        /\ m.want.vol # None => r.path = m.want.path
    <3> HIDE DEF r, m
    <3>1. AsAsked(r, m) /\ r.adopted \in BOOLEAN
      BY <2>2, <2>3 DEF r, m
    <3> QED BY <3>1, <2>4 DEF AsAsked, Wanted, Wrong
  <2> QED BY <2>2, <2>5
<1>2. TypeOK /\ VolInv /\ [Next]_vars => [Step]_vars
  BY <1>1
<1> QED BY <1>2, VolumesAreSound, PTL DEF Spec, ManifestIsApplied
=============================================================================
