--------------------------- MODULE GlobalEnvProofs --------------------------
(***************************************************************************)
(* Lookups through caches and the mirror answer for the environment in     *)
(* force, and a load restores what was saved, for any names, values,       *)
(* whitelists, hosts and nesting of restrictions.  A shape version never   *)
(* goes back while a cache may hold it, and what was bound before the seal *)
(* keeps a slot until it, and a pin from then on.                          *)
(***************************************************************************)
EXTENDS GlobalEnv, FiniteSetTheorems, TLAPS

-----------------------------------------------------------------------------
(* What the operations on the global table keep: its slots' names in their *)
(* places, or a later shape version; and the names it has, while it keeps  *)
(* its tombstones.                                                         *)

EnvSlot == [key : Names, val : Values]

(* The global table has no array part and never leaves its map form. *)
EnvTables ==
    [array : {<<>>}, cap : {0}, base : {0}, vlen : {0}, lead : {0}, live : {0},
     hash : Seq(EnvSlot), map : {TRUE}, revive : {TRUE}, retain : BOOLEAN,
     dead : Int, version : Nat]

RawTables ==
    [array : {<<>>}, cap : {0}, base : {0}, vlen : {0}, lead : {0}, live : {0},
     hash : Seq(EnvSlot), map : BOOLEAN, revive : BOOLEAN, retain : BOOLEAN,
     dead : Int, version : Nat]

Distinct(slots) == \A i, j \in DOMAIN slots : slots[i].key = slots[j].key => i = j
NamesIn(slots) == {slots[i].key : i \in DOMAIN slots}

EnvTable(t, p) == t \in EnvTables /\ Distinct(t.hash) /\ (t.retain <=> p # "sealed")

(* A probe of the table in force: its slot has the name, or the slots that *)
(* were there when it was taken do not.                                    *)
ProbeOK(t, n, probe) ==
    /\ probe.version \in Nat /\ probe.version <= t.version
    /\ probe.version = t.version =>
          IF probe.present
          THEN probe.at \in DOMAIN t.hash /\ t.hash[probe.at].key = n
          ELSE probe.at \in 0 .. Len(t.hash) /\ \A i \in 1 .. probe.at : t.hash[i].key # n

(* What an operation on the table in force may do: keep every slot's name *)
(* in its place, or move to a later version.                              *)
SameSlots(t, u) ==
    /\ u.version = t.version /\ DOMAIN t.hash \subseteq DOMAIN u.hash
    /\ \A i \in DOMAIN t.hash : u.hash[i].key = t.hash[i].key

OthersKept(t, u, k) == \A n \in Names : n # k => HashGet(u, n) = HashGet(t, n)

Kept(t, u, p) == EnvTable(u, p) /\ SameSlots(t, u) /\ NamesIn(u.hash) = NamesIn(t.hash)

Moved(t, u) == SameSlots(t, u) \/ u.version > t.version
-----------------------------------------------------------------------------
(* f numbers the positions, and q has the elements in that numbering. *)
Numbered(q, s, at, f) ==
    /\ f \in [DOMAIN q -> at]
    /\ \A i \in DOMAIN q : q[i] = s[f[i]]
    /\ \A i, j \in DOMAIN q : f[i] = f[j] => i = j
    /\ \A p \in at : \E i \in DOMAIN q : f[i] = p

(* The elements picked are those at the positions, each once. *)
LEMMA PickedElements ==
    ASSUME NEW S, NEW s \in Seq(S), NEW at \in SUBSET DOMAIN s
    PROVE  /\ IsFiniteSet(at) /\ Picked(s, at) \in Seq(S)
           /\ \E f : Numbered(Picked(s, at), s, at, f)
  <1> DEFINE n == Cardinality(at)
             upTo(p) == {q \in at : q <= p}
             rank == [p \in at |-> Cardinality(upTo(p))]
             f == [i \in 1 .. n |-> CHOOSE p \in at : Cardinality(upTo(p)) = i]
  <1>1. DOMAIN s = 1 .. Len(s) /\ Len(s) \in Nat
    OBVIOUS
  <1>2. IsFiniteSet(at) /\ n \in Nat
    <2>1. IsFiniteSet(1 .. Len(s))
      BY <1>1, FS_Interval
    <2> QED
      BY <1>1, <2>1, FS_Subset, FS_CardinalityType
  <1>3. \A p \in at : IsFiniteSet(upTo(p)) /\ Cardinality(upTo(p)) \in 1 .. n
    <2> SUFFICES ASSUME NEW p \in at
                 PROVE  IsFiniteSet(upTo(p)) /\ Cardinality(upTo(p)) \in 1 .. n
      BY Zenon
    <2>1. upTo(p) \in SUBSET at /\ p \in upTo(p)
      BY <1>1
    <2>2. IsFiniteSet(upTo(p)) /\ Cardinality(upTo(p)) <= n /\ Cardinality(upTo(p)) \in Nat
      BY <2>1, <1>2, FS_Subset, FS_CardinalityType
    <2>3. Cardinality(upTo(p)) # 0
      BY <2>1, <2>2, FS_EmptySet
    <2> QED
      BY <2>2, <2>3, <1>2
  <1>4. \A p, q \in at : p < q => Cardinality(upTo(p)) # Cardinality(upTo(q))
    <2> SUFFICES ASSUME NEW p \in at, NEW q \in at, p < q
                 PROVE  Cardinality(upTo(p)) # Cardinality(upTo(q))
      OBVIOUS
    <2>1. upTo(p) \in SUBSET upTo(q) /\ q \in upTo(q) /\ q \notin upTo(p)
      BY <1>1
    <2> QED
      BY <2>1, <1>3, FS_Subset, Zenon
  <1>5. rank \in Injection(at, 1 .. n)
    <2>1. rank \in [at -> 1 .. n]
      BY <1>3, Zenon
    <2>2. ASSUME NEW p \in at, NEW q \in at, rank[p] = rank[q] PROVE p = q
      <3>1. p \in Int /\ q \in Int
        BY <1>1
      <3> HIDE DEF upTo
      <3>2. Cardinality(upTo(p)) = Cardinality(upTo(q))
        BY <2>2
      <3> QED
        BY <3>1, <3>2, <1>4
    <2> QED
      BY <2>1, <2>2, Zenon DEF Injection, IsInjective
  <1>6. IsFiniteSet(1 .. n) /\ Cardinality(1 .. n) = n
    BY <1>2, FS_Interval
  <1>7. rank \in Surjection(at, 1 .. n)
    BY <1>5, <1>6, FS_Injection
  <1>8. \A i \in 1 .. n : \E p \in at : Cardinality(upTo(p)) = i
    BY <1>7, Zenon DEF Surjection
  <1>9. \A i \in 1 .. n : f[i] \in at /\ Cardinality(upTo(f[i])) = i
    BY <1>8, Zenon
  <1>10. f \in [1 .. n -> at]
    BY <1>9, Zenon
  <1>11. \A i, j \in 1 .. n : f[i] = f[j] => i = j
    BY <1>9, Zenon
  <1>12. \A p \in at : \E i \in 1 .. n : f[i] = p
    <2> SUFFICES ASSUME NEW p \in at PROVE f[rank[p]] = p
      BY <1>3, Zenon
    <2>1. rank[p] \in 1 .. n /\ Cardinality(upTo(f[rank[p]])) = Cardinality(upTo(p))
      BY <1>3, <1>9, Zenon
    <2>2. f[rank[p]] \in at
      BY <2>1, <1>9, Zenon
    <2>3. f[rank[p]] \in Int /\ p \in Int
      BY <2>2, <1>1
    <2> QED
      BY <2>1, <2>2, <2>3, <1>4
  <1>13. Picked(s, at) = [i \in 1 .. n |-> s[f[i]]]
    BY DEF Picked
  <1>14. Picked(s, at) \in [1 .. n -> S]
    <2> HIDE DEF f
    <2>1. \A i \in 1 .. n : s[f[i]] \in S
      BY <1>10
    <2> QED
      BY <2>1, <1>13
  <1> HIDE DEF f
  <1>15. \A i \in 1 .. n : Picked(s, at)[i] = s[f[i]]
    BY <1>13
  <1>16. Picked(s, at) \in Seq(S) /\ DOMAIN Picked(s, at) = 1 .. n
    BY <1>2, <1>14
  <1>17. Numbered(Picked(s, at), s, at, f)
    BY <1>10, <1>11, <1>12, <1>15, <1>16 DEF Numbered
  <1> QED
    BY <1>2, <1>16, <1>17

LEMMA PickedSlots ==
    ASSUME NEW h \in Seq(EnvSlot), Distinct(h), NEW at \in SUBSET DOMAIN h
    PROVE  /\ Picked(h, at) \in Seq(EnvSlot) /\ Distinct(Picked(h, at))
           /\ \A i \in DOMAIN Picked(h, at) : \E p \in at : Picked(h, at)[i] = h[p]
           /\ \A p \in at : \E i \in DOMAIN Picked(h, at) : Picked(h, at)[i] = h[p]
  <1> DEFINE q == Picked(h, at)
  <1>1. q \in Seq(EnvSlot) /\ \E f : Numbered(q, h, at, f)
    BY PickedElements
  <1> HIDE DEF q
  <1>2. PICK f : Numbered(q, h, at, f)
    BY <1>1
  <1>3. ASSUME NEW i \in DOMAIN q, NEW j \in DOMAIN q, q[i].key = q[j].key
        PROVE  i = j
    <2>1. f[i] \in DOMAIN h /\ f[j] \in DOMAIN h /\ h[f[i]].key = h[f[j]].key
      BY <1>2, <1>3 DEF Numbered
    <2>2. f[i] = f[j]
      BY <2>1 DEF Distinct
    <2> QED
      BY <2>2, <1>2 DEF Numbered
  <1>4. Distinct(q)
    BY <1>3 DEF Distinct
  <1>5. \A i \in DOMAIN q : \E p \in at : q[i] = h[p]
    BY <1>2 DEF Numbered
  <1>6. \A p \in at : \E i \in DOMAIN q : q[i] = h[p]
    BY <1>2 DEF Numbered
  <1> QED
    BY <1>1, <1>4, <1>5, <1>6 DEF q

(* A name has the one slot that holds it. *)
LEMMA SlotHolds ==
    ASSUME NEW t, Distinct(t.hash), NEW i \in DOMAIN t.hash
    PROVE  /\ HasSlot(t, t.hash[i].key) /\ SlotOf(t, t.hash[i].key) = i
           /\ HashGet(t, t.hash[i].key) = t.hash[i].val
  <1>1. HasSlot(t, t.hash[i].key)
    BY DEF HasSlot
  <1>2. SlotOf(t, t.hash[i].key) = i
    BY DEF SlotOf, Distinct
  <1> QED
    BY <1>1, <1>2 DEF HashGet

LEMMA SlotFound ==
    ASSUME NEW t, NEW n, HasSlot(t, n)
    PROVE  SlotOf(t, n) \in DOMAIN t.hash /\ t.hash[SlotOf(t, n)].key = n
  BY DEF HasSlot, SlotOf

LEMMA ValueFound ==
    ASSUME NEW t \in EnvTables, NEW n
    PROVE  HashGet(t, n) \in Values
  <1>1. CASE HasSlot(t, n)
    <2>1. SlotOf(t, n) \in DOMAIN t.hash /\ t.hash \in Seq(EnvSlot)
      BY <1>1, SlotFound DEF EnvTables
    <2>2. t.hash[SlotOf(t, n)] \in EnvSlot
      BY <2>1
    <2> QED
      BY <1>1, <2>2 DEF HashGet, EnvSlot
  <1>2. CASE ~HasSlot(t, n)
    BY <1>2 DEF HashGet, Values
  <1> QED
    BY <1>1, <1>2

(* Two tables whose slot of a name holds the same value agree on it. *)
LEMMA SameValue ==
    ASSUME NEW t, NEW u, NEW n, Distinct(t.hash), Distinct(u.hash),
           \A i \in DOMAIN t.hash : t.hash[i].key = n =>
               \E j \in DOMAIN u.hash : u.hash[j] = t.hash[i],
           \A j \in DOMAIN u.hash : u.hash[j].key = n =>
               \E i \in DOMAIN t.hash : t.hash[i] = u.hash[j]
    PROVE  HashGet(u, n) = HashGet(t, n)
  <1>1. CASE HasSlot(t, n)
    <2>1. PICK i \in DOMAIN t.hash : t.hash[i].key = n
      BY <1>1 DEF HasSlot
    <2>2. PICK j \in DOMAIN u.hash : u.hash[j] = t.hash[i]
      BY <2>1
    <2> QED
      BY <2>1, <2>2, SlotHolds
  <1>2. CASE ~HasSlot(t, n)
    <2>1. ~HasSlot(u, n)
      BY <1>2 DEF HasSlot
    <2> QED
      BY <1>2, <2>1 DEF HashGet
  <1> QED
    BY <1>1, <1>2
-----------------------------------------------------------------------------
(* Operations of the global table *)
LEMMA TableParts ==
    ASSUME NEW p, NEW t, EnvTable(t, p)
    PROVE  /\ t.hash \in Seq(EnvSlot) /\ Distinct(t.hash) /\ t.version \in Nat /\ t.dead \in Int
           /\ t.map /\ t.revive /\ (t.retain <=> p # "sealed")
           /\ t.array = <<>> /\ t.base = 0 /\ t.vlen = 0
           /\ DOMAIN t.hash = 1 .. Len(t.hash) /\ Len(t.hash) \in Nat
           /\ \A i \in DOMAIN t.hash : t.hash[i].key \in Names /\ t.hash[i].val \in Values
  <1>1. t.hash \in Seq(EnvSlot)
    BY DEF EnvTable, EnvTables
  <1>2. \A i \in DOMAIN t.hash : t.hash[i] \in EnvSlot
    BY <1>1
  <1>3. \A i \in DOMAIN t.hash : t.hash[i].key \in Names /\ t.hash[i].val \in Values
    BY <1>2 DEF EnvSlot
  <1>4. DOMAIN t.hash = 1 .. Len(t.hash) /\ Len(t.hash) \in Nat
    BY <1>1
  <1> QED
    BY <1>1, <1>3, <1>4, Zenon DEF EnvTable, EnvTables

(* New slots, at any version *)
LEMMA NewSlots ==
    ASSUME NEW p, NEW t, EnvTable(t, p), NEW h \in Seq(EnvSlot), Distinct(h), NEW d \in Int, NEW w \in Nat
    PROVE  EnvTable([t EXCEPT !.hash = h, !.dead = d, !.version = w], p)
  BY Zenon DEF EnvTable, EnvTables

(* A value stored in a slot *)
LEMMA StoredValue ==
    ASSUME NEW p, NEW t, EnvTable(t, p), NEW i \in DOMAIN t.hash, NEW v \in Values, NEW d \in Int
    PROVE  LET u == [t EXCEPT !.hash[i].val = v, !.dead = d] IN
           /\ Kept(t, u, p)
           /\ HashGet(u, t.hash[i].key) = v
           /\ OthersKept(t, u, t.hash[i].key)
  <1> DEFINE u == [t EXCEPT !.hash[i].val = v, !.dead = d]
             h == [t.hash EXCEPT ![i].val = v]
  <1>1. /\ t.hash \in Seq(EnvSlot) /\ Distinct(t.hash) /\ t.version \in Nat
        /\ t.hash[i].key \in Names /\ t.hash[i].val \in Values
    BY TableParts
  <1>2. /\ h \in Seq(EnvSlot) /\ DOMAIN h = DOMAIN t.hash /\ h[i] = [key |-> t.hash[i].key, val |-> v]
        /\ \A j \in DOMAIN h : j # i => h[j] = t.hash[j]
    <2>0. t.hash[i] \in EnvSlot
      BY <1>1
    <2>1. [t.hash[i] EXCEPT !.val = v] = [key |-> t.hash[i].key, val |-> v]
      BY <2>0 DEF EnvSlot
    <2>2. [key |-> t.hash[i].key, val |-> v] \in EnvSlot
      BY <1>1 DEF EnvSlot
    <2>3. h = [t.hash EXCEPT ![i] = [key |-> t.hash[i].key, val |-> v]]
      BY <2>1
    <2> HIDE DEF h
    <2> QED
      BY <2>2, <2>3, <1>1
  <1>3. u = [t EXCEPT !.hash = h, !.dead = d]
    BY DEF EnvTable, EnvTables
  <1> HIDE DEF h, u
  <1>4. \A j \in DOMAIN h : h[j].key = t.hash[j].key
    BY <1>2
  <1>5. Distinct(h)
    BY <1>1, <1>2, <1>4 DEF Distinct
  <1>6. u.hash = h /\ u.version = t.version
    BY <1>3 DEF EnvTable, EnvTables
  <1>7. EnvTable(u, p)
    <2>1. u = [t EXCEPT !.hash = h, !.dead = d, !.version = t.version]
      BY <1>3, Zenon DEF EnvTable, EnvTables
    <2>2. h \in Seq(EnvSlot) /\ t.version \in Nat
      BY <1>1, <1>2
    <2> QED
      BY <2>1, <2>2, <1>5, NewSlots, Zenon
  <1>8. SameSlots(t, u) /\ NamesIn(u.hash) = NamesIn(t.hash)
    BY <1>2, <1>4, <1>6 DEF SameSlots, NamesIn
  <1>9. HashGet(u, t.hash[i].key) = v
    <2>0. Distinct(u.hash) /\ i \in DOMAIN u.hash
      BY <1>2, <1>5, <1>6
    <2>1. HashGet(u, u.hash[i].key) = u.hash[i].val
      BY <2>0, SlotHolds, Zenon
    <2> QED
      BY <2>1, <1>2, <1>6
  <1>10. ASSUME NEW n \in Names, n # t.hash[i].key
         PROVE  HashGet(u, n) = HashGet(t, n)
    <2>1. \A j \in DOMAIN t.hash : t.hash[j].key = n => \E k \in DOMAIN u.hash : u.hash[k] = t.hash[j]
      BY <1>2, <1>6, <1>10
    <2>2. \A j \in DOMAIN u.hash : u.hash[j].key = n => \E k \in DOMAIN t.hash : t.hash[k] = u.hash[j]
      BY <1>2, <1>6, <1>10
    <2>3. Distinct(u.hash)
      BY <1>5, <1>6
    <2> QED
      BY <2>1, <2>2, <2>3, <1>1, SameValue, Zenon
  <1> QED
    BY <1>7, <1>8, <1>9, <1>10 DEF u, Kept, OthersKept

LEMMA BumpedGrows ==
    ASSUME NEW w \in Nat, w + 1 < VersionSpace
    PROVE  Bumped(w) = w + 1
  BY TableOpsAssumption DEF Bumped

LEMMA Removed ==
    ASSUME NEW p, NEW t, EnvTable(t, p), NEW n \in Names
    PROVE  Kept(t, HashRemove(t, n), p)
  <1>1. CASE HashGet(t, n) = Nil
    BY <1>1 DEF HashRemove, SameSlots, Kept
  <1>2. CASE HashGet(t, n) # Nil
    <2>1. SlotOf(t, n) \in DOMAIN t.hash
      BY <1>2, SlotFound DEF HashGet
    <2>2. HashRemove(t, n) = [t EXCEPT !.hash[SlotOf(t, n)].val = Nil, !.dead = t.dead + 1]
      BY <1>2 DEF HashRemove
    <2>3. Nil \in Values /\ t.dead + 1 \in Int
      BY TableParts DEF Values
    <2>4. Kept(t, [t EXCEPT !.hash[SlotOf(t, n)].val = Nil, !.dead = t.dead + 1], p)
      BY <2>1, <2>3, StoredValue, Zenon
    <2> QED
      BY <2>2, <2>4
  <1> QED
    BY <1>1, <1>2

LEMMA Compacted ==
    ASSUME NEW p, NEW t, EnvTable(t, p), t.version + 1 < VersionSpace
    PROVE  LET u == CompactDead(t)
           IN  /\ EnvTable(u, p) /\ Moved(t, u) /\ NamesIn(u.hash) \subseteq NamesIn(t.hash)
               /\ p # "sealed" => u = t
  <1>1. CASE CompactDead(t) = t
    BY <1>1 DEF Moved, SameSlots
  <1>2. CASE CompactDead(t) # t
    <2> DEFINE h == Picked(t.hash, LiveSlots(t))
    <2>1. t.retain = FALSE /\ CompactDead(t) = [t EXCEPT !.hash = h, !.dead = 0, !.version = Bumped(t.version)]
      BY <1>2, TableParts, Zenon DEF CompactDead, EnvTable, EnvTables
    <2>2. Bumped(t.version) = t.version + 1 /\ t.version \in Nat
      BY TableParts, BumpedGrows
    <2>3. /\ h \in Seq(EnvSlot) /\ Distinct(h)
          /\ \A j \in DOMAIN h : \E i \in DOMAIN t.hash : h[j] = t.hash[i]
      <3>1. t.hash \in Seq(EnvSlot) /\ Distinct(t.hash) /\ LiveSlots(t) \in SUBSET DOMAIN t.hash
        BY TableParts DEF LiveSlots
      <3> QED
        BY <3>1, PickedSlots
    <2> HIDE DEF h
    <2>4. CompactDead(t) = [t EXCEPT !.hash = h, !.dead = 0, !.version = t.version + 1]
      BY <2>1, <2>2
    <2>5. EnvTable(CompactDead(t), p)
      <3>1. 0 \in Int /\ t.version + 1 \in Nat
        BY <2>2
      <3>2. EnvTable([t EXCEPT !.hash = h, !.dead = 0, !.version = t.version + 1], p)
        BY <3>1, <2>3, NewSlots, Zenon
      <3> QED
        BY <3>2, <2>4
    <2>6. CompactDead(t).hash = h /\ CompactDead(t).version = t.version + 1
      BY <2>4 DEF EnvTable, EnvTables
    <2>7. NamesIn(h) \subseteq NamesIn(t.hash)
      BY <2>3 DEF NamesIn
    <2>8. p = "sealed"
      BY <2>1, TableParts
    <2> QED
      BY <2>2, <2>5, <2>6, <2>7, <2>8 DEF Moved
  <1> QED
    BY <1>1, <1>2

LEMMA Appended ==
    ASSUME NEW p, NEW t, EnvTable(t, p), NEW n \in Names, NEW v \in Values, n \notin NamesIn(t.hash)
    PROVE  LET u == AddSlot(t, n, v)
           IN  EnvTable(u, p) /\ SameSlots(t, u) /\ NamesIn(u.hash) = NamesIn(t.hash) \cup {n}
  <1> DEFINE slot == [key |-> n, val |-> v]
             h == Append(t.hash, slot)
  <1>1. slot \in EnvSlot /\ slot.key = n
    BY DEF EnvSlot
  <1> HIDE DEF slot
  <1>2. /\ t.hash \in Seq(EnvSlot) /\ Distinct(t.hash) /\ t.version \in Nat /\ t.dead \in Int
        /\ DOMAIN t.hash = 1 .. Len(t.hash) /\ Len(t.hash) \in Nat
    BY TableParts
  <1>3. /\ h \in Seq(EnvSlot) /\ DOMAIN h = 1 .. Len(t.hash) + 1 /\ h[Len(t.hash) + 1] = slot
        /\ \A i \in DOMAIN t.hash : h[i] = t.hash[i]
    BY <1>1, <1>2
  <1>4. AddSlot(t, n, v) = [t EXCEPT !.hash = h, !.dead = t.dead, !.version = t.version]
    BY Zenon DEF AddSlot, EnvTable, EnvTables, slot
  <1> HIDE DEF h
  <1>5. \A i \in DOMAIN h : i \in DOMAIN t.hash \/ i = Len(t.hash) + 1
    BY <1>2, <1>3
  <1>6. \A i \in DOMAIN t.hash : h[i].key # n
    BY <1>3 DEF NamesIn
  <1>7. Distinct(h)
    BY <1>1, <1>2, <1>3, <1>5, <1>6 DEF Distinct
  <1>8. AddSlot(t, n, v).hash = h /\ AddSlot(t, n, v).version = t.version
    BY <1>4 DEF EnvTable, EnvTables
  <1>9. EnvTable(AddSlot(t, n, v), p)
    <2>1. EnvTable([t EXCEPT !.hash = h, !.dead = t.dead, !.version = t.version], p)
      BY <1>2, <1>3, <1>7, NewSlots, Zenon
    <2> QED
      BY <2>1, <1>4
  <1>10. DOMAIN t.hash \subseteq DOMAIN h
    BY <1>2, <1>3
  <1>11. NamesIn(h) = NamesIn(t.hash) \cup {n}
    <2>1. Len(t.hash) + 1 \in DOMAIN h
      BY <1>2, <1>3
    <2> QED
      BY <2>1, <1>1, <1>3, <1>5, <1>10 DEF NamesIn
  <1> QED
    BY <1>3, <1>8, <1>9, <1>10, <1>11 DEF SameSlots

(* What Insert does to the global table: it adds the name, or stores in its *)
(* slot, and a table that keeps its tombstones loses no name.               *)
Added(t, u, n, v, p) ==
    /\ EnvTable(u, p) /\ Moved(t, u)
    /\ p # "sealed" => NamesIn(t.hash) \subseteq NamesIn(u.hash)
    /\ p # "sealed" /\ v # Nil => n \in NamesIn(u.hash)

LEMMA KeptIsAdded ==
    ASSUME NEW p, NEW t, NEW u, NEW n, NEW v, Kept(t, u, p), v = Nil \/ n \in NamesIn(t.hash)
    PROVE  Added(t, u, n, v, p)
  BY DEF Kept, Added, Moved

LEMMA StoredInSlot ==
    ASSUME NEW p, NEW t, EnvTable(t, p), NEW n \in Names, NEW v \in Values, HasSlot(t, n), NEW d \in Int
    PROVE  Added(t, [t EXCEPT !.hash[SlotOf(t, n)].val = v, !.dead = d], n, v, p)
  <1>1. SlotOf(t, n) \in DOMAIN t.hash /\ t.hash[SlotOf(t, n)].key = n
    BY SlotFound
  <1>2. n \in NamesIn(t.hash)
    BY <1>1 DEF NamesIn
  <1>3. Kept(t, [t EXCEPT !.hash[SlotOf(t, n)].val = v, !.dead = d], p)
    BY <1>1, StoredValue, Zenon
  <1> QED
    BY <1>2, <1>3, KeptIsAdded, Zenon

LEMMA InsertedInMap ==
    ASSUME NEW p, NEW t, EnvTable(t, p), NEW n \in Names, NEW v \in Values,
           t.version + 1 < VersionSpace
    PROVE  Added(t, InsertMap(t, n, v), n, v, p)
  <1>1. CASE HasSlot(t, n)
    <2>1. InsertMap(t, n, v) = [t EXCEPT !.hash[SlotOf(t, n)].val = v, !.dead = t.dead - 1]
      BY <1>1, TableParts DEF InsertMap
    <2>2. t.dead - 1 \in Int
      BY TableParts
    <2>3. Added(t, [t EXCEPT !.hash[SlotOf(t, n)].val = v, !.dead = t.dead - 1], n, v, p)
      BY <1>1, <2>2, StoredInSlot, Zenon
    <2> QED
      BY <2>1, <2>3
  <1>2. CASE ~HasSlot(t, n)
    <2> DEFINE c == IF t.dead >= HashLive(t) THEN CompactDead(t) ELSE t
    <2>1. InsertMap(t, n, v) = AddSlot(c, n, v)
      BY <1>2 DEF InsertMap
    <2>2. /\ EnvTable(c, p) /\ Moved(t, c) /\ NamesIn(c.hash) \subseteq NamesIn(t.hash)
          /\ p # "sealed" => c = t
      BY Compacted DEF Moved, SameSlots
    <2> HIDE DEF c
    <2>3. n \notin NamesIn(c.hash)
      BY <1>2, <2>2, Zenon DEF HasSlot, NamesIn
    <2> DEFINE u == AddSlot(c, n, v)
    <2>4. EnvTable(u, p) /\ SameSlots(c, u) /\ NamesIn(u.hash) = NamesIn(c.hash) \cup {n}
      BY <2>2, <2>3, Appended
    <2> HIDE DEF u
    <2>5. c.version \in Nat /\ t.version \in Nat
      BY <2>2, TableParts
    <2>6. Moved(t, u)
      BY <2>2, <2>4, <2>5 DEF Moved, SameSlots
    <2>7. Added(t, u, n, v, p)
      BY <2>2, <2>4, <2>6 DEF Added
    <2> QED
      BY <2>1, <2>7 DEF u
  <1> QED
    BY <1>1, <1>2

LEMMA Inserted ==
    ASSUME NEW p, NEW t, EnvTable(t, p), NEW n \in Names, NEW v \in Values, NEW memory,
           t.version + 1 < VersionSpace
    PROVE  Added(t, Insert(t, n, v, memory).t, n, v, p)
  <1>1. ~InWindow(t, n) /\ ~IsArrayKey(t, n) /\ n # t.vlen + 1
    BY TableParts, TableOpsAssumption DEF InWindow, IsArrayKey
  <1>2. CASE v = Nil
    <2>1. Insert(t, n, v, memory).t = HashRemove(t, n)
      BY <1>1, <1>2 DEF Insert, Done
    <2>2. Kept(t, HashRemove(t, n), p)
      BY Removed
    <2> QED
      BY <1>2, <2>1, <2>2, KeptIsAdded
  <1>3. CASE v # Nil
    <2>1. Insert(t, n, v, memory).t = InsertHash(t, n, v)
      BY <1>1, <1>3 DEF Insert, Done
    <2>2. CASE HashGet(t, n) # Nil
      <3>1. HasSlot(t, n)
        BY <2>2 DEF HashGet
      <3>2. InsertHash(t, n, v) = [t EXCEPT !.hash[SlotOf(t, n)].val = v, !.dead = t.dead]
        BY <2>2, Zenon DEF InsertHash, EnvTable, EnvTables
      <3>3. t.dead \in Int
        BY TableParts
      <3>4. Added(t, [t EXCEPT !.hash[SlotOf(t, n)].val = v, !.dead = t.dead], n, v, p)
        BY <3>1, <3>3, StoredInSlot, Zenon
      <3> QED
        BY <2>1, <3>2, <3>4
    <2>3. CASE HashGet(t, n) = Nil
      <3>1. InsertHash(t, n, v) = InsertMap(t, n, v)
        BY <2>3, TableParts DEF InsertHash
      <3>2. Added(t, InsertMap(t, n, v), n, v, p)
        BY InsertedInMap
      <3> QED
        BY <2>1, <3>1, <3>2
    <2> QED
      BY <2>2, <2>3
  <1> QED
    BY <1>2, <1>3

(* Probes *)
LEMMA ProbeMoved ==
    ASSUME NEW p, NEW q, NEW t, NEW u, EnvTable(t, p), EnvTable(u, q), Moved(t, u),
           NEW n, NEW probe, ProbeOK(t, n, probe)
    PROVE  ProbeOK(u, n, probe)
  <1>1. /\ t.version \in Nat /\ u.version \in Nat
        /\ DOMAIN t.hash = 1 .. Len(t.hash) /\ Len(t.hash) \in Nat
        /\ DOMAIN u.hash = 1 .. Len(u.hash) /\ Len(u.hash) \in Nat
    BY TableParts
  <1>2. CASE u.version > t.version
    BY <1>1, <1>2 DEF ProbeOK
  <1>3. CASE SameSlots(t, u)
    <2>1. u.version = t.version /\ Len(t.hash) <= Len(u.hash)
      BY <1>1, <1>3 DEF SameSlots
    <2>2. CASE probe.version # t.version
      BY <1>1, <2>1, <2>2 DEF ProbeOK
    <2>3. CASE probe.version = t.version /\ probe.present
      <3>1. probe.at \in DOMAIN t.hash /\ t.hash[probe.at].key = n
        BY <2>3, Zenon DEF ProbeOK
      <3>2. probe.at \in DOMAIN u.hash /\ u.hash[probe.at].key = n
        BY <1>3, <3>1, Zenon DEF SameSlots
      <3> QED
        BY <2>1, <2>3, <3>2, Zenon DEF ProbeOK
    <2>4. CASE probe.version = t.version /\ ~probe.present
      <3>1. probe.at \in 0 .. Len(t.hash) /\ \A i \in 1 .. probe.at : t.hash[i].key # n
        BY <2>4, Zenon DEF ProbeOK
      <3>2. probe.at \in 0 .. Len(u.hash) /\ 1 .. probe.at \subseteq DOMAIN t.hash
        BY <1>1, <2>1, <3>1
      <3>3. \A i \in 1 .. probe.at : u.hash[i].key # n
        BY <1>3, <3>1, <3>2, Zenon DEF SameSlots
      <3> QED
        BY <2>1, <2>4, <3>2, <3>3, Zenon DEF ProbeOK
    <2> QED
      BY <2>2, <2>3, <2>4
  <1> QED
    BY <1>2, <1>3, Zenon DEF Moved

LEMMA ProbeTaken ==
    ASSUME NEW p, NEW t, EnvTable(t, p), NEW n
    PROVE  ProbeOK(t, n, ProbeHash(t, n))
  <1>1. t.version \in Nat /\ DOMAIN t.hash = 1 .. Len(t.hash) /\ Len(t.hash) \in Nat
    BY TableParts
  <1>2. CASE HasSlot(t, n)
    BY <1>1, <1>2, SlotFound DEF ProbeOK, ProbeHash
  <1>3. CASE ~HasSlot(t, n)
    <2>1. \A i \in DOMAIN t.hash : t.hash[i].key # n
      BY <1>3 DEF HasSlot
    <2> QED
      BY <1>1, <1>3, <2>1 DEF ProbeOK, ProbeHash
  <1> QED
    BY <1>2, <1>3

LEMMA ProbeAnswers ==
    ASSUME NEW p, NEW t, EnvTable(t, p), NEW n, NEW probe, ProbeOK(t, n, probe), ReadProbe(t, probe).hit
    PROVE  ReadProbe(t, probe).val = HashGet(t, n)
  <1>1. Distinct(t.hash) /\ DOMAIN t.hash = 1 .. Len(t.hash) /\ Len(t.hash) \in Nat
    BY TableParts
  <1>2. probe.version = t.version
    BY DEF ReadProbe, Miss
  <1>3. CASE probe.present
    <2>1. probe.at \in DOMAIN t.hash /\ t.hash[probe.at].key = n
      BY <1>2, <1>3 DEF ProbeOK
    <2>2. HashGet(t, n) = t.hash[probe.at].val
      BY <1>1, <2>1, SlotHolds
    <2> QED
      BY <1>2, <1>3, <2>1, <2>2 DEF ReadProbe, Answer
  <1>4. CASE ~probe.present
    <2>1. probe.at = Len(t.hash) /\ ReadProbe(t, probe).val = Nil
      BY <1>2, <1>4 DEF ReadProbe, Miss, Answer
    <2>2. \A i \in DOMAIN t.hash : t.hash[i].key # n
      BY <1>1, <1>2, <1>4, <2>1 DEF ProbeOK
    <2> QED
      BY <2>1, <2>2 DEF HashGet, HasSlot
  <1> QED
    BY <1>3, <1>4

LEMMA StoredThroughProbe ==
    ASSUME NEW p, NEW t, EnvTable(t, p), NEW n \in Names, NEW v \in Values,
           NEW probe, ProbeOK(t, n, probe), StoreProbe(t, probe, v).ok
    PROVE  /\ Added(t, StoreProbe(t, probe, v).t, n, v, p)
           /\ OthersKept(t, StoreProbe(t, probe, v).t, n)
  <1> DEFINE d == t.dead + One(t.hash[probe.at].val) - One(v)
  <1>1. probe.version = t.version /\ probe.present /\ probe.at \in DOMAIN t.hash
    BY DEF StoreProbe, Failed
  <1>2. StoreProbe(t, probe, v).t = [t EXCEPT !.hash[probe.at].val = v, !.dead = d]
    BY DEF StoreProbe, Failed, Done
  <1>3. t.hash[probe.at].key = n
    BY <1>1 DEF ProbeOK
  <1>4. d \in Int
    BY TableParts DEF One
  <1> HIDE DEF d
  <1>5. Kept(t, [t EXCEPT !.hash[probe.at].val = v, !.dead = d], p)
    BY <1>1, <1>4, StoredValue, Zenon
  <1>6. OthersKept(t, [t EXCEPT !.hash[probe.at].val = v, !.dead = d], n)
    BY <1>1, <1>3, <1>4, StoredValue, Zenon
  <1>7. n \in NamesIn(t.hash)
    BY <1>1, <1>3 DEF NamesIn
  <1>8. Added(t, [t EXCEPT !.hash[probe.at].val = v, !.dead = d], n, v, p)
    BY <1>5, <1>7, KeptIsAdded, Zenon
  <1> QED
    BY <1>2, <1>6, <1>8

(* The keyed write, on the table in force *)
LEMMA KeyedWrite ==
    ASSUME EnvTable(g, phase), g.version + 1 < VersionSpace, NEW n \in Names, NEW v \in Values
    PROVE  Added(g, WriteKeyed(n, v), n, v, phase)
  <1>1. CASE HasSlot(g, n)
    <2>1. ProbeOK(g, n, ProbeHash(g, n))
      BY ProbeTaken
    <2>2. SlotOf(g, n) \in DOMAIN g.hash /\ g.hash[SlotOf(g, n)].key # Vacant
      BY <1>1, SlotFound, TableOpsAssumption
    <2>3. StoreProbe(g, ProbeHash(g, n), v).ok
      BY <1>1, <2>2 DEF StoreProbe, ProbeHash, Done
    <2>4. Added(g, StoreProbe(g, ProbeHash(g, n), v).t, n, v, phase)
      BY <2>1, <2>3, StoredThroughProbe, Zenon
    <2> QED
      BY <1>1, <2>4 DEF WriteKeyed
  <1>2. CASE ~HasSlot(g, n) /\ v # Nil
    BY <1>2, Inserted DEF WriteKeyed
  <1>3. CASE ~HasSlot(g, n) /\ v = Nil
    <2>1. Kept(g, g, phase)
      BY DEF Kept, SameSlots
    <2> QED
      BY <1>3, <2>1, KeptIsAdded DEF WriteKeyed
  <1> QED
    BY <1>1, <1>2, <1>3

(* Whole tables *)
LEMMA Policed ==
    ASSUME NEW t \in RawTables, Distinct(t.hash), NEW q
    PROVE  /\ EnvTable(SlotPolicyOf(t, q), q)
           /\ SlotPolicyOf(t, q).hash = t.hash /\ SlotPolicyOf(t, q).version = t.version
  <1>1. SlotPolicyOf(t, q) = [t EXCEPT !.map = TRUE, !.revive = TRUE, !.retain = (q # "sealed")]
    BY DEF SlotPolicyOf, SetSlotPolicy
  <1>2. SlotPolicyOf(t, q).hash = t.hash /\ SlotPolicyOf(t, q).version = t.version
    BY <1>1 DEF RawTables
  <1>3. EnvTable(SlotPolicyOf(t, q), q)
    BY <1>1, Zenon DEF EnvTable, EnvTables, RawTables
  <1> QED
    BY <1>2, <1>3

LEMMA Fresh ==
    ASSUME NEW p
    PROVE  EnvTable(FreshTable(p), p) /\ FreshTable(p).hash = <<>> /\ FreshTable(p).version = 0
  <1>1. <<>> \in Seq(EnvSlot) /\ DOMAIN <<>> = {}
    OBVIOUS
  <1>2. EmptyTable \in RawTables /\ EmptyTable.hash = <<>> /\ EmptyTable.version = 0
    BY <1>1 DEF EmptyTable, RawTables
  <1>3. SizedTable(TRUE) \in RawTables /\ SizedTable(TRUE).hash = <<>> /\ SizedTable(TRUE).version = 0
    BY <1>2, Zenon DEF SizedTable, RawTables
  <1>4. Distinct(SizedTable(TRUE).hash)
    BY <1>1, <1>3, Zenon DEF Distinct
  <1> QED
    BY <1>3, <1>4, Policed, Zenon DEF FreshTable

LEMMA Repoliced ==
    ASSUME NEW p, NEW q, NEW t, EnvTable(t, p)
    PROVE  /\ EnvTable(SlotPolicyOf(t, q), q) /\ Moved(t, SlotPolicyOf(t, q))
           /\ SlotPolicyOf(t, q).hash = t.hash
  <1>1. t \in RawTables /\ Distinct(t.hash)
    BY Zenon DEF EnvTable, EnvTables, RawTables
  <1>2. /\ EnvTable(SlotPolicyOf(t, q), q)
        /\ SlotPolicyOf(t, q).hash = t.hash /\ SlotPolicyOf(t, q).version = t.version
    BY <1>1, Policed
  <1> QED
    BY <1>2 DEF Moved, SameSlots

LEMMA SwappedIn ==
    ASSUME NEW p, NEW q, NEW t, NEW u, EnvTable(t, p), EnvTable(u, q),
           t.version + 1 < VersionSpace, u.version + 1 < VersionSpace
    PROVE  /\ EnvTable(SwapIn(t, u), q) /\ Moved(t, SwapIn(t, u))
           /\ SwapIn(t, u).hash = u.hash
  <1> DEFINE w == Bumped(Max({u.version, t.version}))
  <1>1. t.version \in Nat /\ u.version \in Nat
    BY TableParts
  <1>2. Max({u.version, t.version}) = IF u.version >= t.version THEN u.version ELSE t.version
    BY <1>1 DEF Max
  <1>3. w \in Nat /\ w > t.version
    <2>1. PICK m \in Nat : m = Max({u.version, t.version}) /\ m >= t.version /\ m + 1 < VersionSpace
      BY <1>1, <1>2
    <2> QED
      BY <2>1, <1>1, BumpedGrows
  <1>4. SwapIn(t, u) = [u EXCEPT !.version = w]
    BY DEF SwapIn
  <1> HIDE DEF w
  <1>5. SwapIn(t, u).hash = u.hash /\ SwapIn(t, u).version = w
    BY <1>4 DEF EnvTable, EnvTables
  <1>6. EnvTable(SwapIn(t, u), q)
    BY <1>3, <1>4, Zenon DEF EnvTable, EnvTables
  <1> QED
    BY <1>3, <1>5, <1>6 DEF Moved

LEMMA LoadedTable ==
    ASSUME NEW p, NEW q, NEW t, EnvTable(t, p), t.version + 1 < VersionSpace,
           NEW h \in Seq(EnvSlot), Distinct(h)
    PROVE  LET u == SlotPolicyOf(Reloaded([t EXCEPT !.hash = h]), q)
           IN  EnvTable(u, q) /\ u.hash = h /\ Moved(t, u)
  <1> DEFINE s == [t EXCEPT !.hash = h]
             dead == {i \in DOMAIN s.hash : ~IsLive(s.hash[i])}
             u == SlotPolicyOf(Reloaded(s), q)
  <1>1. s \in EnvTables /\ s.hash = h /\ s.version = t.version /\ s.array = <<>> /\ s.base = 0
    BY Zenon DEF EnvTable, EnvTables
  <1>2. Bumped(t.version) = t.version + 1 /\ t.version \in Nat
    <2>1. t.version \in Nat
      BY TableParts
    <2> QED
      BY <2>1, BumpedGrows
  <1>3. Cardinality(dead) \in Int
    <2>1. h \in Seq(EnvSlot) /\ DOMAIN h = 1 .. Len(h) /\ Len(h) \in Nat
      OBVIOUS
    <2>2. IsFiniteSet(DOMAIN h)
      BY <2>1, FS_Interval
    <2>3. IsFiniteSet(dead)
      BY <1>1, <2>2, FS_Subset
    <2> QED
      BY <2>3, FS_CardinalityType
  <1>4. LivePositions(s) = {} /\ Cardinality({}) = 0 /\ Len(<<>>) = 0
    BY <1>1, FS_EmptySet DEF LivePositions
  <1> HIDE DEF s
  <1>5. Reloaded(s) = [s EXCEPT !.array = <<>>, !.cap = 0, !.lead = 0, !.base = 0, !.live = 0,
                                !.revive = FALSE, !.retain = FALSE,
                                !.dead = Cardinality(dead), !.version = t.version + 1]
    BY <1>1, <1>2, <1>4, Zenon DEF Reloaded
  <1> HIDE DEF dead
  <1>6. Reloaded(s) \in RawTables /\ Reloaded(s).hash = h /\ Reloaded(s).version = t.version + 1
    <2>1. Cardinality(dead) \in Int /\ t.version + 1 \in Nat
      BY <1>2, <1>3
    <2>2. s.hash = h /\ s \in EnvTables
      BY <1>1
    <2>3. Reloaded(s) \in RawTables
      BY <2>1, <2>2, <1>5, Zenon DEF EnvTables, RawTables
    <2>4. Reloaded(s).hash = h
      BY <2>2, <1>5 DEF EnvTables
    <2>5. Reloaded(s).version = t.version + 1
      BY <2>2, <1>5 DEF EnvTables
    <2> QED
      BY <2>3, <2>4, <2>5
  <1>7. EnvTable(u, q) /\ u.hash = h /\ u.version = t.version + 1
    BY <1>6, Policed
  <1> HIDE DEF u
  <1>8. EnvTable(u, q) /\ u.hash = h /\ Moved(t, u)
    BY <1>2, <1>7 DEF Moved
  <1> QED
    BY <1>8 DEF u, s

LEMMA RestrictedTable ==
    ASSUME EnvTable(g, phase), NEW list \in Whitelists
    PROVE  EnvTable(Restricted(list), "sealed") /\ Restricted(list).version = 0
  <1> DEFINE s == [i \in DOMAIN list |-> [key |-> list[i], val |-> HashGet(g, list[i])]]
             at == Admitted(list)
             q == Picked(s, at)
  <1>1. list \in Seq(Names) /\ DOMAIN list = 1 .. Len(list) /\ Len(list) \in Nat
    BY GlobalEnvAssumption
  <1>2. \A i \in DOMAIN list : list[i] \in Names /\ HashGet(g, list[i]) \in Values
    BY <1>1, ValueFound DEF EnvTable
  <1>3. s \in Seq(EnvSlot)
    BY <1>1, <1>2 DEF EnvSlot
  <1>4. at \in SUBSET DOMAIN s
    BY DEF Admitted
  <1>5. \A i, j \in at : list[i] = list[j] => i = j
    BY <1>1 DEF Admitted
  <1>6. \A i \in at : s[i].key = list[i]
    BY <1>4
  <1> HIDE DEF s, at
  <1>7. q \in Seq(EnvSlot) /\ \E f : Numbered(q, s, at, f)
    BY <1>3, <1>4, PickedElements
  <1> HIDE DEF q
  <1>8. PICK f : Numbered(q, s, at, f)
    BY <1>7
  <1>9. Distinct(q)
    BY <1>5, <1>6, <1>8 DEF Numbered, Distinct
  <1>10. EnvTable(FreshTable("sealed"), "sealed") /\ FreshTable("sealed").version = 0
    BY Fresh
  <1>11. Restricted(list) = [FreshTable("sealed") EXCEPT !.hash = q]
    BY DEF Restricted, q, s, at
  <1> QED
    BY <1>7, <1>9, <1>10, <1>11, Zenon DEF EnvTable, EnvTables

LEMMA NamesListed ==
    ASSUME NEW h \in Seq(EnvSlot), Distinct(h), NEW names
    PROVE  LET list == KeysOf(Picked(h, Keyed(h, names)))
           IN  list \in Seq(Names) /\ Range(list) = NamesIn(h) \cap names
  <1> DEFINE at == Keyed(h, names)
             q == Picked(h, at)
             list == KeysOf(q)
  <1>1. at \in SUBSET DOMAIN h /\ \A i \in DOMAIN h : i \in at <=> h[i].key \in names
    BY DEF Keyed
  <1> HIDE DEF at
  <1>2. /\ q \in Seq(EnvSlot)
        /\ \A i \in DOMAIN q : \E p \in at : q[i] = h[p]
        /\ \A p \in at : \E i \in DOMAIN q : q[i] = h[p]
    BY <1>1, PickedSlots
  <1> HIDE DEF q
  <1>3. DOMAIN q = 1 .. Len(q) /\ Len(q) \in Nat /\ \A i \in DOMAIN q : q[i] \in EnvSlot
    BY <1>2
  <1>4. \A i \in DOMAIN q : q[i].key \in Names
    BY <1>3 DEF EnvSlot
  <1>5. list \in Seq(Names) /\ DOMAIN list = DOMAIN q /\ \A i \in DOMAIN q : list[i] = q[i].key
    BY <1>3, <1>4 DEF KeysOf
  <1> HIDE DEF list
  <1>6. Range(list) \subseteq NamesIn(h) \cap names
    <2> SUFFICES ASSUME NEW i \in DOMAIN q
                 PROVE  q[i].key \in NamesIn(h) \cap names
      BY <1>5 DEF Range
    <2>1. PICK p \in at : q[i] = h[p]
      BY <1>2
    <2> QED
      BY <2>1, <1>1 DEF NamesIn
  <1>7. NamesIn(h) \cap names \subseteq Range(list)
    BY <1>1, <1>2, <1>5 DEF Range, NamesIn
  <1> QED
    BY <1>5, <1>6, <1>7 DEF list, q, at

(* The slots a load leaves: the saved ones, then what setup added *)
Joins(all, s, h, taken) ==
    /\ all \in Seq(EnvSlot) /\ Distinct(all)
    /\ NamesIn(all) = NamesIn(s) \cup (NamesIn(h) \ taken)
    /\ DOMAIN s \subseteq DOMAIN all /\ \A i \in DOMAIN s : all[i] = s[i]

LEMMA Joined ==
    ASSUME NEW s \in Seq(EnvSlot), Distinct(s), NEW h \in Seq(EnvSlot), Distinct(h),
           NEW taken, NamesIn(s) \subseteq taken
    PROVE  Joins(s \o Picked(h, Keyed(h, Names \ taken)), s, h, taken)
  <1> DEFINE at == Keyed(h, Names \ taken)
             q == Picked(h, at)
             all == s \o q
  <1>1. at \in SUBSET DOMAIN h /\ \A i \in DOMAIN h : i \in at <=> h[i].key \notin taken
    <2>1. \A i \in DOMAIN h : h[i] \in EnvSlot
      OBVIOUS
    <2> QED
      BY <2>1 DEF Keyed, EnvSlot
  <1> HIDE DEF at
  <1>2. /\ q \in Seq(EnvSlot) /\ Distinct(q)
        /\ \A i \in DOMAIN q : \E p \in at : q[i] = h[p]
        /\ \A p \in at : \E i \in DOMAIN q : q[i] = h[p]
    BY <1>1, PickedSlots
  <1> HIDE DEF q
  <1>3. /\ DOMAIN s = 1 .. Len(s) /\ Len(s) \in Nat /\ DOMAIN q = 1 .. Len(q) /\ Len(q) \in Nat
        /\ all \in Seq(EnvSlot) /\ DOMAIN all = 1 .. Len(s) + Len(q)
    BY <1>2
  <1>4. \A i \in DOMAIN s : i \in DOMAIN all /\ all[i] = s[i]
    BY <1>2, <1>3
  <1>5. \A i \in DOMAIN q : Len(s) + i \in DOMAIN all /\ all[Len(s) + i] = q[i]
    BY <1>2, <1>3
  <1> HIDE DEF all
  <1>6. \A i \in DOMAIN all : i \in DOMAIN s \/ (i - Len(s) \in DOMAIN q /\ Len(s) + (i - Len(s)) = i)
    BY <1>3
  <1>7. \A i \in DOMAIN q : q[i].key \notin taken
    BY <1>1, <1>2
  <1>8. \A i \in DOMAIN s, j \in DOMAIN q : s[i].key # q[j].key
    BY <1>7 DEF NamesIn
  <1>9. Distinct(all)
    <2> SUFFICES ASSUME NEW i \in DOMAIN all, NEW j \in DOMAIN all, all[i].key = all[j].key
                 PROVE  i = j
      BY DEF Distinct
    <2>1. CASE i \in DOMAIN s /\ j \in DOMAIN s
      BY <2>1, <1>4 DEF Distinct
    <2>2. CASE i \in DOMAIN s /\ j \notin DOMAIN s
      BY <2>2, <1>4, <1>5, <1>6, <1>8
    <2>3. CASE i \notin DOMAIN s /\ j \in DOMAIN s
      BY <2>3, <1>4, <1>5, <1>6, <1>8
    <2>4. CASE i \notin DOMAIN s /\ j \notin DOMAIN s
      <3>1. q[i - Len(s)].key = q[j - Len(s)].key /\ i - Len(s) \in DOMAIN q /\ j - Len(s) \in DOMAIN q
        BY <2>4, <1>5, <1>6
      <3>2. i - Len(s) = j - Len(s)
        BY <3>1, <1>2 DEF Distinct
      <3> QED
        BY <3>2, <1>3
    <2> QED
      BY <2>1, <2>2, <2>3, <2>4
  <1>10. NamesIn(all) \subseteq NamesIn(s) \cup (NamesIn(h) \ taken)
    <2> SUFFICES ASSUME NEW i \in DOMAIN all
                 PROVE  all[i].key \in NamesIn(s) \cup (NamesIn(h) \ taken)
      BY DEF NamesIn
    <2>1. CASE i \in DOMAIN s
      BY <2>1, <1>4 DEF NamesIn
    <2>2. CASE i \notin DOMAIN s
      <3>1. i - Len(s) \in DOMAIN q /\ all[i] = q[i - Len(s)]
        BY <2>2, <1>5, <1>6
      <3> QED
        BY <3>1, <1>1, <1>2, <1>7 DEF NamesIn
    <2> QED
      BY <2>1, <2>2
  <1>11. NamesIn(s) \subseteq NamesIn(all)
    BY <1>4 DEF NamesIn
  <1>12. NamesIn(h) \ taken \subseteq NamesIn(all)
    BY <1>1, <1>2, <1>5 DEF NamesIn
  <1> QED
    BY <1>3, <1>4, <1>9, <1>10, <1>11, <1>12, Zenon DEF all, q, at, Joins

LEMMA Shortened ==
    ASSUME NEW S, NEW s \in Seq(S), s # <<>>
    PROVE  LET u == SubSeq(s, 1, Len(s) - 1)
           IN  u \in Seq(S) /\ Len(u) = Len(s) - 1 /\ \A i \in 1 .. Len(s) - 1 : u[i] = s[i]
  <1>1. PICK k : k = Len(s) - 1
    OBVIOUS
  <1>2. k \in 0 .. Len(s)
    BY <1>1
  <1>3. SubSeq(s, 1, k) \in Seq(S)
    BY <1>2
  <1>4. Len(SubSeq(s, 1, k)) = k
    BY <1>2
  <1>5. ASSUME NEW i \in 1 .. k PROVE SubSeq(s, 1, k)[i] = s[i]
    BY <1>2, <1>5
  <1> QED
    BY <1>1, <1>3, <1>4, <1>5

LEMMA BothRanges ==
    ASSUME NEW S, NEW s \in Seq(S), NEW t \in Seq(S)
    PROVE  Range(s) \cup Range(t) \subseteq Range(s \o t)
  <1>1. \A i \in DOMAIN s : i \in DOMAIN (s \o t) /\ (s \o t)[i] = s[i]
    OBVIOUS
  <1>2. \A i \in DOMAIN t : Len(s) + i \in DOMAIN (s \o t) /\ (s \o t)[Len(s) + i] = t[i]
    OBVIOUS
  <1> QED
    BY <1>1, <1>2, Zenon DEF Range

-----------------------------------------------------------------------------
(* The environment *)

Phases == {"initializing", "loading", "sealed"}
Suspensions == [contents : EnvTables, phase : Phases]

(* The environment that a save or a seal is about, restricted or not *)
BasePhase == IF suspended = <<>> THEN phase ELSE suspended[1].phase
BaseSlots == IF suspended = <<>> THEN g.hash ELSE suspended[1].contents.hash

(* What was bound before the seal has a slot, or after it is pinned. *)
Remembered(sealed, slots, pinned, names) ==
    IF sealed THEN names \subseteq Range(pinned) ELSE pinned = <<>> /\ names \subseteq NamesIn(slots)

SavedOK ==
    /\ saved.slots \in Seq(EnvSlot) /\ Distinct(saved.slots)
    /\ saved.pins \in Seq(Names) /\ saved.sealed \in BOOLEAN
    /\ Remembered(saved.sealed, saved.slots, saved.pins, saved.known)

SuspendedOK(i) ==
    /\ EnvTable(suspended[i].contents, suspended[i].phase)
    /\ suspended[i].contents.version <= host.versions
    /\ i > 1 => suspended[i].phase = "sealed"

TableInv ==
    /\ host \in Hosts /\ phase \in Phases
    /\ EnvTable(g, phase) /\ g.version <= host.versions

StackInv ==
    /\ suspended \in Seq(Suspensions)
    /\ \A i \in DOMAIN suspended : SuspendedOK(i)
    /\ suspended # <<>> => phase = "sealed"

MirrorInv == mirror \in [Builtins -> [fresh : BOOLEAN, val : Values]] /\ MirrorIsCurrent

CacheInv ==
    /\ DOMAIN cache = Sites \cup Builtins
    /\ \A n \in Sites \cup Builtins : cache[n] # NoProbe => ProbeOK(g, n, cache[n])

LoadInv ==
    /\ pins \in Seq(Names)
    /\ Remembered(BasePhase = "sealed", BaseSlots, pins, known)
    /\ BasePhase = "loading" => saved # NoSave
    /\ saved # NoSave => SavedOK

Inv == TableInv /\ StackInv /\ MirrorInv /\ CacheInv /\ LoadInv

-----------------------------------------------------------------------------
(* The invariant, action by action *)
LEMMA VersionRoom ==
    ASSUME TableInv
    PROVE  g.version \in Nat /\ host.versions \in Nat /\ g.version + 1 < VersionSpace
  <1>1. host \in [names : SUBSET Names, saves : BOOLEAN, nesting : Nat, versions : Nat]
    BY GlobalEnvAssumption DEF TableInv
  <1>2. g.version \in Nat
    BY TableParts DEF TableInv
  <1>3. VersionSpace \in Nat /\ host.versions + 1 < VersionSpace
    BY GlobalEnvAssumption, TableOpsAssumption DEF TableInv
  <1> QED
    BY <1>1, <1>2, <1>3 DEF TableInv

LEMMA InitInv == Init => Inv
  <1> SUFFICES ASSUME Init PROVE Inv
    OBVIOUS
  <1>1. EnvTable(g, phase) /\ g.hash = <<>> /\ g.version = 0
    BY Fresh DEF Init
  <1>2. TableInv
    <2>1. host \in [names : SUBSET Names, saves : BOOLEAN, nesting : Nat, versions : Nat]
      BY GlobalEnvAssumption DEF Init
    <2> QED
      BY <1>1, <2>1 DEF Init, TableInv, Phases
  <1>3. StackInv
    BY DEF Init, StackInv
  <1>4. MirrorInv
    BY DEF Init, MirrorInv, MirrorIsCurrent, StaleMirror, Values
  <1>5. CacheInv
    BY DEF Init, CacheInv, NoCaches
  <1>6. LoadInv
    BY <1>1 DEF Init, LoadInv, Remembered, BasePhase, BaseSlots
  <1> QED
    BY <1>2, <1>3, <1>4, <1>5, <1>6 DEF Inv

LEMMA EpochIsStale ==
    ASSUME MirrorInv, mirror' = EpochMoved
    PROVE  MirrorInv'
  <1>1. \A b \in Builtins : mirror[b] \in [fresh : BOOLEAN, val : Values]
    BY DEF MirrorInv
  <1>2. \A b \in Builtins : /\ mirror'[b] \in [fresh : BOOLEAN, val : Values]
                            /\ ~mirror'[b].fresh
    BY <1>1, Zenon DEF EpochMoved
  <1>3. mirror' \in [Builtins -> [fresh : BOOLEAN, val : Values]]
    BY <1>2 DEF EpochMoved
  <1> QED
    BY <1>2, <1>3 DEF MirrorInv, MirrorIsCurrent

LEMMA CachesMoved ==
    ASSUME TableInv, TableInv', CacheInv, Moved(g, g'), DOMAIN cache' = Sites \cup Builtins,
           \A n \in Sites \cup Builtins : cache'[n] = cache[n] \/ ProbeOK(g, n, cache'[n])
    PROVE  CacheInv'
  <1>1. \A n \in Sites \cup Builtins : cache'[n] # NoProbe => ProbeOK(g, n, cache'[n])
    BY DEF CacheInv
  <1>2. \A n \in Sites \cup Builtins : cache'[n] # NoProbe => ProbeOK(g', n, cache'[n])
    BY <1>1, ProbeMoved DEF TableInv
  <1> QED
    BY <1>2 DEF CacheInv

(* A read *)
LEMMA LookedUp ==
    ASSUME TableInv, CacheInv, NEW n \in Sites \cup Builtins
    PROVE  /\ ReadCached(n).hit => ReadCached(n).val = HashGet(g, n)
           /\ DOMAIN Looked(n) = Sites \cup Builtins
           /\ \A m \in Sites \cup Builtins : Looked(n)[m] = cache[m] \/ ProbeOK(g, m, Looked(n)[m])
  <1>1. ReadCached(n).hit => ReadCached(n).val = HashGet(g, n)
    <2>1. CASE cache[n] = NoProbe
      BY <2>1 DEF ReadCached, Miss
    <2>2. CASE cache[n] # NoProbe
      BY <2>2, ProbeAnswers DEF ReadCached, CacheInv, TableInv
    <2> QED
      BY <2>1, <2>2
  <1>2. ProbeOK(g, n, ProbeHash(g, n))
    BY ProbeTaken DEF TableInv
  <1>3. /\ DOMAIN Looked(n) = Sites \cup Builtins
        /\ \A m \in Sites \cup Builtins : Looked(n)[m] = cache[m] \/ (m = n /\ Looked(n)[m] = ProbeHash(g, n))
    BY DEF Looked, CacheInv
  <1> QED
    BY <1>1, <1>2, <1>3

LEMMA StackUnchanged ==
    ASSUME StackInv, UNCHANGED <<host, phase, suspended>>
    PROVE  StackInv'
  BY DEF StackInv, SuspendedOK

LEMMA LoadUnchanged ==
    ASSUME LoadInv, UNCHANGED <<g, phase, pins, suspended, known, saved>>
    PROVE  LoadInv'
  BY DEF LoadInv, BasePhase, BaseSlots, SavedOK

LEMMA ReadGlobalStep ==
    ASSUME Inv, ReadGlobal, UNCHANGED host
    PROVE  Inv'
  <1>1. PICK n \in Sites \cap host.names : cache' = Looked(n)
    BY DEF ReadGlobal
  <1>2. UNCHANGED <<g, phase, pins, suspended, mirror, known, saved>>
    BY DEF ReadGlobal
  <1>3. TableInv'
    BY <1>2 DEF Inv, TableInv
  <1>4. Moved(g, g')
    BY <1>2 DEF Moved, SameSlots
  <1>5. CacheInv'
    BY <1>1, <1>3, <1>4, LookedUp, CachesMoved DEF Inv
  <1>6. MirrorInv'
    BY <1>2 DEF Inv, MirrorInv, MirrorIsCurrent
  <1> QED
    BY <1>2, <1>3, <1>5, <1>6, StackUnchanged, LoadUnchanged DEF Inv

LEMMA ReadBuiltinStep ==
    ASSUME Inv, ReadBuiltin, UNCHANGED host
    PROVE  Inv'
  <1>1. PICK b \in Builtins \cap host.names :
            /\ cache' = Looked(b)
            /\ mirror' = [mirror EXCEPT ![b] = [fresh |-> TRUE, val |->
                             IF ReadCached(b).hit THEN ReadCached(b).val ELSE HashGet(g, b)]]
    BY Zenon DEF ReadBuiltin
  <1>2. UNCHANGED <<g, phase, pins, suspended, known, saved>>
    BY DEF ReadBuiltin
  <1>3. TableInv'
    BY <1>2 DEF Inv, TableInv
  <1>4. Moved(g, g')
    BY <1>2 DEF Moved, SameSlots
  <1>5. ReadCached(b).hit => ReadCached(b).val = HashGet(g, b)
    BY LookedUp DEF Inv
  <1>6. CacheInv'
    BY <1>1, <1>3, <1>4, LookedUp, CachesMoved DEF Inv
  <1>7. mirror' = [mirror EXCEPT ![b] = [fresh |-> TRUE, val |-> HashGet(g, b)]]
    BY <1>1, <1>5, Zenon
  <1>8. HashGet(g, b) \in Values
    BY ValueFound DEF Inv, TableInv, EnvTable
  <1>9. MirrorInv'
    <2>1. mirror' \in [Builtins -> [fresh : BOOLEAN, val : Values]]
      BY <1>7, <1>8 DEF Inv, MirrorInv
    <2>2. \A c \in Builtins : mirror'[c].fresh => mirror'[c].val = HashGet(g, c)
      BY <1>7 DEF Inv, MirrorInv, MirrorIsCurrent
    <2> QED
      BY <2>1, <2>2, <1>2 DEF MirrorInv, MirrorIsCurrent
  <1> QED
    BY <1>2, <1>3, <1>6, <1>9, StackUnchanged, LoadUnchanged DEF Inv

(* What the three writes share *)
LEMMA WriteStep ==
    ASSUME Inv, UNCHANGED <<host, phase, pins, suspended, saved>>, g'.version <= host.versions,
           NEW n \in Names, NEW v \in Values, Added(g, g', n, v, phase), NoteBound(n, v)
    PROVE  TableInv' /\ StackInv' /\ LoadInv' /\ Moved(g, g')
  <1>1. TableInv' /\ Moved(g, g')
    BY DEF Inv, TableInv, Added
  <1>2. StackInv'
    BY StackUnchanged DEF Inv
  <1>3. Remembered(BasePhase = "sealed", BaseSlots, pins, known)'
    <2>1. CASE suspended # <<>>
      <3>1. phase = "sealed"
        BY <2>1 DEF Inv, StackInv
      <3> QED
        BY <2>1, <3>1 DEF Inv, LoadInv, NoteBound, BasePhase, BaseSlots
    <2>2. CASE suspended = <<>> /\ phase = "sealed"
      BY <2>2 DEF Inv, LoadInv, NoteBound, BasePhase, BaseSlots, Remembered
    <2>3. CASE suspended = <<>> /\ phase # "sealed"
      <3>1. pins = <<>> /\ known \subseteq NamesIn(g.hash)
        BY <2>3 DEF Inv, LoadInv, BasePhase, BaseSlots, Remembered
      <3>2. NamesIn(g.hash) \subseteq NamesIn(g'.hash) /\ (v # Nil => n \in NamesIn(g'.hash))
        BY <2>3 DEF Added
      <3>3. known' \subseteq NamesIn(g'.hash)
        BY <3>1, <3>2 DEF NoteBound
      <3> QED
        BY <2>3, <3>1, <3>3 DEF BasePhase, BaseSlots, Remembered
    <2> QED
      BY <2>1, <2>2, <2>3
  <1>4. LoadInv'
    BY <1>3 DEF Inv, LoadInv, BasePhase, SavedOK
  <1> QED
    BY <1>1, <1>2, <1>4

LEMMA WriteGlobalStep ==
    ASSUME Inv, WriteGlobal, UNCHANGED host, g'.version <= host.versions
    PROVE  Inv'
  <1>1. PICK n \in host.names \cap (Sites \cup Builtins), v \in Values :
            /\ Written(n, v, WriteCached(n, v)) /\ mirror' = MirrorAfterWrite(n, WriteCached(n, v))
    BY DEF WriteGlobal
  <1>2. n \in Names /\ n \in Sites \cup Builtins
    BY GlobalEnvAssumption
  <1> DEFINE cached == WriteCached(n, v)
  <1>3. EnvTable(g, phase) /\ g.version + 1 < VersionSpace
    BY VersionRoom DEF Inv, TableInv
  <1>4. ASSUME cached.ok
        PROVE  Added(g, cached.t, n, v, phase) /\ OthersKept(g, cached.t, n)
    <2>1. cache[n] # NoProbe /\ cached = StoreProbe(g, cache[n], v)
      BY <1>4 DEF WriteCached, Failed
    <2>2. ProbeOK(g, n, cache[n])
      BY <1>2, <2>1 DEF Inv, CacheInv
    <2> QED
      BY <1>2, <1>3, <1>4, <2>1, <2>2, StoredThroughProbe
  <1>5. Added(g, WriteKeyed(n, v), n, v, phase)
    BY <1>2, <1>3, KeyedWrite
  <1>6. Added(g, g', n, v, phase) /\ NoteBound(n, v) /\ UNCHANGED <<phase, pins, suspended, saved>>
    BY <1>1, <1>4, <1>5, Zenon DEF Written
  <1>7. TableInv' /\ StackInv' /\ LoadInv' /\ Moved(g, g')
    BY <1>2, <1>6, WriteStep, Zenon
  <1>8. CacheInv'
    <2>1. ProbeOK(g, n, ProbeHash(g, n))
      BY <1>3, ProbeTaken
    <2>2. /\ DOMAIN cache' = Sites \cup Builtins
          /\ \A m \in Sites \cup Builtins : cache'[m] = cache[m] \/ (m = n /\ cache'[m] = ProbeHash(g, n))
      BY <1>1 DEF Written, Inv, CacheInv
    <2>3. \A m \in Sites \cup Builtins : cache'[m] = cache[m] \/ ProbeOK(g, m, cache'[m])
      BY <2>1, <2>2
    <2> QED
      BY <1>7, <2>2, <2>3, CachesMoved, Zenon DEF Inv
  <1>9. MirrorInv'
    <2>1. CASE mirror' = EpochMoved
      BY <2>1, EpochIsStale DEF Inv
    <2>2. CASE mirror' # EpochMoved
      <3>1. cached.ok /\ mirror' = mirror /\ g' = cached.t
        BY <1>1, <2>2 DEF MirrorAfterWrite, Written
      <3>2. n \notin Builtins
        <4>1. cache[n] # NoProbe
          BY <3>1 DEF WriteCached, Failed
        <4> QED
          BY <1>1, <2>2, <4>1 DEF MirrorAfterWrite
      <3>3. \A b \in Builtins : b \in Names /\ b # n
        BY <3>2, GlobalEnvAssumption
      <3>4. \A b \in Builtins : HashGet(g', b) = HashGet(g, b)
        BY <1>4, <3>1, <3>3 DEF OthersKept
      <3> QED
        BY <3>1, <3>4 DEF Inv, MirrorInv, MirrorIsCurrent
    <2> QED
      BY <2>1, <2>2
  <1> QED
    BY <1>7, <1>8, <1>9 DEF Inv

LEMMA HostWriteStep ==
    ASSUME Inv, HostWrite, UNCHANGED host, g'.version <= host.versions
    PROVE  Inv'
  <1>0. EnvTable(g, phase) /\ g.version + 1 < VersionSpace /\ host.names \subseteq Names
    BY VersionRoom, GlobalEnvAssumption DEF Inv, TableInv
  <1>1. PICK n \in host.names, v \in Values : g' = WriteKeyed(n, v) /\ NoteBound(n, v)
    BY DEF HostWrite
  <1>2. n \in Names /\ Added(g, g', n, v, phase)
    BY <1>0, <1>1, KeyedWrite
  <1>3. UNCHANGED <<phase, pins, suspended, cache, saved>> /\ mirror' = EpochMoved
    BY DEF HostWrite
  <1>4. TableInv' /\ StackInv' /\ LoadInv' /\ Moved(g, g')
    BY <1>1, <1>2, <1>3, WriteStep
  <1>5. CacheInv'
    BY <1>3, <1>4, CachesMoved DEF Inv, CacheInv
  <1>6. MirrorInv'
    BY <1>3, EpochIsStale DEF Inv
  <1> QED
    BY <1>4, <1>5, <1>6 DEF Inv

LEMMA RawWriteStep ==
    ASSUME Inv, RawWrite, UNCHANGED host, g'.version <= host.versions
    PROVE  Inv'
  <1>0. EnvTable(g, phase) /\ g.version + 1 < VersionSpace /\ host.names \subseteq Names
    BY VersionRoom, GlobalEnvAssumption DEF Inv, TableInv
  <1>1. PICK n \in host.names, v \in Values : g' = Insert(g, n, v, Ample).t /\ NoteBound(n, v)
    BY DEF RawWrite
  <1>2. n \in Names /\ Added(g, g', n, v, phase)
    BY <1>0, <1>1, Inserted
  <1>3. UNCHANGED <<phase, pins, suspended, cache, saved>> /\ mirror' = EpochMoved
    BY DEF RawWrite
  <1>4. TableInv' /\ StackInv' /\ LoadInv' /\ Moved(g, g')
    BY <1>1, <1>2, <1>3, WriteStep
  <1>5. CacheInv'
    BY <1>3, <1>4, CachesMoved DEF Inv, CacheInv
  <1>6. MirrorInv'
    BY <1>3, EpochIsStale DEF Inv
  <1> QED
    BY <1>4, <1>5, <1>6 DEF Inv

LEMMA SealStep ==
    ASSUME Inv, Seal, UNCHANGED host, g'.version <= host.versions
    PROVE  Inv'
  <1>1. CASE phase # "initializing"
    <2>1. UNCHANGED <<host, g, phase, pins, suspended, cache, mirror, known, saved>>
      BY <1>1 DEF Seal
    <2>2. TableInv' /\ MirrorInv' /\ CacheInv'
      BY <2>1 DEF Inv, TableInv, MirrorInv, MirrorIsCurrent, CacheInv
    <2> QED
      BY <2>1, <2>2, StackUnchanged, LoadUnchanged DEF Inv
  <1>2. CASE phase = "initializing"
    <2>1. /\ phase' = "sealed" /\ pins' = SlotNames(g) /\ g' = SlotPolicyOf(g, "sealed")
          /\ mirror' = EpochMoved /\ UNCHANGED <<suspended, cache, known, saved>>
      BY <1>2 DEF Seal
    <2>2. suspended = <<>>
      BY <1>2 DEF Inv, StackInv
    <2>3. TableInv' /\ Moved(g, g')
      BY <2>1, Repoliced DEF Inv, TableInv, Phases
    <2>4. CacheInv'
      BY <2>1, <2>3, CachesMoved DEF Inv, CacheInv
    <2>5. MirrorInv'
      BY <2>1, EpochIsStale DEF Inv
    <2>6. StackInv'
      BY <2>1, <2>2 DEF Inv, StackInv
    <2>7. pins' \in Seq(Names) /\ Range(pins') = NamesIn(g.hash) \cap Names
      <3>1. g.hash \in Seq(EnvSlot) /\ Distinct(g.hash)
        BY TableParts DEF Inv, TableInv
      <3> QED
        BY <3>1, <2>1, NamesListed DEF SlotNames
    <2>8. NamesIn(g.hash) \subseteq Names
      BY TableParts DEF Inv, TableInv, NamesIn
    <2>9. known \subseteq NamesIn(g.hash)
      BY <1>2, <2>2 DEF Inv, LoadInv, Remembered, BasePhase, BaseSlots
    <2>10. LoadInv'
      BY <2>1, <2>2, <2>7, <2>8, <2>9 DEF Inv, LoadInv, Remembered, BasePhase, SavedOK
    <2> QED
      BY <2>3, <2>4, <2>5, <2>6, <2>10 DEF Inv
  <1> QED
    BY <1>1, <1>2

LEMMA RestrictEnvStep ==
    ASSUME Inv, RestrictEnv, UNCHANGED host, g'.version <= host.versions
    PROVE  Inv'
  <1>1. PICK list \in Whitelists : g' = SwapIn(g, Restricted(list))
    BY DEF RestrictEnv
  <1>2. /\ suspended' = Append(suspended, [contents |-> g, phase |-> phase])
        /\ phase' = "sealed" /\ mirror' = EpochMoved /\ UNCHANGED <<pins, cache, known, saved>>
    BY DEF RestrictEnv
  <1>3. TableInv' /\ Moved(g, g')
    <2>1. EnvTable(Restricted(list), "sealed") /\ Restricted(list).version = 0
      BY RestrictedTable DEF Inv, TableInv
    <2>2. EnvTable(g, phase) /\ g.version + 1 < VersionSpace /\ 0 + 1 < VersionSpace
      BY VersionRoom, TableOpsAssumption DEF Inv, TableInv
    <2>3. EnvTable(g', "sealed") /\ Moved(g, g')
      BY <1>1, <2>1, <2>2, SwappedIn
    <2> QED
      BY <1>2, <2>3 DEF Inv, TableInv, Phases
  <1>4. CacheInv'
    BY <1>2, <1>3, CachesMoved DEF Inv, CacheInv
  <1>5. MirrorInv'
    BY <1>2, EpochIsStale DEF Inv
  <1> DEFINE saving == [contents |-> g, phase |-> phase]
             n == Len(suspended)
  <1>6. saving \in Suspensions /\ saving.contents = g /\ saving.phase = phase
    BY DEF Inv, TableInv, EnvTable, Suspensions
  <1> HIDE DEF saving
  <1>7. /\ suspended \in Seq(Suspensions) /\ n \in Nat
        /\ DOMAIN suspended = 1 .. n
    BY DEF Inv, StackInv
  <1>8. /\ suspended' \in Seq(Suspensions) /\ DOMAIN suspended' = 1 .. n + 1
        /\ suspended'[n + 1] = saving /\ \A i \in 1 .. n : suspended'[i] = suspended[i]
    BY <1>2, <1>6, <1>7 DEF saving
  <1>9. n # 0 => phase = "sealed"
    BY <1>7 DEF Inv, StackInv
  <1>10. StackInv'
    <2>1. ASSUME NEW i \in 1 .. n + 1
          PROVE  /\ EnvTable(suspended'[i].contents, suspended'[i].phase)
                 /\ suspended'[i].contents.version <= host.versions
                 /\ i > 1 => suspended'[i].phase = "sealed"
      <3>1. CASE i \in 1 .. n
        BY <1>7, <1>8, <3>1 DEF Inv, StackInv, SuspendedOK
      <3>2. CASE i = n + 1
        BY <1>6, <1>7, <1>8, <1>9, <3>2 DEF Inv, TableInv
      <3> QED
        BY <3>1, <3>2, <1>7
    <2> QED
      BY <1>2, <1>8, <2>1 DEF StackInv, SuspendedOK
  <1>11. BasePhase' = BasePhase /\ BaseSlots' = BaseSlots
    <2>1. suspended' # <<>>
      BY <1>7, <1>8
    <2>2. CASE suspended = <<>>
      BY <2>1, <2>2, <1>6, <1>7, <1>8 DEF BasePhase, BaseSlots
    <2>3. CASE suspended # <<>>
      BY <2>1, <2>3, <1>7, <1>8 DEF BasePhase, BaseSlots
    <2> QED
      BY <2>2, <2>3
  <1>12. LoadInv'
    BY <1>2, <1>11 DEF Inv, LoadInv, SavedOK
  <1> QED
    BY <1>3, <1>4, <1>5, <1>10, <1>12 DEF Inv

LEMMA ResumeStep ==
    ASSUME Inv, Resume, UNCHANGED host, g'.version <= host.versions
    PROVE  Inv'
  <1> DEFINE n == Len(suspended)
             last == suspended[n]
  <1>1. /\ suspended # <<>> /\ g' = SwapIn(g, last.contents) /\ phase' = last.phase
        /\ suspended' = SubSeq(suspended, 1, n - 1)
        /\ mirror' = EpochMoved /\ UNCHANGED <<pins, cache, known, saved>>
    BY DEF Resume, Swapped
  <1>2. /\ suspended \in Seq(Suspensions)
        /\ n \in Nat \ {0} /\ DOMAIN suspended = 1 .. n
    BY <1>1 DEF Inv, StackInv
  <1>3. \A i \in 1 .. n : suspended[i] \in Suspensions /\ SuspendedOK(i)
    <2>1. \A i \in 1 .. n : suspended[i] \in Suspensions
      BY <1>2
    <2>2. \A i \in DOMAIN suspended : SuspendedOK(i)
      BY DEF Inv, StackInv
    <2> QED
      BY <1>2, <2>1, <2>2
  <1>4. /\ EnvTable(last.contents, last.phase) /\ last.contents.version <= host.versions
        /\ n > 1 => last.phase = "sealed"
    BY <1>2, <1>3 DEF SuspendedOK
  <1>5. last.phase \in Phases
    BY <1>2, <1>3 DEF Suspensions
  <1> HIDE DEF last
  <1>6. EnvTable(g', last.phase) /\ Moved(g, g') /\ g'.hash = last.contents.hash
    <2>1. EnvTable(g, phase) /\ g.version + 1 < VersionSpace
      BY VersionRoom DEF Inv, TableInv
    <2>2. last.contents.version + 1 < VersionSpace
      <3>1. last.contents.version \in Nat
        BY <1>4, TableParts
      <3>2. host.versions \in Nat /\ host.versions + 1 < VersionSpace /\ VersionSpace \in Nat
        BY VersionRoom, GlobalEnvAssumption, TableOpsAssumption DEF Inv, TableInv
      <3> QED
        BY <1>4, <3>1, <3>2
    <2>3. /\ EnvTable(SwapIn(g, last.contents), last.phase) /\ Moved(g, SwapIn(g, last.contents))
          /\ SwapIn(g, last.contents).hash = last.contents.hash
      <3>1. EnvTable(last.contents, last.phase)
        BY <1>4
      <3> QED
        BY <3>1, <2>1, <2>2, SwappedIn
    <2> QED
      BY <1>1, <2>3
  <1>7. TableInv'
    BY <1>1, <1>5, <1>6 DEF Inv, TableInv
  <1>8. CacheInv'
    BY <1>1, <1>6, <1>7, CachesMoved, Zenon DEF Inv, CacheInv
  <1>9. MirrorInv'
    BY <1>1, EpochIsStale DEF Inv
  <1>10. /\ suspended' \in Seq(Suspensions)
         /\ DOMAIN suspended' = 1 .. n - 1
         /\ \A i \in 1 .. n - 1 : suspended'[i] = suspended[i]
         /\ (suspended' # <<>> <=> n > 1)
    <2>1. LET u == SubSeq(suspended, 1, Len(suspended) - 1)
          IN  u \in Seq(Suspensions) /\ Len(u) = n - 1 /\ \A i \in 1 .. n - 1 : u[i] = suspended[i]
      BY <1>1, <1>2, Shortened
    <2>2. /\ suspended' \in Seq(Suspensions) /\ Len(suspended') = n - 1
          /\ \A i \in 1 .. n - 1 : suspended'[i] = suspended[i]
      BY <1>1, <2>1
    <2> HIDE DEF n
    <2>3. DOMAIN suspended' = 1 .. n - 1
      BY <2>2
    <2>4. suspended' # <<>> <=> n > 1
      BY <1>2, <2>2
    <2> QED
      BY <2>2, <2>3, <2>4
  <1>11. StackInv'
    <2>1. \A i \in DOMAIN suspended' : i \in 1 .. n /\ suspended'[i] = suspended[i]
      BY <1>2, <1>10
    <2>2. \A i \in DOMAIN suspended' : SuspendedOK(i)'
      BY <2>1, <1>3 DEF SuspendedOK
    <2> QED
      BY <1>1, <1>4, <1>10, <2>2 DEF StackInv
  <1>12. BasePhase' = BasePhase /\ BaseSlots' = BaseSlots
    <2>1. CASE n = 1
      BY <2>1, <1>1, <1>6, <1>10 DEF BasePhase, BaseSlots, last
    <2>2. CASE n > 1
      <3>1. suspended'[1] = suspended[1]
        BY <2>2, <1>2, <1>10
      <3> QED
        BY <2>2, <3>1, <1>1, <1>10 DEF BasePhase, BaseSlots
    <2> QED
      BY <2>1, <2>2, <1>2
  <1>13. LoadInv'
    BY <1>1, <1>12 DEF Inv, LoadInv, SavedOK
  <1> QED
    BY <1>7, <1>8, <1>9, <1>11, <1>13 DEF Inv

LEMMA SaveStep ==
    ASSUME Inv, Save, UNCHANGED host
    PROVE  Inv'
  <1>1. /\ suspended = <<>> /\ phase # "loading"
        /\ saved' = [slots |-> g.hash, pins |-> pins, sealed |-> phase = "sealed", known |-> known]
        /\ UNCHANGED <<g, phase, pins, suspended, cache, mirror, known>>
    BY DEF Save
  <1>2. TableInv' /\ MirrorInv' /\ CacheInv' /\ StackInv'
    BY <1>1, StackUnchanged DEF Inv, TableInv, MirrorInv, MirrorIsCurrent, CacheInv
  <1>3. g.hash \in Seq(EnvSlot) /\ Distinct(g.hash)
    BY TableParts DEF Inv, TableInv
  <1>4. Remembered(phase = "sealed", g.hash, pins, known) /\ pins \in Seq(Names)
    BY <1>1, Zenon DEF Inv, LoadInv, BasePhase, BaseSlots
  <1>5. /\ saved'.slots = g.hash /\ saved'.pins = pins /\ saved'.known = known
        /\ saved'.sealed \in BOOLEAN /\ (saved'.sealed <=> phase = "sealed")
    BY <1>1, Zenon
  <1>6. SavedOK'
    BY <1>3, <1>4, <1>5 DEF SavedOK, Remembered
  <1>7. LoadInv'
    BY <1>1, <1>4, <1>6 DEF LoadInv, BasePhase, BaseSlots
  <1> QED
    BY <1>2, <1>7 DEF Inv

LEMMA BeginLoadStep ==
    ASSUME Inv, BeginLoad, UNCHANGED host, g'.version <= host.versions
    PROVE  Inv'
  <1>1. /\ saved # NoSave /\ g' = FreshTable("loading") /\ phase' = "loading"
        /\ pins' = <<>> /\ suspended' = <<>> /\ known' = {}
        /\ cache' = NoCaches /\ mirror' = StaleMirror /\ UNCHANGED saved
    BY DEF BeginLoad, FreshEnv
  <1>2. EnvTable(g', phase') /\ g'.hash = <<>>
    BY <1>1, Fresh
  <1>3. TableInv'
    BY <1>1, <1>2 DEF Inv, TableInv, Phases
  <1>4. StackInv'
    BY <1>1 DEF StackInv
  <1>5. MirrorInv'
    BY <1>1 DEF MirrorInv, MirrorIsCurrent, StaleMirror, Values
  <1>6. CacheInv'
    BY <1>1 DEF CacheInv, NoCaches
  <1>7. LoadInv'
    BY <1>1, <1>2 DEF Inv, LoadInv, Remembered, BasePhase, BaseSlots, SavedOK
  <1> QED
    BY <1>3, <1>4, <1>5, <1>6, <1>7 DEF Inv

(* What a load leaves in the table *)
LEMMA LoadEffect ==
    ASSUME Inv, FinishLoad
    PROVE  /\ SavedOK /\ EnvTable(g', phase') /\ Moved(g, g')
           /\ NamesIn(g'.hash) = NamesIn(saved.slots) \cup (NamesIn(g.hash) \ Mentioned)
           /\ \A i \in DOMAIN saved.slots : i \in DOMAIN g'.hash /\ g'.hash[i] = saved.slots[i]
  <1> DEFINE all == saved.slots \o Picked(g.hash, Keyed(g.hash, Names \ Mentioned))
  <1>1. phase = "loading" /\ suspended = <<>> /\ g' = SlotPolicyOf(Rebuilt(all), phase')
    BY DEF FinishLoad
  <1>2. SavedOK
    BY <1>1 DEF Inv, LoadInv, BasePhase
  <1>3. /\ saved.slots \in Seq(EnvSlot) /\ Distinct(saved.slots)
        /\ g.hash \in Seq(EnvSlot) /\ Distinct(g.hash) /\ NamesIn(saved.slots) \subseteq Mentioned
    BY <1>2, TableParts DEF SavedOK, Inv, TableInv, Mentioned, NamesIn
  <1>4. /\ all \in Seq(EnvSlot) /\ Distinct(all)
        /\ NamesIn(all) = NamesIn(saved.slots) \cup (NamesIn(g.hash) \ Mentioned)
        /\ DOMAIN saved.slots \subseteq DOMAIN all /\ \A i \in DOMAIN saved.slots : all[i] = saved.slots[i]
    <2>1. Joins(all, saved.slots, g.hash, Mentioned)
      BY <1>3, Joined
    <2> QED
      BY <2>1, Zenon DEF Joins
  <1> HIDE DEF all
  <1>5. EnvTable(g, phase) /\ g.version + 1 < VersionSpace
    BY VersionRoom DEF Inv, TableInv
  <1>6. EnvTable(g', phase') /\ g'.hash = all /\ Moved(g, g')
    <2>1. LET u == SlotPolicyOf(Reloaded([g EXCEPT !.hash = all]), phase')
          IN  EnvTable(u, phase') /\ u.hash = all /\ Moved(g, u)
      BY <1>4, <1>5, LoadedTable, Zenon
    <2> QED
      BY <1>1, <2>1 DEF Rebuilt
  <1> QED
    BY <1>2, <1>4, <1>6

LEMMA FinishLoadStep ==
    ASSUME Inv, FinishLoad, UNCHANGED host, g'.version <= host.versions
    PROVE  Inv'
  <1>1. /\ SavedOK /\ EnvTable(g', phase') /\ Moved(g, g')
        /\ NamesIn(g'.hash) = NamesIn(saved.slots) \cup (NamesIn(g.hash) \ Mentioned)
    BY LoadEffect
  <1> DEFINE more == KeysOf(Picked(g.hash, Keyed(g.hash, Names \ Range(saved.pins))))
  <1>2. /\ phase = "loading" /\ suspended = <<>>
        /\ phase' = (IF saved.sealed THEN "sealed" ELSE "initializing")
        /\ pins' = (IF saved.sealed THEN saved.pins \o more ELSE <<>>)
        /\ mirror' = EpochMoved /\ known' = known \cup saved.known
        /\ UNCHANGED <<suspended, cache, saved>>
    BY DEF FinishLoad
  <1>3. g.hash \in Seq(EnvSlot) /\ Distinct(g.hash) /\ NamesIn(g.hash) \subseteq Names
    BY TableParts DEF Inv, TableInv, NamesIn
  <1>4. more \in Seq(Names) /\ Range(more) = NamesIn(g.hash) \cap (Names \ Range(saved.pins))
    BY <1>3, NamesListed
  <1> HIDE DEF more
  <1>5. TableInv'
    BY <1>1, <1>2 DEF Inv, TableInv, Phases
  <1>6. StackInv'
    BY <1>2 DEF Inv, StackInv
  <1>7. MirrorInv'
    BY <1>2, EpochIsStale DEF Inv
  <1>8. CacheInv'
    BY <1>1, <1>2, <1>5, CachesMoved, Zenon DEF Inv, CacheInv
  <1>9. known \subseteq NamesIn(g.hash)
    BY <1>2 DEF Inv, LoadInv, Remembered, BasePhase, BaseSlots
  <1>10. BasePhase' = phase' /\ BaseSlots' = g'.hash
    BY <1>2 DEF BasePhase, BaseSlots
  <1>11. pins' \in Seq(Names) /\ Remembered(phase' = "sealed", g'.hash, pins', known')
    <2>1. CASE saved.sealed
      <3>1. saved.pins \in Seq(Names) /\ saved.known \subseteq Range(saved.pins)
        BY <1>1, <2>1 DEF SavedOK, Remembered
      <3>2. saved.pins \o more \in Seq(Names)
        BY <3>1, <1>4
      <3>3. Range(saved.pins) \cup Range(more) \subseteq Range(saved.pins \o more)
        BY <3>1, <1>4, BothRanges
      <3>4. known' \subseteq Range(pins')
        BY <3>1, <3>3, <1>2, <1>3, <1>4, <1>9, <2>1
      <3> QED
        BY <3>2, <3>4, <1>2, <2>1 DEF Remembered
    <2>2. CASE ~saved.sealed
      <3>1. saved.pins = <<>> /\ saved.known \subseteq NamesIn(saved.slots)
        BY <1>1, <2>2 DEF SavedOK, Remembered
      <3>2. Mentioned = NamesIn(saved.slots)
        BY <3>1 DEF Mentioned, NamesIn, Range
      <3>3. known' \subseteq NamesIn(g'.hash)
        BY <3>1, <3>2, <1>1, <1>2, <1>9
      <3>4. pins' = <<>> /\ phase' # "sealed"
        BY <1>2, <2>2
      <3> QED
        BY <3>3, <3>4 DEF Remembered
    <2> QED
      BY <2>1, <2>2 DEF SavedOK
  <1>12. LoadInv'
    <2>1. phase' # "loading"
      BY <1>2
    <2>2. SavedOK'
      BY <1>1, <1>2 DEF SavedOK
    <2> QED
      BY <1>10, <1>11, <2>1, <2>2 DEF LoadInv
  <1> QED
    BY <1>5, <1>6, <1>7, <1>8, <1>12 DEF Inv

LEMMA NextInv == Inv /\ [Next]_vars => Inv'
  <1> SUFFICES ASSUME Inv, [Next]_vars PROVE Inv'
    OBVIOUS
  <1>1. CASE UNCHANGED vars
    <2>1. TableInv' /\ MirrorInv' /\ CacheInv'
      BY <1>1 DEF vars, Inv, TableInv, MirrorInv, MirrorIsCurrent, CacheInv
    <2>2. StackInv' /\ LoadInv'
      BY <1>1, StackUnchanged, LoadUnchanged DEF vars, Inv
    <2> QED
      BY <2>1, <2>2 DEF Inv
  <1>2. CASE Next
    <2>1. g'.version <= host.versions /\ UNCHANGED host
      BY <1>2 DEF Next
    <2> QED
      BY <1>2, <2>1, ReadGlobalStep, ReadBuiltinStep, WriteGlobalStep, HostWriteStep, RawWriteStep,
         SealStep, RestrictEnvStep, ResumeStep, SaveStep, BeginLoadStep, FinishLoadStep DEF Next
  <1> QED
    BY <1>1, <1>2

LEMMA InvHolds == Spec => []Inv
  BY InitInv, NextInv, PTL DEF Spec

LEMMA CachesAnswer == Inv => CachesAnswerForTheEnvironment
  <1> SUFFICES ASSUME Inv PROVE CachesAnswerForTheEnvironment
    OBVIOUS
  <1>1. \A i \in DOMAIN g.hash : g.hash[i].key \in Names /\ g.hash[i].val \in Values
    BY TableParts DEF Inv, TableInv
  <1>2. g.map /\ g.revive /\ g.retain = (phase # "sealed")
    <2>1. g.retain \in BOOLEAN
      BY DEF Inv, TableInv, EnvTable, EnvTables
    <2> QED
      BY <2>1, TableParts DEF Inv, TableInv
  <1>3. \A i \in DOMAIN suspended : suspended[i].phase \in {"initializing", "loading", "sealed"}
    <2>1. \A i \in DOMAIN suspended : suspended[i] \in Suspensions
      BY DEF Inv, StackInv
    <2> QED
      BY <2>1 DEF Suspensions, Phases
  <1>4. TypeOK
    BY <1>1, <1>2, <1>3 DEF TypeOK, Inv, TableInv, LoadInv, MirrorInv, Phases
  <1>5. \A n \in DOMAIN cache : ReadCached(n).hit => ReadCached(n).val = HashGet(g, n)
    <2>1. DOMAIN cache = Sites \cup Builtins
      BY DEF Inv, CacheInv
    <2> QED
      BY <2>1, LookedUp DEF Inv
  <1> QED
    BY <1>4, <1>5 DEF CachesAnswerForTheEnvironment, Inv, MirrorInv

(***************************************************************************)
(* The lookup caches and the mirror of the builtins answer only with what  *)
(* the environment in force holds, whatever the names, the whitelists and  *)
(* the depth of nested restrictions (read_global, refresh_builtin).        *)
(***************************************************************************)
THEOREM CachesAreCurrent == Spec => []CachesAnswerForTheEnvironment
  <1>1. Inv => CachesAnswerForTheEnvironment
    BY CachesAnswer
  <1> QED
    BY <1>1, InvHolds, PTL

LEMMA FinishLoadKeeps ==
    ASSUME Inv, FinishLoad, NEW n \in saved.known
    PROVE  HashGet(g', n) = SavedValue(n)
  <1>1. /\ SavedOK /\ EnvTable(g', phase')
        /\ NamesIn(g'.hash) = NamesIn(saved.slots) \cup (NamesIn(g.hash) \ Mentioned)
        /\ \A i \in DOMAIN saved.slots : i \in DOMAIN g'.hash /\ g'.hash[i] = saved.slots[i]
    BY LoadEffect
  <1>2. Distinct(g'.hash) /\ Distinct(saved.slots)
    BY <1>1 DEF EnvTable, SavedOK
  <1>3. CASE n \in NamesIn(saved.slots)
    <2>1. PICK i \in DOMAIN saved.slots : saved.slots[i].key = n
      BY <1>3 DEF NamesIn
    <2>2. HashGet(g', n) = saved.slots[i].val
      BY <1>1, <1>2, <2>1, SlotHolds
    <2>3. (CHOOSE j \in DOMAIN saved.slots : saved.slots[j].key = n) = i
      BY <1>2, <2>1 DEF Distinct
    <2> QED
      BY <2>1, <2>2, <2>3, Zenon DEF SavedValue
  <1>4. CASE n \notin NamesIn(saved.slots)
    <2>1. n \in Range(saved.pins)
      BY <1>1, <1>4 DEF SavedOK, Remembered
    <2>2. n \in Mentioned
      BY <2>1 DEF Mentioned
    <2>3. n \notin NamesIn(g'.hash)
      BY <1>1, <1>4, <2>2
    <2>4. HashGet(g', n) = Nil
      BY <2>3 DEF NamesIn, HashGet, HasSlot
    <2>5. SavedValue(n) = Nil
      BY <1>4 DEF NamesIn, SavedValue
    <2> QED
      BY <2>4, <2>5
  <1> QED
    BY <1>3, <1>4

LEMMA StepKeepsSaved ==
    ASSUME Inv, [Next]_vars, phase = "loading", phase' # "loading", suspended' = <<>>
    PROVE  \A n \in saved.known : HashGet(g', n) = SavedValue(n)
  <1>1. suspended = <<>>
    BY DEF Inv, StackInv
  <1>2. suspended \in Seq(Suspensions)
    BY DEF Inv, StackInv
  <1>3. ~RestrictEnv
    <2>1. Append(suspended, [contents |-> g, phase |-> phase]) # <<>>
      BY <1>1
    <2> QED
      BY <2>1 DEF RestrictEnv
  <1>4. FinishLoad
    BY <1>1, <1>3, Zenon DEF Next, vars, ReadGlobal, ReadBuiltin, WriteGlobal, Written, HostWrite, RawWrite,
                      Seal, Resume, Save, BeginLoad
  <1> QED
    BY <1>4, FinishLoadKeeps

(***************************************************************************)
(* A load gives every name bound before the seal the value it was saved    *)
(* with (restore over what setup made), because a name once bound keeps    *)
(* its slot until the seal pins it, and a saved pin keeps setup's out.     *)
(***************************************************************************)
THEOREM LoadsRestore == Spec => LoadKeepsWhatWasSaved
  <1>1. Inv /\ [Next]_vars =>
            [phase = "loading" /\ phase' # "loading" /\ suspended' = <<>> =>
                \A n \in saved.known : HashGet(g', n) = SavedValue(n)]_vars
    BY StepKeepsSaved
  <1> QED
    BY <1>1, InvHolds, PTL DEF Spec, LoadKeepsWhatWasSaved
=============================================================================
