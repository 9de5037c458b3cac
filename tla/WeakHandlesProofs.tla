------------------------- MODULE WeakHandlesProofs --------------------------
(* No weak handle aliases and the pattern cache is exact, for all bounds.  *)
EXTENDS WeakHandles, WellFoundedInduction, TLAPS

(* Collections since the last prune of the cache cells *)
Since == PruneInterval - countdown

(***************************************************************************)
(* Each collection lets a slot be reused at most once, so a dead entry is  *)
(* no older than the collections since the last prune, and one less while  *)
(* its slot is vacant.                                                     *)
(***************************************************************************)
CellAge(h) ==
    IF h.dead
    THEN IF Occupied(h.slot) THEN 1 <= h.age /\ h.age <= Since ELSE h.age < Since
    ELSE h.age = 0 /\ Occupied(h.slot)

AgesAreBounded == \A c \in Sites : cells[c] # NoEntry => CellAge(cells[c])

Inv == TypeOK /\ AgesAreBounded

Cell == [slot : Slots, age : Ages, dead : BOOLEAN]

LEMMA InitInv == Init => Inv
  BY WeakHandlesAssumption
  DEF Init, Inv, TypeOK, AgesAreBounded, Live

(* Aging a handle changes nothing but its age. *)
LEMMA AgedFields ==
    ASSUME NEW h \in Cell, NEW s \in Slots
    PROVE  /\ Aged(h, s) \in Cell
           /\ Aged(h, s).slot = h.slot /\ (Aged(h, s).dead <=> h.dead)
           /\ Aged(h, s).age = IF h.slot = s THEN Older(h.age) ELSE h.age
  <1>1. Older(h.age) \in Ages
    BY WeakHandlesAssumption DEF Older, Ages, Cell
  <1> QED
    BY <1>1 DEF Aged, Cell

(* A new string in a vacant slot ages the handles of the slot. *)
LEMMA ReuseStep ==
    ASSUME Inv, NEW x \in Texts, NEW s \in Slots \ Live,
           text' = [text EXCEPT ![s] = x],
           cells' = [c \in Sites |-> AgedCell(c, s)],
           countdown' = countdown
    PROVE  /\ cells' \in [Sites -> Cell \cup {NoEntry}]
           /\ AgesAreBounded'
  <1>1. ASSUME NEW c \in Sites
        PROVE  /\ cells'[c] \in Cell \cup {NoEntry}
               /\ cells'[c] # NoEntry => CellAge(cells[c])'
    <2>1. CASE cells[c] = NoEntry
      BY <2>1 DEF AgedCell
    <2>2. CASE cells[c] # NoEntry
      <3>1. cells[c] \in Cell /\ CellAge(cells[c]) /\ cells'[c] = Aged(cells[c], s)
        BY <2>2 DEF Inv, TypeOK, Cell, AgesAreBounded, AgedCell
      <3>2. /\ cells[c].slot \in Slots /\ cells[c].age \in Nat /\ cells[c].dead \in BOOLEAN
            /\ Since \in Nat /\ Since < GenSpace - 1 /\ Since' = Since
        BY <3>1, WeakHandlesAssumption DEF Cell, Ages, Since, Inv, TypeOK
      <3>3. CASE cells[c].slot = s
        <4>1. ~Occupied(s) /\ Occupied(s)'
          BY WeakHandlesAssumption DEF Live, Occupied, Inv, TypeOK
        <4>2. cells[c].dead /\ cells[c].age < Since
          BY <3>1, <3>3, <4>1 DEF CellAge
        <4>3. Older(cells[c].age) = cells[c].age + 1
          BY <3>2, <4>2, WeakHandlesAssumption DEF Older
        <4> QED
          BY <3>1, <3>2, <3>3, <4>1, <4>2, <4>3, AgedFields DEF CellAge
      <3>4. CASE cells[c].slot # s
        <4>1. text'[cells[c].slot] = text[cells[c].slot]
          BY <3>2, <3>4 DEF Inv, TypeOK
        <4>2. cells'[c] = cells[c]
          BY <3>1, <3>4 DEF Aged
        <4> QED
          BY <3>1, <3>2, <4>1, <4>2 DEF CellAge, Occupied
      <3> QED BY <3>3, <3>4
    <2> QED BY <2>1, <2>2
  <1> QED
    BY <1>1 DEF AgesAreBounded

LEMMA AllocStep == ASSUME Inv, Alloc PROVE Inv'
  <1> PICK x \in Texts :
        \/ /\ \E s \in Live : text[s] = x /\ rooted' = rooted \cup {s}
           /\ UNCHANGED <<text, cells, patterns>>
        \/ /\ \A s \in Live : text[s] # x
           /\ \E s \in Slots \ Live :
                 /\ text' = [text EXCEPT ![s] = x]
                 /\ rooted' = rooted \cup {s}
                 /\ cells' = [c \in Sites |-> AgedCell(c, s)]
    BY DEF Alloc
  <1>1. countdown' = countdown
    BY DEF Alloc
  <1>2. CASE \E s \in Live : text[s] = x /\ rooted' = rooted \cup {s} /\ UNCHANGED <<text, cells>>
    BY <1>1, <1>2 DEF Inv, TypeOK, AgesAreBounded, CellAge, Since, Occupied, Live
  <1>3. ASSUME NEW s \in Slots \ Live,
               text' = [text EXCEPT ![s] = x], rooted' = rooted \cup {s},
               cells' = [c \in Sites |-> AgedCell(c, s)]
        PROVE  Inv'
    <2>1. cells' \in [Sites -> Cell \cup {NoEntry}] /\ AgesAreBounded'
      BY <1>1, <1>3, ReuseStep
    <2>2. text' \in [Slots -> Texts \cup {NoEntry}] /\ rooted' \subseteq Live'
      BY <1>3, WeakHandlesAssumption DEF Inv, TypeOK, Live, Occupied
    <2> QED
      BY <1>1, <2>1, <2>2 DEF Inv, TypeOK, Cell
  <1> QED BY <1>2, <1>3

(* A collection frees the unreachable slots and counts towards the prune. *)
LEMMA CollectStep == ASSUME Inv, Collect PROVE Inv'
  <1>1. countdown' = IF PruneDue THEN PruneInterval ELSE countdown - 1
    BY DEF Collect
  <1>2. countdown' \in 1 .. PruneInterval
    BY <1>1, WeakHandlesAssumption DEF PruneDue, Inv, TypeOK
  <1>3. text' \in [Slots -> Texts \cup {NoEntry}] /\ rooted' \subseteq Live'
    BY DEF Collect, Inv, TypeOK, Live, Occupied
  <1>4. ASSUME NEW c \in Sites
        PROVE  /\ cells'[c] \in Cell \cup {NoEntry}
               /\ cells'[c] # NoEntry => CellAge(cells[c])'
    <2>1. cells'[c] = SweptCell(c)
      BY DEF Collect
    <2>2. CASE cells[c] = NoEntry
      BY <2>1, <2>2 DEF SweptCell
    <2>3. CASE cells[c] # NoEntry
      <3>1. cells[c] \in Cell /\ CellAge(cells[c])
        BY <2>3 DEF Inv, TypeOK, Cell, AgesAreBounded
      <3>2. /\ cells[c].slot \in Slots /\ cells[c].age \in Nat /\ cells[c].dead \in BOOLEAN
            /\ Since \in Nat /\ (~PruneDue => Since' = Since + 1)
        BY <1>1, <3>1, WeakHandlesAssumption DEF Cell, Ages, Since, PruneDue, Inv, TypeOK
      <3>3. (text'[cells[c].slot] # NoEntry) <=> cells[c].slot \in rooted
        BY <3>2 DEF Collect, Occupied, Inv, TypeOK, Live
      <3>4. CASE Survives(cells[c])
        BY <2>1, <3>1, <3>2, <3>3, <3>4 DEF SweptCell, Survives, CellAge, Inv, TypeOK, Live, Occupied
      <3>5. CASE ~Survives(cells[c]) /\ PruneDue
        BY <2>1, <2>3, <3>5 DEF SweptCell
      <3>6. CASE ~Survives(cells[c]) /\ ~PruneDue
        <4>1. cells'[c] = [cells[c] EXCEPT !.dead = TRUE]
          BY <2>1, <2>3, <3>6 DEF SweptCell
        <4>2. /\ cells'[c] \in Cell /\ cells'[c].dead
              /\ cells'[c].slot = cells[c].slot /\ cells'[c].age = cells[c].age
          BY <3>1, <4>1 DEF Cell
        <4>3. cells[c].age <= Since
          BY <3>1, <3>2 DEF CellAge
        <4>4. cells[c].slot \in rooted => 1 <= cells[c].age
          BY <3>1, <3>2, <3>6 DEF Survives, CellAge
        <4> QED
          BY <3>2, <3>3, <3>6, <4>2, <4>3, <4>4 DEF CellAge, Occupied
      <3> QED BY <3>4, <3>5, <3>6
    <2> QED BY <2>2, <2>3
  <1>5. cells' \in [Sites -> Cell \cup {NoEntry}] /\ AgesAreBounded'
    <2>1. cells' = [c \in Sites |-> SweptCell(c)]
      BY DEF Collect
    <2> QED BY <1>4, <2>1 DEF AgesAreBounded
  <1> QED
    BY <1>2, <1>3, <1>5 DEF Inv, TypeOK, Cell

LEMMA FillStep == ASSUME Inv, FillCell PROVE Inv'
  <1> PICK c \in Sites, s \in rooted :
        cells' = [cells EXCEPT ![c] = [slot |-> s, age |-> 0, dead |-> FALSE]]
    BY DEF FillCell
  <1>1. s \in Slots /\ Occupied(s) /\ UNCHANGED <<text, rooted, countdown>>
    BY DEF FillCell, Inv, TypeOK, Live
  <1> DEFINE h == [slot |-> s, age |-> 0, dead |-> FALSE]
  <1>2. h \in Cell
    BY <1>1, WeakHandlesAssumption DEF Cell, Ages
  <1>3. CellAge(h)'
    BY <1>1 DEF CellAge, Occupied
  <1>4. cells' \in [Sites -> Cell \cup {NoEntry}]
    BY <1>2 DEF Inv, TypeOK, Cell
  <1>5. \A d \in Sites : d # c => cells'[d] = cells[d]
    BY DEF Inv, TypeOK
  <1>6. AgesAreBounded'
    BY <1>1, <1>2, <1>3, <1>5 DEF AgesAreBounded, CellAge, Since, Occupied, Inv, TypeOK
  <1> QED
    BY <1>1, <1>4, <1>6 DEF Inv, TypeOK, Cell, Live, Occupied

(* The other actions leave the heap and the cells alone. *)
LEMMA OtherSteps ==
    ASSUME Inv, DropRoot \/ UsePattern \/ UNCHANGED vars
    PROVE  Inv'
  <1>1. UNCHANGED <<text, cells, countdown>> /\ rooted' \subseteq rooted
    <2>1. CASE UsePattern
      BY <2>1 DEF UsePattern
    <2>2. CASE DropRoot \/ UNCHANGED vars
      BY <2>2 DEF DropRoot, vars
    <2> QED BY <2>1, <2>2
  <1> QED
    BY <1>1 DEF Inv, TypeOK, AgesAreBounded, CellAge, Since, Occupied, Live

(***************************************************************************)
(* The inductive invariant holds, for every arena, interval and space.     *)
(***************************************************************************)
THEOREM CellInvariant == Spec => []Inv
  <1>1. Inv /\ [Next]_vars => Inv'
    BY AllocStep, CollectStep, FillStep, OtherSteps DEF Next
  <1> QED
    BY <1>1, InitInv, PTL DEF Spec

(***************************************************************************)
(* No cache entry answers for an object it was not filled for, whatever    *)
(* the number of slots and sites, as long as the prune interval is below   *)
(* the generation space: the assertion beside CACHE_PRUNE_INTERVAL.        *)
(***************************************************************************)
THEOREM CacheEntriesNeverAlias == Spec => []NoEntryAliases
  <1>1. Inv => NoEntryAliases
    <2> SUFFICES ASSUME Inv, NEW c \in Sites, cells[c] # NoEntry,
                        Matches(cells[c], cells[c].slot)
                 PROVE  ~cells[c].dead
      BY DEF NoEntryAliases
    <2> QED
      BY DEF Inv, AgesAreBounded, CellAge, Matches
  <1> QED
    BY <1>1, CellInvariant, PTL

-----------------------------------------------------------------------------
(* Recursion over the entries of the pattern cache.  A property of the     *)
(* numbers up to n is a set G of numbers, a step of a recursive function   *)
(* is itself a function, and the least counterexample gives induction.     *)

LEMMA LeastElement ==
    ASSUME NEW T \in SUBSET Nat, T # {}
    PROVE  \E x \in T : \A y \in T : x <= y
  <1> DEFINE R == OpToRel(<, Nat)
  <1>1. IsWellFoundedOn(R, Nat)
    BY NatLessThanWellFounded, Zenon
  <1>2. \A a, b \in Nat : a < b => <<a, b>> \in R
    BY DEF OpToRel
  <1> HIDE DEF R
  <1>3. PICK x \in T : \A y \in T : ~ (<<y, x>> \in R)
    BY <1>1, WFMin, Zenon
  <1>4. \A y \in T : ~ (y < x)
    BY <1>2, <1>3, Zenon
  <1>5. \A y \in T : x <= y
    BY <1>4
  <1> QED
    BY <1>5

LEMMA UpTo ==
    ASSUME NEW n \in Nat, NEW G, 0 \in G, \A k \in 1 .. n : k - 1 \in G => k \in G
    PROVE  \A k \in 0 .. n : k \in G
  <1> DEFINE Bad == {k \in 0 .. n : k \notin G}
  <1> SUFFICES ASSUME Bad # {} PROVE FALSE
    OBVIOUS
  <1>1. PICK k \in Bad : \A y \in Bad : k <= y
    <2>1. Bad \in SUBSET Nat
      OBVIOUS
    <2> HIDE DEF Bad
    <2> QED
      BY <2>1, LeastElement, Zenon
  <1>2. k \in 1 .. n /\ k \notin G
    BY <1>1
  <1>3. k - 1 \in 0 .. n /\ k - 1 \notin Bad
    BY <1>1, <1>2
  <1>4. k - 1 \in G
    BY <1>3
  <1> QED
    BY <1>2, <1>4

(* Computes(u, z, g, k): u follows the steps g from z as far as k *)
Computes(u, z, g, k) == u[0] = z /\ \A j \in 1 .. k : u[j] = g[j][u[j - 1]]

LEMMA RecursionExists ==
    ASSUME NEW S, NEW z \in S, NEW n \in Nat, NEW g \in [1 .. n -> [S -> S]]
    PROVE  \E u \in [0 .. n -> S] : Computes(u, z, g, n)
  <1> DEFINE G == {k \in 0 .. n : \E u \in [0 .. n -> S] : Computes(u, z, g, k)}
  <1>1. 0 \in G
    <2> DEFINE u == [k \in 0 .. n |-> z]
    <2>1. u \in [0 .. n -> S] /\ Computes(u, z, g, 0)
      BY DEF Computes
    <2> QED
      BY <2>1
  <1>2. ASSUME NEW k \in 1 .. n, k - 1 \in G PROVE k \in G
    <2>1. PICK u \in [0 .. n -> S] : Computes(u, z, g, k - 1)
      BY <1>2
    <2> DEFINE w == [u EXCEPT ![k] = g[k][u[k - 1]]]
    <2>2. u[k - 1] \in S
      OBVIOUS
    <2>3. g[k][u[k - 1]] \in S
      BY <2>2
    <2>4. w \in [0 .. n -> S]
      BY <2>3
    <2>5. \A j \in 0 .. n : w[j] = IF j = k THEN g[k][u[k - 1]] ELSE u[j]
      OBVIOUS
    <2> HIDE DEF w
    <2>6. Computes(w, z, g, k)
      BY <2>1, <2>5 DEF Computes
    <2> QED
      BY <2>4, <2>6
  <1> HIDE DEF G
  <1>3. \A k \in 0 .. n : k \in G
    BY <1>1, <1>2, UpTo
  <1>4. n \in G
    BY <1>3
  <1> QED
    BY <1>4 DEF G

-----------------------------------------------------------------------------
(* The bytes of a list of entries. *)
Entry == [slot : Slots, age : {0}, mode : AnchorModes, text : Texts]

Summing(e, t) ==
    t = [k \in 0 .. Len(e) |-> IF k = 0 THEN 0 ELSE t[k - 1] + Length(e[k].text)]

LEMMA BytesAreASum ==
    ASSUME NEW e
    PROVE  BytesOf(e) = (CHOOSE t : Summing(e, t))[Len(e)]
  BY DEF BytesOf, Summing

LEMMA EntryLengths ==
    ASSUME NEW e \in Seq(Entry), NEW k \in 1 .. Len(e)
    PROVE  e[k] \in Entry /\ e[k].text \in Texts /\ Length(e[k].text) \in Nat
  <1>1. e[k] \in Entry
    OBVIOUS
  <1>2. e[k].text \in Texts
    BY <1>1 DEF Entry
  <1> QED
    BY <1>1, <1>2, WeakHandlesAssumption

LEMMA SumExists ==
    ASSUME NEW e \in Seq(Entry)
    PROVE  \E t : Summing(e, t)
  <1> DEFINE n == Len(e)
             len(k) == Length(e[k].text)
             g == [k \in 1 .. n |-> [m \in Nat |-> m + len(k)]]
  <1>1. n \in Nat /\ \A k \in 1 .. n : len(k) \in Nat
    BY EntryLengths
  <1> HIDE DEF len
  <1>2. g \in [1 .. n -> [Nat -> Nat]]
    BY <1>1
  <1>3. \A k \in 1 .. n, m \in Nat : g[k][m] = m + len(k)
    OBVIOUS
  <1> HIDE DEF g
  <1>4. PICK u \in [0 .. n -> Nat] : Computes(u, 0, g, n)
    BY <1>1, <1>2, RecursionExists
  <1>5. \A k \in 0 .. n : u[k] = IF k = 0 THEN 0 ELSE u[k - 1] + len(k)
    <2>1. u[0] = 0 /\ \A k \in 1 .. n : u[k] = g[k][u[k - 1]]
      BY <1>4 DEF Computes
    <2>2. \A k \in 1 .. n : u[k - 1] \in Nat
      BY <1>1
    <2>3. \A k \in 1 .. n : u[k] = u[k - 1] + len(k)
      BY <1>3, <2>1, <2>2
    <2> QED
      BY <1>1, <2>1, <2>3
  <1>6. u = [k \in 0 .. n |-> IF k = 0 THEN 0 ELSE u[k - 1] + len(k)]
    BY <1>5
  <1>7. Summing(e, u)
    BY <1>6, Zenon DEF Summing, len
  <1> QED
    BY <1>7

SumsOf(e, t) ==
    /\ t[0] = 0
    /\ \A k \in 1 .. Len(e) : t[k] = t[k - 1] + Length(e[k].text)
    /\ \A k \in 0 .. Len(e) : t[k] \in Nat

LEMMA SumMeans ==
    ASSUME NEW e \in Seq(Entry), NEW t, Summing(e, t)
    PROVE  SumsOf(e, t)
  <1> DEFINE n == Len(e)
             len(k) == Length(e[k].text)
             D == 0 .. n
             f == [k \in D |-> IF k = 0 THEN 0 ELSE t[k - 1] + len(k)]
  <1>1. t = f
    BY Zenon DEF Summing
  <1>2. \A k \in D : f[k] = IF k = 0 THEN 0 ELSE t[k - 1] + len(k)
    OBVIOUS
  <1>3. n \in Nat /\ \A k \in 1 .. n : len(k) \in Nat
    BY EntryLengths
  <1> HIDE DEF f, len
  <1>4. \A k \in D : t[k] = IF k = 0 THEN 0 ELSE t[k - 1] + len(k)
    BY <1>1, <1>2
  <1>5. t[0] = 0 /\ \A k \in 1 .. n : t[k] = t[k - 1] + len(k)
    BY <1>3, <1>4
  <1> DEFINE G == {k \in 0 .. n : t[k] \in Nat}
  <1>6. 0 \in G /\ \A k \in 1 .. n : k - 1 \in G => k \in G
    BY <1>3, <1>5
  <1>7. \A k \in 0 .. n : k \in G
    <2> HIDE DEF G
    <2> QED
      BY <1>3, <1>6, UpTo
  <1> QED
    BY <1>5, <1>7 DEF SumsOf, len

LEMMA BytesAreSummed ==
    ASSUME NEW e \in Seq(Entry)
    PROVE  \E t : SumsOf(e, t) /\ BytesOf(e) = t[Len(e)]
  <1> DEFINE t == CHOOSE u : Summing(e, u)
  <1>1. Summing(e, t)
    BY SumExists
  <1>2. BytesOf(e) = t[Len(e)]
    BY BytesAreASum
  <1> HIDE DEF t
  <1>3. SumsOf(e, t)
    BY <1>1, SumMeans
  <1> QED
    BY <1>2, <1>3

LEMMA BytesAreNat ==
    ASSUME NEW e \in Seq(Entry)
    PROVE  BytesOf(e) \in Nat
  <1>1. PICK t : SumsOf(e, t) /\ BytesOf(e) = t[Len(e)]
    BY BytesAreSummed
  <1> QED
    BY <1>1 DEF SumsOf

LEMMA BytesEmpty == BytesOf(<<>>) = 0
  <1>1. ASSUME NEW e \in Seq(Entry), Len(e) = 0 PROVE BytesOf(e) = 0
    <2>1. PICK t : SumsOf(e, t) /\ BytesOf(e) = t[Len(e)]
      BY BytesAreSummed
    <2> QED
      BY <1>1, <2>1 DEF SumsOf
  <1>2. <<>> \in Seq(Entry) /\ Len(<<>>) = 0
    OBVIOUS
  <1> QED
    BY <1>1, <1>2, Zenon

LEMMA BytesAppend ==
    ASSUME NEW e \in Seq(Entry), NEW h \in Entry
    PROVE  BytesOf(e) \in Nat /\ BytesOf(Append(e, h)) = BytesOf(e) + Length(h.text)
  <1> DEFINE y == Append(e, h)
             n == Len(e)
  <1>1. y \in Seq(Entry) /\ Len(y) = n + 1 /\ y[n + 1] = h /\ \A k \in 1 .. n : y[k] = e[k]
    OBVIOUS
  <1>2. n \in Nat
    OBVIOUS
  <1> HIDE DEF y, n
  <1>3. PICK t : SumsOf(e, t) /\ BytesOf(e) = t[Len(e)]
    BY BytesAreSummed
  <1>4. PICK u : SumsOf(y, u) /\ BytesOf(y) = u[Len(y)]
    BY <1>1, BytesAreSummed
  <1> DEFINE G == {k \in 0 .. n : t[k] = u[k]}
  <1>5. 0 \in G
    BY <1>2, <1>3, <1>4 DEF SumsOf
  <1>6. ASSUME NEW k \in 1 .. n, k - 1 \in G PROVE k \in G
    <2>1. t[k] = t[k - 1] + Length(e[k].text)
      BY <1>3 DEF SumsOf, n
    <2>2. k \in 1 .. Len(y) /\ y[k] = e[k]
      BY <1>1, <1>2
    <2>3. u[k] = u[k - 1] + Length(e[k].text)
      BY <1>4, <2>2 DEF SumsOf
    <2>4. t[k - 1] = u[k - 1] /\ k \in 0 .. n
      BY <1>2, <1>6
    <2> QED
      BY <2>1, <2>3, <2>4
  <1>7. n \in G
    <2>1. \A k \in 0 .. n : k \in G
      <3> HIDE DEF G
      <3> QED
        BY <1>2, <1>5, <1>6, UpTo
    <2> QED
      BY <1>2, <2>1
  <1>8. t[n] \in Nat /\ t[n] = u[n]
    BY <1>2, <1>3, <1>7 DEF SumsOf, n
  <1>9. u[n + 1] = u[n] + Length(h.text)
    <2>1. n + 1 \in 1 .. Len(y) /\ (n + 1) - 1 = n
      BY <1>1, <1>2
    <2>2. u[n + 1] = u[(n + 1) - 1] + Length(y[n + 1].text)
      BY <1>4, <2>1, Zenon DEF SumsOf
    <2> QED
      BY <1>1, <2>1, <2>2
  <1> QED
    BY <1>1, <1>3, <1>4, <1>8, <1>9 DEF n, y

-----------------------------------------------------------------------------
(* A prune keeps entries of the list, in order, each once. *)
Distinct(e) ==
    \A i, j \in 1 .. Len(e) : e[i].text = e[j].text /\ e[i].mode = e[j].mode => i = j

Pruning(e, t) ==
    t = [k \in 0 .. Len(e) |-> IF k = 0 THEN <<>>
                               ELSE IF Survives(e[k]) THEN Append(t[k - 1], e[k])
                               ELSE t[k - 1]]

LEMMA PruneIsChosen ==
    ASSUME NEW e
    PROVE  PrunePatterns(e) = (CHOOSE t : Pruning(e, t))[Len(e)]
  BY DEF PrunePatterns, Pruning

LEMMA PruneExists ==
    ASSUME NEW e \in Seq(Entry)
    PROVE  \E t : Pruning(e, t)
  <1> DEFINE n == Len(e)
             step(k, s) == IF Survives(e[k]) THEN Append(s, e[k]) ELSE s
             g == [k \in 1 .. n |-> [s \in Seq(Entry) |-> step(k, s)]]
  <1>1. n \in Nat /\ \A k \in 1 .. n : e[k] \in Entry
    OBVIOUS
  <1>2. \A k \in 1 .. n, s \in Seq(Entry) : step(k, s) \in Seq(Entry)
    BY <1>1
  <1> HIDE DEF step
  <1>3. g \in [1 .. n -> [Seq(Entry) -> Seq(Entry)]]
    BY <1>1, <1>2
  <1>4. \A k \in 1 .. n, s \in Seq(Entry) : g[k][s] = step(k, s)
    OBVIOUS
  <1> HIDE DEF g
  <1>5. PICK u \in [0 .. n -> Seq(Entry)] : Computes(u, <<>>, g, n)
    <2>1. <<>> \in Seq(Entry)
      OBVIOUS
    <2> QED
      BY <1>1, <1>3, <2>1, RecursionExists
  <1>6. \A k \in 0 .. n : u[k] = IF k = 0 THEN <<>> ELSE step(k, u[k - 1])
    <2>1. u[0] = <<>> /\ \A k \in 1 .. n : u[k] = g[k][u[k - 1]]
      BY <1>5 DEF Computes
    <2>2. \A k \in 1 .. n : u[k - 1] \in Seq(Entry)
      BY <1>1
    <2>3. \A k \in 1 .. n : u[k] = step(k, u[k - 1])
      BY <1>4, <2>1, <2>2
    <2> QED
      BY <1>1, <2>1, <2>3
  <1>7. u = [k \in 0 .. n |-> IF k = 0 THEN <<>> ELSE step(k, u[k - 1])]
    BY <1>6
  <1>8. Pruning(e, u)
    BY <1>7, Zenon DEF Pruning, step
  <1> QED
    BY <1>8

LEMMA PruneMeans ==
    ASSUME NEW e \in Seq(Entry), NEW t, Pruning(e, t)
    PROVE  /\ t[0] = <<>>
           /\ \A k \in 1 .. Len(e) :
                 \/ Survives(e[k]) /\ t[k] = Append(t[k - 1], e[k])
                 \/ t[k] = t[k - 1]
  <1> DEFINE n == Len(e)
             step(k) == IF Survives(e[k]) THEN Append(t[k - 1], e[k]) ELSE t[k - 1]
             D == 0 .. n
             f == [k \in D |-> IF k = 0 THEN <<>> ELSE step(k)]
  <1>1. t = f
    BY Zenon DEF Pruning
  <1>2. \A k \in D : f[k] = IF k = 0 THEN <<>> ELSE step(k)
    OBVIOUS
  <1>3. \A k \in 1 .. n : \/ Survives(e[k]) /\ step(k) = Append(t[k - 1], e[k])
                          \/ step(k) = t[k - 1]
    BY Zenon
  <1> HIDE DEF f, step
  <1>4. \A k \in D : t[k] = IF k = 0 THEN <<>> ELSE step(k)
    BY <1>1, <1>2
  <1>5. 0 \in D /\ \A k \in 1 .. n : k \in D /\ k # 0
    OBVIOUS
  <1>6. t[0] = <<>> /\ \A k \in 1 .. n : t[k] = step(k)
    BY <1>4, <1>5
  <1> QED
    BY <1>3, <1>6, Zenon

LEMMA AppendDistinct ==
    ASSUME NEW e \in Seq(Entry), Distinct(e), NEW h \in Entry,
           \A i \in 1 .. Len(e) : ~(e[i].text = h.text /\ e[i].mode = h.mode)
    PROVE  Distinct(Append(e, h))
  <1> DEFINE y == Append(e, h)
             n == Len(e)
  <1>1. /\ Len(y) = n + 1 /\ y[n + 1] = h /\ \A k \in 1 .. n : y[k] = e[k]
        /\ \A i \in 1 .. n + 1 : i \in 1 .. n \/ i = n + 1
    OBVIOUS
  <1> HIDE DEF y
  <1>2. SUFFICES ASSUME NEW i \in 1 .. n + 1, NEW j \in 1 .. n + 1,
                        y[i].text = y[j].text, y[i].mode = y[j].mode
                 PROVE  i = j
    BY <1>1 DEF Distinct, y
  <1>3. CASE i \in 1 .. n /\ j \in 1 .. n
    BY <1>1, <1>2, <1>3 DEF Distinct
  <1>4. CASE i \in 1 .. n /\ j = n + 1
    BY <1>1, <1>2, <1>4
  <1>5. CASE i = n + 1 /\ j \in 1 .. n
    BY <1>1, <1>2, <1>5
  <1> QED
    BY <1>1, <1>3, <1>4, <1>5

(* s was selected from the first k entries of e *)
SelectedFrom(s, e, k) ==
    /\ s \in Seq(Entry) /\ Distinct(s) /\ Len(s) <= k
    /\ \A i \in 1 .. Len(s) : \E j \in 1 .. k : s[i] = e[j] /\ Survives(e[j])

LEMMA SelectedAppend ==
    ASSUME NEW e \in Seq(Entry), Distinct(e), NEW k \in 1 .. Len(e), NEW s,
           SelectedFrom(s, e, k - 1), Survives(e[k])
    PROVE  SelectedFrom(Append(s, e[k]), e, k)
  <1> DEFINE y == Append(s, e[k])
             m == Len(s)
  <1>1. s \in Seq(Entry) /\ e[k] \in Entry /\ m \in Nat /\ m <= k - 1
    BY DEF SelectedFrom
  <1>2. y \in Seq(Entry) /\ Len(y) = m + 1 /\ y[m + 1] = e[k] /\ \A i \in 1 .. m : y[i] = s[i]
    BY <1>1
  <1>3. \A i \in 1 .. m : \E j \in 1 .. k - 1 : s[i] = e[j] /\ Survives(e[j])
    BY DEF SelectedFrom
  <1> HIDE DEF y, m
  <1>4. \A i \in 1 .. m + 1 : i \in 1 .. m \/ i = m + 1
    BY <1>1
  <1>5. \A i \in 1 .. Len(y) : \E j \in 1 .. k : y[i] = e[j] /\ Survives(e[j])
    <2> TAKE i \in 1 .. Len(y)
    <2>1. CASE i = m + 1
      BY <1>2, <2>1
    <2>2. CASE i \in 1 .. m
      <3>1. PICK j \in 1 .. k - 1 : s[i] = e[j] /\ Survives(e[j])
        BY <1>3, <2>2
      <3>2. j \in 1 .. k
        BY <3>1
      <3> QED
        BY <1>2, <2>2, <3>1, <3>2
    <2> QED
      BY <1>2, <1>4, <2>1, <2>2
  <1>6. \A i \in 1 .. m : ~(s[i].text = e[k].text /\ s[i].mode = e[k].mode)
    <2> TAKE i \in 1 .. m
    <2>1. PICK j \in 1 .. k - 1 : s[i] = e[j]
      BY <1>3
    <2>2. j \in 1 .. Len(e) /\ k \in 1 .. Len(e) /\ j # k
      BY <2>1
    <2>3. ~(e[j].text = e[k].text /\ e[j].mode = e[k].mode)
      BY <2>2 DEF Distinct
    <2> QED
      BY <2>1, <2>3
  <1>7. Distinct(y)
    BY <1>1, <1>6, AppendDistinct DEF SelectedFrom, y, m
  <1>8. Len(y) <= k
    BY <1>1, <1>2
  <1> QED
    BY <1>2, <1>5, <1>7, <1>8 DEF SelectedFrom, y

LEMMA PruneSelects ==
    ASSUME NEW e \in Seq(Entry), Distinct(e)
    PROVE  /\ SelectedFrom(PrunePatterns(e), e, Len(e))
           /\ BytesOf(PrunePatterns(e)) <= BytesOf(e)
  <1> DEFINE t == CHOOSE u : Pruning(e, u)
             n == Len(e)
  <1>1. Pruning(e, t)
    BY PruneExists
  <1>2. PrunePatterns(e) = t[n]
    BY PruneIsChosen
  <1> HIDE DEF t
  <1>3. /\ t[0] = <<>>
        /\ \A k \in 1 .. n : \/ Survives(e[k]) /\ t[k] = Append(t[k - 1], e[k])
                             \/ t[k] = t[k - 1]
    BY <1>1, PruneMeans
  <1>4. PICK w : SumsOf(e, w) /\ BytesOf(e) = w[n]
    BY BytesAreSummed
  <1>5. n \in Nat /\ \A k \in 1 .. n : e[k] \in Entry /\ Length(e[k].text) \in Nat
    BY EntryLengths
  <1>6. /\ w[0] = 0
        /\ \A k \in 1 .. n : w[k] = w[k - 1] + Length(e[k].text)
        /\ \A k \in 0 .. n : w[k] \in Nat
    BY <1>4 DEF SumsOf
  <1> HIDE DEF n
  <1> DEFINE G == {k \in 0 .. n : SelectedFrom(t[k], e, k) /\ BytesOf(t[k]) <= w[k]}
  <1>7. 0 \in G
    <2>1. <<>> \in Seq(Entry) /\ Len(<<>>) = 0 /\ 0 \in 0 .. n
      BY <1>5
    <2>2. SelectedFrom(<<>>, e, 0)
      BY <2>1 DEF SelectedFrom, Distinct
    <2> QED
      BY <1>3, <1>6, <2>1, <2>2, BytesEmpty
  <1>8. ASSUME NEW k \in 1 .. n, k - 1 \in G PROVE k \in G
    <2>1. /\ SelectedFrom(t[k - 1], e, k - 1) /\ BytesOf(t[k - 1]) <= w[k - 1]
          /\ k - 1 \in 0 .. n /\ k \in 0 .. n
      BY <1>5, <1>8
    <2>2. t[k - 1] \in Seq(Entry)
      BY <2>1 DEF SelectedFrom
    <2>3. /\ BytesOf(t[k - 1]) \in Nat
          /\ BytesOf(Append(t[k - 1], e[k])) = BytesOf(t[k - 1]) + Length(e[k].text)
      BY <1>5, <2>2, BytesAppend
    <2>4. w[k] = w[k - 1] + Length(e[k].text) /\ w[k - 1] \in Nat /\ Length(e[k].text) \in Nat
      BY <1>5, <1>6, <2>1
    <2>5. CASE Survives(e[k]) /\ t[k] = Append(t[k - 1], e[k])
      <3>1. SelectedFrom(t[k], e, k)
        BY <2>1, <2>5, SelectedAppend DEF n
      <3>2. BytesOf(t[k]) = BytesOf(t[k - 1]) + Length(e[k].text)
        BY <2>3, <2>5
      <3>3. BytesOf(t[k]) <= w[k]
        BY <2>1, <2>3, <2>4, <3>2
      <3> QED
        BY <2>1, <3>1, <3>3
    <2>6. CASE t[k] = t[k - 1]
      <3>1. SelectedFrom(t[k - 1], e, k)
        <4>1. \A j \in 1 .. k - 1 : j \in 1 .. k
          BY <2>1
        <4>2. \A m \in Nat : m <= k - 1 => m <= k
          BY <1>5
        <4>3. Len(t[k - 1]) \in Nat
          BY <2>2
        <4> QED
          BY <2>1, <4>1, <4>2, <4>3, Zenon DEF SelectedFrom
      <3>2. BytesOf(t[k - 1]) <= w[k]
        BY <2>1, <2>3, <2>4
      <3> QED
        BY <2>1, <2>6, <3>1, <3>2
    <2> QED
      BY <1>3, <2>5, <2>6
  <1>9. n \in G
    <2>1. \A k \in 0 .. n : k \in G
      <3> HIDE DEF G
      <3> QED
        BY <1>5, <1>7, <1>8, UpTo
    <2> QED
      BY <1>5, <2>1
  <1> QED
    BY <1>2, <1>4, <1>9 DEF n

(* What is evicted for a new entry leaves it room. *)
LEMMA RoomIsMade ==
    ASSUME patterns \in Seq(Entry), NEW n \in Nat, PatternEntries # 0, n <= PatternBytes
    PROVE  \E m \in 0 .. Len(patterns) :
              /\ RoomFor(n) = SubSeq(patterns, m + 1, Len(patterns))
              /\ Len(RoomFor(n)) < PatternEntries
              /\ BytesOf(RoomFor(n)) + n <= PatternBytes
  <1> DEFINE Rest(k) == SubSeq(patterns, k + 1, Len(patterns))
             Fits(k) == Len(Rest(k)) < PatternEntries /\ BytesOf(Rest(k)) + n <= PatternBytes
             kept == {k \in 0 .. Len(patterns) : Fits(k)}
             m == Min(kept)
  <1>1. Len(patterns) \in kept
    <2>1. Rest(Len(patterns)) = <<>>
      OBVIOUS
    <2> HIDE DEF Rest
    <2>2. Fits(Len(patterns))
      BY <2>1, BytesEmpty, WeakHandlesAssumption
    <2> HIDE DEF Fits
    <2> QED
      BY <2>2
  <1>2. RoomFor(n) = Rest(m)
    BY DEF RoomFor
  <1>3. m \in kept
    <2>1. kept \in SUBSET Nat /\ kept # {}
      BY <1>1
    <2> HIDE DEF kept
    <2>2. \E x \in kept : \A y \in kept : x <= y
      BY <2>1, LeastElement, Zenon
    <2> QED
      BY <2>2 DEF Min
  <1> HIDE DEF m
  <1>4. m \in 0 .. Len(patterns) /\ Fits(m)
    BY <1>3
  <1> QED
    BY <1>2, <1>4

-----------------------------------------------------------------------------
(***************************************************************************)
(* The invariant of the pattern cache.  An entry's slot is never vacated   *)
(* while the entry lives, since only a collection vacates slots and it     *)
(* prunes the cache; so every age is 0, and the string in the slot is the  *)
(* one compiled.  Strings are interned: a text is in one slot.             *)
(***************************************************************************)
Answers(h) == text[h.slot] = h.text /\ h.mode = Effective(h.mode, h.text)

Interned == \A r, s \in Slots : text[r] \in Texts /\ text[r] = text[s] => r = s

PatternInv ==
    /\ patterns \in Seq(Entry) /\ Distinct(patterns)
    /\ \A i \in 1 .. Len(patterns) : Answers(patterns[i])
    /\ Interned
    /\ Len(patterns) <= PatternEntries
    /\ BytesOf(patterns) <= PatternBytes /\ bytes = BytesOf(patterns)

LEMMA InitPatterns == Init => PatternInv
  <1> SUFFICES ASSUME Init PROVE PatternInv
    OBVIOUS
  <1>1. patterns = <<>> /\ <<>> \in Seq(Entry) /\ Len(<<>>) = 0 /\ bytes = 0
    BY DEF Init
  <1>2. Interned
    BY WeakHandlesAssumption DEF Init, Interned
  <1>3. Distinct(patterns) /\ \A i \in 1 .. Len(patterns) : Answers(patterns[i])
    BY <1>1 DEF Distinct
  <1> QED
    BY <1>1, <1>2, <1>3, BytesEmpty, WeakHandlesAssumption DEF PatternInv

(* Allocation: an entry's slot is occupied, so it is not the one reused. *)
LEMMA AllocPatterns == ASSUME Inv, PatternInv, Alloc PROVE PatternInv'
  <1>1. PICK x \in Texts :
        \/ UNCHANGED <<text, patterns>>
        \/ /\ \A s \in Live : text[s] # x
           /\ \E s \in Slots \ Live :
                 /\ text' = [text EXCEPT ![s] = x]
                 /\ patterns' = [i \in DOMAIN patterns |-> Aged(patterns[i], s)]
    BY DEF Alloc
  <1>2. bytes' = bytes
    BY DEF Alloc
  <1>3. CASE UNCHANGED <<text, patterns>>
    BY <1>2, <1>3 DEF PatternInv, Answers, Interned
  <1>4. ASSUME NEW s \in Slots \ Live, \A r \in Live : text[r] # x,
               text' = [text EXCEPT ![s] = x],
               patterns' = [i \in DOMAIN patterns |-> Aged(patterns[i], s)]
        PROVE  PatternInv'
    <2>1. text \in [Slots -> Texts \cup {NoEntry}] /\ text[s] = NoEntry
      BY <1>4 DEF Inv, TypeOK, Live, Occupied
    <2>2. ASSUME NEW i \in 1 .. Len(patterns)
          PROVE  /\ patterns[i].slot \in Slots /\ patterns[i].slot # s
                 /\ Aged(patterns[i], s) = patterns[i]
      <3>1. patterns[i] \in Entry /\ text[patterns[i].slot] = patterns[i].text
        BY DEF PatternInv, Answers
      <3>2. patterns[i].slot \in Slots /\ patterns[i].text \in Texts
        BY <3>1 DEF Entry
      <3>3. patterns[i].slot # s
        BY <2>1, <3>1, <3>2, WeakHandlesAssumption
      <3> QED
        BY <3>2, <3>3 DEF Aged
    <2>3. patterns' = patterns
      <3>1. patterns \in Seq(Entry) /\ DOMAIN patterns = 1 .. Len(patterns)
        BY DEF PatternInv
      <3>2. patterns' = [i \in 1 .. Len(patterns) |-> patterns[i]]
        BY <1>4, <2>2, <3>1
      <3> QED
        BY <3>1, <3>2
    <2>4. \A r \in Slots : text'[r] = IF r = s THEN x ELSE text[r]
      BY <1>4, <2>1
    <2>5. Interned'
      <3> SUFFICES ASSUME NEW r \in Slots, NEW q \in Slots,
                          text'[r] \in Texts, text'[r] = text'[q]
                   PROVE  r = q
        BY DEF Interned
      <3>1. \A p \in Slots : p # s => text'[p] = text[p] /\ (text[p] \in Texts => text[p] # x)
        BY <1>4, <2>4, WeakHandlesAssumption DEF Live, Occupied
      <3>2. CASE r = s \/ q = s
        BY <2>4, <3>1, <3>2
      <3>3. CASE r # s /\ q # s
        BY <3>1, <3>3 DEF PatternInv, Interned
      <3> QED
        BY <3>2, <3>3
    <2>6. \A i \in 1 .. Len(patterns) : text'[patterns[i].slot] = text[patterns[i].slot]
      BY <2>2, <2>4
    <2>7. \A i \in 1 .. Len(patterns) : Answers(patterns[i])'
      BY <2>3, <2>6 DEF PatternInv, Answers
    <2> QED
      BY <1>2, <2>3, <2>5, <2>7 DEF PatternInv
  <1> QED
    BY <1>1, <1>3, <1>4

LEMMA CollectPatterns == ASSUME Inv, PatternInv, Collect PROVE PatternInv'
  <1>0. PICK k : k = PrunePatterns(patterns)
    OBVIOUS
  <1>1. patterns \in Seq(Entry) /\ Distinct(patterns)
    BY DEF PatternInv
  <1>2. SelectedFrom(k, patterns, Len(patterns)) /\ BytesOf(k) <= BytesOf(patterns)
    BY <1>0, <1>1, PruneSelects
  <1>3. patterns' = k /\ bytes' = BytesOf(k)
    BY <1>0 DEF Collect
  <1>4. \A s \in Slots : text'[s] = IF s \in rooted THEN text[s] ELSE NoEntry
    BY DEF Collect
  <1>5. k \in Seq(Entry) /\ Distinct(k) /\ Len(k) <= Len(patterns)
    BY <1>2 DEF SelectedFrom
  <1>6. \A i \in 1 .. Len(k) : Answers(k[i])'
    <2> TAKE i \in 1 .. Len(k)
    <2>1. PICK j \in 1 .. Len(patterns) : k[i] = patterns[j] /\ Survives(patterns[j])
      BY <1>2 DEF SelectedFrom
    <2>2. patterns[j] \in Entry /\ Answers(patterns[j])
      BY <1>1 DEF PatternInv
    <2>3. patterns[j].slot \in Slots /\ patterns[j].slot \in rooted
      BY <2>1, <2>2 DEF Entry, Survives
    <2>4. text'[k[i].slot] = text[k[i].slot]
      BY <1>4, <2>1, <2>3
    <2>5. text[k[i].slot] = k[i].text /\ k[i].mode = Effective(k[i].mode, k[i].text)
      BY <2>1, <2>2 DEF Answers
    <2>6. text'[k[i].slot] = k[i].text
      BY <2>4, <2>5
    <2> QED
      BY <2>5, <2>6 DEF Answers, Effective
  <1>7. Interned'
    BY <1>4, WeakHandlesAssumption DEF PatternInv, Interned
  <1>8. BytesOf(k) <= PatternBytes /\ Len(k) <= PatternEntries
    BY <1>1, <1>2, <1>5, BytesAreNat, WeakHandlesAssumption DEF PatternInv
  <1> QED
    BY <1>3, <1>5, <1>6, <1>7, <1>8 DEF PatternInv

(* A room is a tail of the list. *)
PartOfCache(rest) ==
    /\ rest \in Seq(Entry) /\ Distinct(rest)
    /\ \A i \in 1 .. Len(rest) : \E j \in 1 .. Len(patterns) : rest[i] = patterns[j]

LEMMA TailOfPatterns ==
    ASSUME PatternInv, NEW m \in 0 .. Len(patterns), NEW rest,
           rest = SubSeq(patterns, m + 1, Len(patterns))
    PROVE  PartOfCache(rest)
  <1>1. patterns \in Seq(Entry) /\ Distinct(patterns)
    BY DEF PatternInv
  <1>2. /\ rest \in Seq(Entry) /\ Len(rest) = Len(patterns) - m
        /\ \A i \in 1 .. Len(rest) : rest[i] = patterns[m + i]
    BY <1>1
  <1>3. \A i \in 1 .. Len(rest) : m + i \in 1 .. Len(patterns)
    BY <1>1, <1>2
  <1>4. Distinct(rest)
    <2> SUFFICES ASSUME NEW i \in 1 .. Len(rest), NEW j \in 1 .. Len(rest),
                        rest[i].text = rest[j].text, rest[i].mode = rest[j].mode
                 PROVE  i = j
      BY DEF Distinct
    <2>1. rest[i] = patterns[m + i] /\ rest[j] = patterns[m + j]
      BY <1>2
    <2>2. m + i \in 1 .. Len(patterns) /\ m + j \in 1 .. Len(patterns)
      BY <1>3
    <2>3. patterns[m + i].text = patterns[m + j].text /\ patterns[m + i].mode = patterns[m + j].mode
      BY <2>1
    <2>4. m + i = m + j
      BY <1>1, <2>2, <2>3, Zenon DEF Distinct
    <2> QED
      BY <2>4
  <1> QED
    BY <1>2, <1>3, <1>4 DEF PartOfCache

(***************************************************************************)
(* A new entry.  One with the same text and mode would be for the same     *)
(* slot, since texts are interned, and would have been found.              *)
(***************************************************************************)
LEMMA UsePatterns == ASSUME Inv, PatternInv, UsePattern PROVE PatternInv'
  <1>1. PICK s \in rooted, m \in AnchorModes :
          /\ CachedPattern(s, Effective(m, text[s])) = {}
          /\ PatternEntries # 0 /\ Length(text[s]) <= PatternBytes
          /\ patterns' = Append(RoomFor(Length(text[s])),
                                [slot |-> s, age |-> 0, mode |-> Effective(m, text[s]), text |-> text[s]])
          /\ bytes' = BytesOf(RoomFor(Length(text[s]))) + Length(text[s])
    BY DEF UsePattern
  <1>2. text' = text
    BY DEF UsePattern
  <1>3. PICK x, n, mode, room : x = text[s] /\ n = Length(x) /\ mode = Effective(m, x) /\ room = RoomFor(n)
    BY Zenon
  <1> DEFINE h == [slot |-> s, age |-> 0, mode |-> mode, text |-> x]
  <1>4. patterns' = Append(room, h) /\ bytes' = BytesOf(room) + n
    BY <1>1, <1>3
  <1>5. s \in Slots /\ x \in Texts /\ n \in Nat /\ n <= PatternBytes
    BY <1>1, <1>3, WeakHandlesAssumption DEF Inv, TypeOK, Live, Occupied
  <1>6. mode \in AnchorModes /\ mode = Effective(mode, x)
    BY <1>3 DEF Effective, AnchorModes
  <1>7. h \in Entry /\ h.text = x /\ h.mode = mode /\ h.slot = s
    BY <1>5, <1>6 DEF Entry
  <1> HIDE DEF h
  <1>8. patterns \in Seq(Entry)
    BY DEF PatternInv
  <1>9. PICK q \in 0 .. Len(patterns) :
          /\ room = SubSeq(patterns, q + 1, Len(patterns))
          /\ Len(room) < PatternEntries /\ BytesOf(room) + n <= PatternBytes
    BY <1>1, <1>3, <1>5, <1>8, RoomIsMade
  <1>10. /\ room \in Seq(Entry) /\ Distinct(room)
         /\ \A i \in 1 .. Len(room) : \E j \in 1 .. Len(patterns) : room[i] = patterns[j]
    <2>1. PartOfCache(room)
      BY <1>9, TailOfPatterns
    <2> QED
      BY <2>1 DEF PartOfCache
  <1>11. ASSUME NEW j \in 1 .. Len(patterns) PROVE ~(patterns[j].text = x /\ patterns[j].mode = mode)
    <2> SUFFICES ASSUME patterns[j].text = x, patterns[j].mode = mode PROVE FALSE
      OBVIOUS
    <2>1. patterns[j] \in Entry /\ text[patterns[j].slot] = x
      BY <1>8 DEF PatternInv, Answers
    <2>2. patterns[j].slot \in Slots /\ patterns[j].age = 0
      BY <2>1 DEF Entry
    <2>3. patterns[j].slot = s
      BY <1>3, <1>5, <2>1, <2>2 DEF PatternInv, Interned
    <2>4. Matches(patterns[j], s)
      BY <1>3, <1>5, <2>2, <2>3, WeakHandlesAssumption DEF Matches, Occupied
    <2>5. j \in DOMAIN patterns
      BY <1>8
    <2>6. j \in CachedPattern(s, mode)
      BY <2>4, <2>5 DEF CachedPattern
    <2> QED
      BY <1>1, <1>3, <2>6
  <1>12. \A i \in 1 .. Len(room) : ~(room[i].text = h.text /\ room[i].mode = h.mode)
    BY <1>7, <1>10, <1>11
  <1>13. Distinct(Append(room, h)) /\ Append(room, h) \in Seq(Entry)
    BY <1>7, <1>10, <1>12, AppendDistinct
  <1>14. /\ Len(Append(room, h)) <= PatternEntries
         /\ BytesOf(Append(room, h)) = BytesOf(room) + n
    <2>1. BytesOf(Append(room, h)) = BytesOf(room) + Length(h.text)
      BY <1>7, <1>10, BytesAppend
    <2>2. Len(Append(room, h)) = Len(room) + 1 /\ Len(room) \in Nat
      BY <1>7, <1>10
    <2> QED
      BY <1>3, <1>7, <1>9, <2>1, <2>2, WeakHandlesAssumption
  <1>15. \A i \in 1 .. Len(Append(room, h)) : Answers(Append(room, h)[i])
    <2>1. Answers(h)
      BY <1>3, <1>6, <1>7 DEF Answers
    <2>2. \A i \in 1 .. Len(room) : Answers(room[i])
      BY <1>10 DEF PatternInv
    <2>3. \A i \in 1 .. Len(Append(room, h)) :
             Append(room, h)[i] = h \/ \E k \in 1 .. Len(room) : Append(room, h)[i] = room[k]
      <3>1. Len(Append(room, h)) = Len(room) + 1 /\ Len(room) \in Nat
        BY <1>7, <1>10
      <3>2. Append(room, h)[Len(room) + 1] = h /\ \A k \in 1 .. Len(room) : Append(room, h)[k] = room[k]
        BY <1>7, <1>10
      <3>3. \A i \in 1 .. Len(room) + 1 : i = Len(room) + 1 \/ i \in 1 .. Len(room)
        BY <3>1
      <3> QED
        BY <3>1, <3>2, <3>3
    <2> QED
      BY <2>1, <2>2, <2>3, Zenon
  <1> DEFINE new == Append(room, h)
  <1>16. /\ new \in Seq(Entry) /\ Distinct(new) /\ \A i \in 1 .. Len(new) : Answers(new[i])
         /\ Len(new) <= PatternEntries /\ BytesOf(new) <= PatternBytes /\ bytes' = BytesOf(new)
    BY <1>4, <1>9, <1>13, <1>14, <1>15
  <1>17. patterns' = new
    BY <1>4
  <1>18. Interned'
    BY <1>2 DEF PatternInv, Interned
  <1>19. PICK y : y = new
    OBVIOUS
  <1>20. \A i \in 1 .. Len(y) : Answers(y[i])'
    BY <1>2, <1>16, <1>19 DEF Answers
  <1> HIDE DEF new
  <1> QED
    BY <1>16, <1>17, <1>18, <1>19, <1>20 DEF PatternInv

LEMMA OtherPatterns ==
    ASSUME PatternInv, DropRoot \/ FillCell \/ UNCHANGED vars
    PROVE  PatternInv'
  <1>1. UNCHANGED <<text, patterns, bytes>>
    BY DEF DropRoot, FillCell, vars
  <1> QED
    BY <1>1 DEF PatternInv, Answers, Interned

LEMMA PatternsAreExact == ASSUME Inv, PatternInv PROVE PatternCacheIsExact
  <1>1. patterns \in Seq(Entry) /\ DOMAIN patterns = 1 .. Len(patterns)
    BY DEF PatternInv
  <1>2. ASSUME NEW i \in 1 .. Len(patterns)
        PROVE  /\ patterns[i].text = text[patterns[i].slot]
               /\ patterns[i].mode = Effective(patterns[i].mode, patterns[i].text)
    BY DEF PatternInv, Answers
  <1>3. \A i, j \in 1 .. Len(patterns) :
           patterns[j].text = patterns[i].text /\ patterns[j].mode = patterns[i].mode => j = i
    BY DEF PatternInv, Distinct
  <1>4. bytes <= PatternBytes
    BY DEF PatternInv
  <1> QED
    BY <1>1, <1>2, <1>3, <1>4 DEF PatternCacheIsExact, PatternInv, Inv

(***************************************************************************)
(* For every arena, set of strings and bounds of the cache, a program      *)
(* compiled for a pattern answers for that pattern only, once for each     *)
(* meaning of its anchor, and the cache keeps to its bounds with an exact  *)
(* byte count (cached_pattern_at, WeakTable::prune).                       *)
(***************************************************************************)
THEOREM PatternCacheAnswers == Spec => []PatternCacheIsExact
  <1>1. Inv /\ PatternInv /\ [Next]_vars => PatternInv'
    BY AllocPatterns, CollectPatterns, UsePatterns, OtherPatterns DEF Next
  <1>2. Inv /\ PatternInv => PatternCacheIsExact
    BY PatternsAreExact
  <1> QED
    BY <1>1, <1>2, InitPatterns, CellInvariant, PTL DEF Spec
=============================================================================
