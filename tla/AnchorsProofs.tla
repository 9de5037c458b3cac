--------------------------- MODULE AnchorsProofs ---------------------------
(***************************************************************************)
(* Handles keep their values, for any number of States, slots and objects. *)
(* The inductive invariant counts owners: an occupied slot has exactly     *)
(* one, a handle or a key that waits once for its removal.                 *)
(***************************************************************************)
EXTENDS Anchors, FiniteSetTheorems, TLAPS

Pending(s) == Range(queue[s]) \cup Range(taken[s])
HandlesOf(s) == {h \in handles : h.state = s}
Keyed(s) == Pending(s) \cup {h.key : h \in HandlesOf(s)}

(* What a State roots is in its heap: an anchoring keeps its value on the  *)
(* stack until the registry has it.                                        *)
Rooted(s) ==
    /\ stack[s] \subseteq heap[s]
    /\ \A i \in Slots : value[s][i] # NoValue => value[s][i] \in heap[s]
    /\ phase[s].op \in {"anchor", "anchor_at"} => phase[s].of \in stack[s]

(* Every key waits once, in the queue or with the drain, for a live slot. *)
WaitingOnce(s) ==
    /\ phase[s] = Idle => taken[s] = <<>>
    /\ IsInjective(queue[s]) /\ IsInjective(taken[s])
    /\ Range(queue[s]) \cap Range(taken[s]) = {}
    /\ \A k \in Pending(s) : Occupied(s, k)

(* A slot that holds a value has an owner. *)
Owned(s) == \A i \in Slots : value[s][i] # NoValue => \E k \in Keyed(s) : k.slot = i

(* A handle owns its slot alone. *)
OwnsAlone(h) ==
    /\ Occupied(h.state, h.key)
    /\ value[h.state][h.key.slot] = h.of
    /\ h.key \notin Pending(h.state)
    /\ \A g \in handles : g.state = h.state /\ g.key = h.key => g = h

Inv ==
    /\ TypeOK
    /\ \A s \in States : Rooted(s) /\ WaitingOnce(s) /\ Owned(s)
    /\ \A h \in handles : OwnsAlone(h)
-----------------------------------------------------------------------------
(* Sequences of keys *)

LEMMA RangeOfAppend ==
    ASSUME NEW S, NEW q \in Seq(S), NEW k \in S
    PROVE  /\ Range(Append(q, k)) = Range(q) \cup {k}
           /\ IsInjective(q) /\ k \notin Range(q) => IsInjective(Append(q, k))
  <1>1. /\ Append(q, k) \in Seq(S)
        /\ DOMAIN Append(q, k) = 1 .. Len(q) + 1
        /\ \A i \in 1 .. Len(q) : Append(q, k)[i] = q[i]
        /\ Append(q, k)[Len(q) + 1] = k
        /\ DOMAIN q = 1 .. Len(q) /\ Len(q) \in Nat
    OBVIOUS
  <1>2. Range(Append(q, k)) = Range(q) \cup {k}
    BY <1>1 DEF Range
  <1>3. ASSUME IsInjective(q), k \notin Range(q)
        PROVE  IsInjective(Append(q, k))
    BY <1>1, <1>3 DEF IsInjective, Range
  <1> QED
    BY <1>2, <1>3

LEMMA RangeOfEmpty == Range(<<>>) = {} /\ IsInjective(<<>>)
  BY DEF Range, IsInjective

LEMMA RangeIsSubset ==
    ASSUME NEW S, NEW q \in Seq(S)
    PROVE  Range(q) \subseteq S
  BY DEF Range

-----------------------------------------------------------------------------
(* Slots and keys *)

(* Two live keys of one slot are the same key. *)
LEMMA OneKeyPerSlot ==
    ASSUME NEW s, NEW j \in Keys, NEW k \in Keys, Occupied(s, j), Occupied(s, k), j.slot = k.slot
    PROVE  j = k
  BY DEF Occupied, Keys

LEMMA HandleTypes ==
    ASSUME TypeOK, NEW h \in handles
    PROVE  h \in Handles /\ h.state \in States /\ h.key \in Keys /\ h.of \in Objects
  BY DEF TypeOK, Handles

LEMMA KeyTypes ==
    ASSUME TypeOK, NEW s \in States
    PROVE  /\ queue[s] \in Seq(Keys) /\ taken[s] \in Seq(Keys)
           /\ Range(queue[s]) \subseteq Keys /\ Range(taken[s]) \subseteq Keys /\ Pending(s) \subseteq Keys
           /\ Keyed(s) \subseteq Keys
  <1>1. queue[s] \in Seq(Keys) /\ taken[s] \in Seq(Keys)
    BY DEF TypeOK
  <1>2. Range(queue[s]) \subseteq Keys /\ Range(taken[s]) \subseteq Keys
    BY <1>1, RangeIsSubset
  <1> QED
    BY <1>1, <1>2, HandleTypes DEF Pending, Keyed, HandlesOf

(* Removing live keys empties their slots, starts a generation in each,    *)
(* and leaves every other slot and every other live key alone.             *)
LEMMA Removal ==
    ASSUME TypeOK, NEW s \in States, NEW ks \in SUBSET Keys, \A k \in ks : Occupied(s, k)
    PROVE  /\ RemovedValue(s, ks) \in [Slots -> Objects \cup {NoValue}]
           /\ RemovedGen(s, ks) \in [Slots -> Nat]
           /\ \A i \in Slots : (\E k \in ks : k.slot = i) => RemovedValue(s, ks)[i] = NoValue
           /\ \A i \in Slots : (~ \E k \in ks : k.slot = i) =>
                 RemovedValue(s, ks)[i] = value[s][i] /\ RemovedGen(s, ks)[i] = gen[s][i]
           /\ \A k \in ks : RemovedGen(s, ks)[k.slot] # k.gen
           /\ \A k \in Keys \ ks : Occupied(s, k) =>
                 RemovedValue(s, ks)[k.slot] = value[s][k.slot] /\ RemovedGen(s, ks)[k.slot] = gen[s][k.slot]
  <1>1. value[s] \in [Slots -> Objects \cup {NoValue}] /\ gen[s] \in [Slots -> Nat]
    BY DEF TypeOK
  <1>2. \A k \in Keys : k.slot \in Slots /\ k.gen \in Nat
    BY DEF Keys
  <1>3. /\ \A i \in Slots : (\E k \in ks : k.slot = i) =>
              RemovedValue(s, ks)[i] = NoValue /\ RemovedGen(s, ks)[i] = gen[s][i] + 1
        /\ \A i \in Slots : (~ \E k \in ks : k.slot = i) =>
              RemovedValue(s, ks)[i] = value[s][i] /\ RemovedGen(s, ks)[i] = gen[s][i]
    BY <1>1 DEF RemovedValue, RemovedGen
  <1>4. /\ RemovedValue(s, ks) \in [Slots -> Objects \cup {NoValue}]
        /\ RemovedGen(s, ks) \in [Slots -> Nat]
    BY <1>1 DEF RemovedValue, RemovedGen
  <1>5. \A k \in ks : RemovedGen(s, ks)[k.slot] # k.gen
    <2> TAKE k \in ks
    <2>1. RemovedGen(s, ks)[k.slot] = gen[s][k.slot] + 1 /\ gen[s][k.slot] = k.gen /\ k.gen \in Nat
      BY <1>2, <1>3 DEF Occupied
    <2> QED
      BY <2>1
  <1>6. ASSUME NEW k \in Keys \ ks, Occupied(s, k)
        PROVE  ~ \E j \in ks : j.slot = k.slot
    BY <1>6, OneKeyPerSlot
  <1> QED
    BY <1>2, <1>3, <1>4, <1>5, <1>6

(* What the parts of the invariant read.  A step that moves keys between   *)
(* the queue and a drain, or neither, keeps every owner.                   *)
LEMMA OwnersKept ==
    ASSUME Inv, UNCHANGED <<value, gen, handles>>, \A s \in States : Pending(s)' = Pending(s)
    PROVE  /\ \A s \in States : Owned(s)'
           /\ \A h \in handles' : OwnsAlone(h)'
  <1>1. \A s \in States : \A k : Occupied(s, k)' <=> Occupied(s, k)
    BY DEF Occupied
  <1>2. \A s \in States : Keyed(s)' = Keyed(s)
    BY DEF Keyed, HandlesOf
  <1>3. \A s \in States : Owned(s)'
    BY <1>2 DEF Owned, Inv
  <1>4. ASSUME NEW h \in handles
        PROVE  OwnsAlone(h)'
    <2>1. OwnsAlone(h) /\ h.state \in States
      BY HandleTypes DEF Inv
    <2> QED
      BY <2>1, <1>1 DEF OwnsAlone, Occupied
  <1> QED
    BY <1>3, <1>4

-----------------------------------------------------------------------------
(* One lemma per kind of step *)

LEMMA InitInv == Init => Inv
  <1> SUFFICES ASSUME Init PROVE Inv
    OBVIOUS
  <1>1. TypeOK
    BY DEF Init, TypeOK, Idle, Phases
  <1>2. \A s \in States : Pending(s) = {} /\ queue[s] = <<>> /\ taken[s] = <<>>
    BY RangeOfEmpty DEF Init, Pending
  <1>3. \A s \in States : WaitingOnce(s)
    BY <1>2, RangeOfEmpty DEF WaitingOnce
  <1>4. \A s \in States : Rooted(s) /\ Owned(s)
    BY DEF Init, Rooted, Owned, Idle
  <1> QED
    BY <1>1, <1>3, <1>4 DEF Init, Inv

(* Steps that leave the registry, the queue and the handles alone *)
LEMMA MutatorStep ==
    ASSUME Inv, UNCHANGED <<value, gen, queue, phase, taken, handles>>,
           TypeOK', \A s \in States : Rooted(s)'
    PROVE  Inv'
  <1>1. \A s \in States : Pending(s)' = Pending(s)
    BY DEF Pending
  <1>2. \A s \in States : WaitingOnce(s)'
    BY <1>1 DEF Inv, WaitingOnce, Occupied
  <1> QED
    BY <1>1, <1>2, OwnersKept DEF Inv

LEMMA AllocateStep ==
    ASSUME Inv, NEW s \in States, NEW o \in Objects, Allocate(s, o)
    PROVE  Inv'
  <1>1. TypeOK'
    BY DEF Inv, TypeOK, Allocate
  <1>2. \A t \in States : Rooted(t)'
    BY DEF Inv, TypeOK, Rooted, Allocate
  <1> QED
    BY <1>1, <1>2, MutatorStep DEF Allocate

LEMMA PopStep ==
    ASSUME Inv, NEW s \in States, NEW o \in Objects, Pop(s, o)
    PROVE  Inv'
  <1>1. TypeOK'
    BY DEF Inv, TypeOK, Pop
  <1>2. ASSUME NEW t \in States
        PROVE  Rooted(t)'
    <2>1. Rooted(t) /\ stack \in [States -> SUBSET Objects]
      BY DEF Inv, TypeOK
    <2>2. CASE t = s
      BY <2>1, <2>2 DEF Rooted, Pop, Callable, Idle
    <2>3. CASE t # s
      BY <2>1, <2>3 DEF Rooted, Pop
    <2> QED
      BY <2>2, <2>3
  <1> QED
    BY <1>1, <1>2, MutatorStep DEF Pop

LEMMA PoisonStep ==
    ASSUME Inv, NEW s \in States, Poison(s) \/ DropState(s)
    PROVE  Inv'
  <1>1. TypeOK'
    BY DEF Inv, TypeOK, Poison, DropState
  <1>2. \A t \in States : Rooted(t)'
    BY DEF Inv, Rooted, Poison, DropState
  <1>3. UNCHANGED <<value, gen, queue, phase, taken, handles>>
    BY DEF Poison, DropState
  <1> QED
    BY <1>1, <1>2, <1>3, MutatorStep

LEMMA PushAnchorStep ==
    ASSUME Inv, NEW s \in States, NEW h \in handles, PushAnchor(s, h)
    PROVE  Inv'
  <1>1. Get(s, h) \in heap[s] /\ Get(s, h) \in Objects
    BY HandleTypes, Zenon DEF PushAnchor, Get, Inv, Rooted, TypeOK, Keys
  <1>2. TypeOK'
    BY <1>1 DEF Inv, TypeOK, PushAnchor
  <1>3. \A t \in States : Rooted(t)'
    BY <1>1 DEF Inv, TypeOK, Rooted, PushAnchor
  <1> QED
    BY <1>2, <1>3, MutatorStep DEF PushAnchor


(* A drain begins: the keys move from the queue to the drain. *)
LEMMA TakeQueueStep ==
    ASSUME Inv, NEW s \in States, Callable(s), NEW next \in Phases \ {Idle}, TakeQueue(s, next),
           next.op \in {"anchor", "anchor_at"} => next.of \in stack[s]
    PROVE  Inv'
  <1>1. TypeOK'
    <2>1. queue' \in [States -> Seq(Keys)]
      BY DEF Inv, TypeOK, TakeQueue
    <2> QED
      BY <2>1 DEF Inv, TypeOK, TakeQueue
  <1>2. \A t \in States : Rooted(t)'
    BY DEF Inv, TypeOK, Rooted, TakeQueue
  <1>3. /\ taken[s] = <<>> /\ queue'[s] = <<>> /\ taken'[s] = queue[s] /\ phase'[s] = next
        /\ \A t \in States \ {s} : queue'[t] = queue[t] /\ taken'[t] = taken[t] /\ phase'[t] = phase[t]
    BY DEF Inv, TypeOK, WaitingOnce, Callable, TakeQueue
  <1>4. \A t \in States : Pending(t)' = Pending(t)
    BY <1>3, RangeOfEmpty DEF Pending
  <1>5. ASSUME NEW t \in States
        PROVE  WaitingOnce(t)'
    <2>1. WaitingOnce(t) /\ \A k : Occupied(t, k)' <=> Occupied(t, k)
      BY DEF Inv, TakeQueue, Occupied
    <2>2. CASE t = s
      BY <2>1, <2>2, <1>3, <1>4, RangeOfEmpty DEF WaitingOnce
    <2>3. CASE t # s
      BY <2>1, <2>3, <1>3, <1>4 DEF WaitingOnce
    <2> QED
      BY <2>2, <2>3
  <1> QED
    BY <1>1, <1>2, <1>4, <1>5, OwnersKept DEF Inv, TakeQueue

LEMMA BeginAnchorStep ==
    ASSUME Inv, NEW s \in States, NEW o \in Objects, NEW op \in {"anchor", "anchor_at"}, BeginAnchor(s, op, o)
    PROVE  Inv'
  <1>1. [op |-> op, of |-> o] \in Phases \ {Idle}
    BY DEF Phases, Idle
  <1> QED
    BY <1>1, TakeQueueStep DEF BeginAnchor

LEMMA BeginCollectStep ==
    ASSUME Inv, NEW s \in States, BeginCollect(s)
    PROVE  Inv'
  <1>1. [op |-> "collect"] \in Phases \ {Idle} /\ [op |-> "collect"].op \notin {"anchor", "anchor_at"}
    BY DEF Phases, Idle
  <1> QED
    BY <1>1, TakeQueueStep DEF BeginCollect

(* A handle becomes a queued key: the slot's owner changes its kind. *)
LEMMA DropAnchorStep ==
    ASSUME Inv, NEW h \in handles,
           handles' = handles \ {h},
           queue' = [queue EXCEPT ![h.state] = Append(@, h.key)],
           UNCHANGED <<alive, poisoned, heap, stack, value, gen, phase, taken>>
    PROVE  Inv'
  <1> DEFINE s == h.state
  <1>1. s \in States /\ h.key \in Keys /\ TypeOK /\ OwnsAlone(h) /\ WaitingOnce(s)
    BY HandleTypes DEF Inv
  <1>2. queue[s] \in Seq(Keys) /\ Append(queue[s], h.key) \in Seq(Keys)
    BY <1>1, KeyTypes
  <1>3. TypeOK'
    BY <1>1, <1>2 DEF TypeOK
  <1>4. /\ queue'[s] = Append(queue[s], h.key)
        /\ \A t \in States \ {s} : queue'[t] = queue[t]
    BY <1>1, <1>3 DEF TypeOK
  <1>5. /\ Pending(s)' = Pending(s) \cup {h.key}
        /\ \A t \in States \ {s} : Pending(t)' = Pending(t)
    BY <1>2, <1>4, RangeOfAppend DEF Pending
  <1>6. \A t \in States : \A k : Occupied(t, k)' <=> Occupied(t, k)
    BY DEF Occupied
  <1>7. \A t \in States : Rooted(t)'
    BY DEF Inv, Rooted
  <1>8. ASSUME NEW t \in States
        PROVE  WaitingOnce(t)'
    <2>1. CASE t = s
      <3>1. h.key \notin Range(queue[s]) /\ h.key \notin Range(taken[s]) /\ Occupied(s, h.key)
        BY <1>1 DEF OwnsAlone, Pending
      <3>2. /\ IsInjective(queue'[s]) /\ Range(queue'[s]) = Range(queue[s]) \cup {h.key}
        BY <1>1, <1>2, <1>4, <3>1, RangeOfAppend DEF WaitingOnce
      <3>3. phase[s] # Idle \/ taken[s] = <<>>
        BY <1>1 DEF WaitingOnce
      <3> QED
        BY <2>1, <3>1, <3>2, <3>3, <1>1, <1>5, <1>6 DEF WaitingOnce
    <2>2. CASE t # s
      BY <2>2, <1>4, <1>5, <1>6 DEF Inv, WaitingOnce
    <2> QED
      BY <2>1, <2>2
  <1>9. \A t \in States : Keyed(t)' = Keyed(t)
    <2> TAKE t \in States
    <2>1. CASE t = s
      BY <2>1, <1>5 DEF Keyed, HandlesOf
    <2>2. CASE t # s
      BY <2>2, <1>5 DEF Keyed, HandlesOf
    <2> QED
      BY <2>1, <2>2
  <1>10. \A t \in States : Owned(t)'
    BY <1>9 DEF Inv, Owned
  <1>11. ASSUME NEW g \in handles'
         PROVE  OwnsAlone(g)'
    <2>1. g \in handles /\ g # h /\ OwnsAlone(g) /\ g.state \in States
      BY HandleTypes DEF Inv
    <2>2. g.key \notin Pending(g.state)'
      BY <2>1, <1>1, <1>5 DEF OwnsAlone
    <2> QED
      BY <2>1, <2>2, <1>6 DEF OwnsAlone
  <1> QED
    BY <1>3, <1>7, <1>8, <1>10, <1>11 DEF Inv


(* State s removes the live keys ks and may fill a free slot: the removed  *)
(* keys are stale from then on, every other live key keeps its value.      *)
LEMMA KeysKept ==
    ASSUME TypeOK, NEW s \in States, NEW ks \in SUBSET Keys, \A k \in ks : Occupied(s, k),
           gen'[s] = RemovedGen(s, ks),
           \A j \in Slots : RemovedValue(s, ks)[j] # NoValue => value'[s][j] = RemovedValue(s, ks)[j],
           \A t \in States \ {s} : value'[t] = value[t] /\ gen'[t] = gen[t]
    PROVE  /\ \A k \in ks : ~Occupied(s, k)'
           /\ \A t \in States, k \in Keys : Occupied(t, k) /\ (t = s => k \notin ks) =>
                 Occupied(t, k)' /\ value'[t][k.slot] = value[t][k.slot]
  <1>1. \A k \in ks : ~Occupied(s, k)'
    BY Removal DEF Occupied
  <1>2. ASSUME NEW t \in States, NEW k \in Keys, Occupied(t, k), t = s => k \notin ks
        PROVE  Occupied(t, k)' /\ value'[t][k.slot] = value[t][k.slot]
    <2>1. CASE t = s
      <3>1. RemovedValue(s, ks)[k.slot] = value[s][k.slot] /\ RemovedGen(s, ks)[k.slot] = gen[s][k.slot]
        BY <1>2, <2>1, Removal
      <3>2. k.slot \in Slots /\ value[s][k.slot] # NoValue /\ gen[s][k.slot] = k.gen
        BY <1>2, <2>1 DEF Keys, Occupied
      <3> QED
        BY <2>1, <3>1, <3>2 DEF Occupied
    <2>2. CASE t # s
      BY <2>2, <1>2 DEF Occupied
    <2> QED
      BY <2>1, <2>2
  <1> QED
    BY <1>1, <1>2

(* The issuing State releases a handle: the slot loses its only owner. *)
LEMMA ReleaseHomeStep ==
    ASSUME Inv, NEW h \in handles, ReleaseAnchor(h.state, h)
    PROVE  Inv'
  <1> DEFINE s == h.state
             ks == {h.key}
  <1>1. s \in States /\ h.key \in Keys /\ TypeOK /\ OwnsAlone(h) /\ ks \in SUBSET Keys /\ \A k \in ks : Occupied(s, k)
    BY HandleTypes DEF Inv, OwnsAlone
  <1>2. /\ handles' = handles \ {h}
        /\ value' = [value EXCEPT ![s] = RemovedValue(s, ks)]
        /\ gen' = [gen EXCEPT ![s] = RemovedGen(s, ks)]
        /\ UNCHANGED <<alive, poisoned, heap, stack, queue, phase, taken>>
    BY DEF ReleaseAnchor
  <1>3. /\ value'[s] = RemovedValue(s, ks) /\ gen'[s] = RemovedGen(s, ks)
        /\ \A t \in States \ {s} : value'[t] = value[t] /\ gen'[t] = gen[t]
    BY <1>1, <1>2 DEF TypeOK
  <1>4. TypeOK'
    BY <1>1, <1>2, Removal, Zenon DEF TypeOK
  <1> HIDE DEF ks, s
  <1>5. \A t \in States, k \in Keys : Occupied(t, k) /\ (t = s => k \notin ks) =>
            Occupied(t, k)' /\ value'[t][k.slot] = value[t][k.slot]
    BY <1>1, <1>3, KeysKept
  <1>6. \A t \in States : Pending(t)' = Pending(t)
    BY <1>2 DEF Pending
  <1>7. \A i \in Slots : value'[s][i] # NoValue => value'[s][i] = value[s][i] /\ \A k \in ks : k.slot # i
    BY <1>1, <1>3, Removal
  <1>8. \A t \in States : Rooted(t)'
    BY <1>2, <1>3, <1>7 DEF Inv, Rooted
  <1>9. ASSUME NEW t \in States
        PROVE  WaitingOnce(t)'
    <2>1. WaitingOnce(t) /\ Pending(t) \subseteq Keys /\ (t = s => h.key \notin Pending(t))
      BY <1>1, KeyTypes DEF Inv, OwnsAlone, s
    <2>2. \A k \in Pending(t) : Occupied(t, k)'
      BY <2>1, <1>5 DEF WaitingOnce, ks
    <2> QED
      BY <2>1, <2>2, <1>2, <1>6 DEF WaitingOnce
  <1>10. ASSUME NEW t \in States, NEW k \in Keyed(t), t = s => k \notin ks
         PROVE  k \in Keyed(t)'
    BY <1>2, <1>6, <1>10 DEF Keyed, HandlesOf, ks, s
  <1>11. ASSUME NEW t \in States
         PROVE  Owned(t)'
    <2>1. CASE t = s
      BY <2>1, <1>7, <1>10 DEF Inv, Owned
    <2>2. CASE t # s
      BY <2>2, <1>3, <1>10 DEF Inv, Owned
    <2> QED
      BY <2>1, <2>2
  <1>12. ASSUME NEW g \in handles'
         PROVE  OwnsAlone(g)'
    <2>1. g \in handles /\ g # h /\ OwnsAlone(g) /\ g.state \in States /\ g.key \in Keys
      BY <1>2, HandleTypes DEF Inv
    <2>2. g.state = s => g.key \notin ks
      BY <2>1, <1>1 DEF OwnsAlone, ks, s
    <2> QED
      BY <2>1, <2>2, <1>2, <1>5, <1>6 DEF OwnsAlone
  <1> QED
    BY <1>4, <1>8, <1>9, <1>11, <1>12 DEF Inv

(* The end of a drain, common to collecting and anchoring *)
LEMMA DrainedKeys ==
    ASSUME Inv, NEW s \in States
    PROVE  /\ Range(taken[s]) \in SUBSET Keys
           /\ \A k \in Range(taken[s]) : Occupied(s, k)
           /\ \A h \in handles : h.state = s => h.key \notin Range(taken[s])
           /\ \A k \in Range(queue[s]) : k \notin Range(taken[s])
  BY KeyTypes DEF Inv, WaitingOnce, OwnsAlone, Pending

LEMMA FinishCollectStep ==
    ASSUME Inv, NEW s \in States, FinishCollect(s)
    PROVE  Inv'
  <1> DEFINE ks == Range(taken[s])
  <1>1. TypeOK /\ ks \in SUBSET Keys /\ \A k \in ks : Occupied(s, k)
    BY DrainedKeys DEF Inv
  <1>2. /\ value'[s] = RemovedValue(s, ks) /\ gen'[s] = RemovedGen(s, ks)
        /\ heap'[s] = heap[s] \cap (stack[s] \cup Range(value'[s]))
        /\ phase'[s] = Idle /\ taken'[s] = <<>>
    BY <1>1 DEF FinishCollect, TypeOK
  <1>oth. \A t \in States \ {s} : /\ value'[t] = value[t] /\ gen'[t] = gen[t] /\ heap'[t] = heap[t]
                                     /\ phase'[t] = phase[t] /\ taken'[t] = taken[t]
    BY <1>1 DEF FinishCollect, TypeOK
  <1>un. UNCHANGED <<alive, poisoned, stack, queue, handles>>
    BY DEF FinishCollect
  <1>3. TypeOK'
    <2>1. value' \in [States -> [Slots -> Objects \cup {NoValue}]] /\ gen' \in [States -> [Slots -> Nat]]
      BY <1>1, Removal, Zenon DEF FinishCollect, TypeOK
    <2>2. taken' \in [States -> Seq(Keys)]
      BY <1>1 DEF FinishCollect, TypeOK
    <2> QED
      BY <1>1, <2>1, <2>2 DEF FinishCollect, TypeOK, Phases
  <1> HIDE DEF ks
  <1>4. \A t \in States, k \in Keys : Occupied(t, k) /\ (t = s => k \notin ks) =>
            Occupied(t, k)' /\ value'[t][k.slot] = value[t][k.slot]
    BY <1>1, <1>2, <1>oth, KeysKept
  <1>5. \A i \in Slots : value'[s][i] # NoValue => value'[s][i] = value[s][i] /\ \A k \in ks : k.slot # i
    BY <1>1, <1>2, Removal
  <1>6. /\ Pending(s)' = Range(queue[s])
        /\ \A t \in States \ {s} : Pending(t)' = Pending(t)
    BY <1>2, <1>oth, <1>un, RangeOfEmpty DEF Pending
  <1>7. ASSUME NEW t \in States
        PROVE  Rooted(t)'
    <2>1. CASE t = s
      <3>1. \A i \in Slots : value'[s][i] \in Range(value'[s])
        BY <1>3 DEF Range, TypeOK
      <3>2. /\ heap'[s] = heap[s] \cap (stack[s] \cup Range(value'[s]))
            /\ phase'[s].op = "idle" /\ stack'[s] = stack[s]
        BY <1>2, <1>un DEF Idle
      <3>3. stack[s] \subseteq heap[s] /\ \A i \in Slots : value[s][i] # NoValue => value[s][i] \in heap[s]
        BY DEF Inv, Rooted
      <3> QED
        BY <2>1, <3>1, <3>2, <3>3, <1>5 DEF Rooted
    <2>2. CASE t # s
      <3>1. value'[t] = value[t] /\ heap'[t] = heap[t] /\ stack'[t] = stack[t] /\ phase'[t] = phase[t]
        BY <2>2, <1>oth, <1>un
      <3>2. Rooted(t)
        BY DEF Inv
      <3> QED
        BY <3>1, <3>2 DEF Rooted
    <2> QED
      BY <2>1, <2>2
  <1>8. ASSUME NEW t \in States
        PROVE  WaitingOnce(t)'
    <2>1. WaitingOnce(t) /\ Pending(t) \subseteq Keys /\ Range(queue[t]) \subseteq Pending(t)
      BY <1>1, KeyTypes DEF Inv, Pending
    <2>2. CASE t = s
      <3>1. \A k \in Range(queue[s]) : Occupied(s, k)'
        BY <2>1, <2>2, <1>4, DrainedKeys DEF WaitingOnce, ks
      <3> QED
        <4>1. queue'[s] = queue[s] /\ taken'[s] = <<>> /\ Pending(s)' = Range(queue[s])
          BY <1>2, <1>un, <1>6
        <4> QED
          BY <2>1, <2>2, <3>1, <4>1, RangeOfEmpty DEF WaitingOnce
    <2>3. CASE t # s
      <3>1. /\ queue'[t] = queue[t] /\ taken'[t] = taken[t] /\ phase'[t] = phase[t]
            /\ Pending(t)' = Pending(t)
        BY <2>3, <1>oth, <1>un, <1>6
      <3>2. \A k \in Pending(t) : Occupied(t, k)'
        BY <2>1, <2>3, <1>4 DEF WaitingOnce
      <3> QED
        BY <2>1, <3>1, <3>2 DEF WaitingOnce
    <2> QED
      BY <2>2, <2>3
  <1>9. ASSUME NEW t \in States, NEW k \in Keyed(t), t = s => k \notin ks
        PROVE  k \in Keyed(t)'
    BY <1>un, <1>6, <1>9 DEF Keyed, HandlesOf, Pending, ks
  <1>10. ASSUME NEW t \in States
         PROVE  Owned(t)'
    <2>1. CASE t = s
      BY <2>1, <1>5, <1>9 DEF Inv, Owned
    <2>2. CASE t # s
      BY <2>2, <1>oth, <1>9 DEF Inv, Owned
    <2> QED
      BY <2>1, <2>2
  <1>11. ASSUME NEW h \in handles'
         PROVE  OwnsAlone(h)'
    <2>1. h \in handles /\ OwnsAlone(h) /\ h.state \in States /\ h.key \in Keys /\ (h.state = s => h.key \notin ks)
      BY <1>un, HandleTypes, DrainedKeys DEF Inv, ks
    <2>2. h.key \notin Pending(h.state)'
      BY <2>1, <1>6 DEF OwnsAlone, Pending
    <2> QED
      BY <2>1, <2>2, <1>un, <1>4 DEF OwnsAlone
  <1> QED
    BY <1>3, <1>7, <1>8, <1>10, <1>11 DEF Inv


LEMMA FinishAnchorStep ==
    ASSUME Inv, NEW s \in States, FinishAnchor(s)
    PROVE  Inv'
  <1> DEFINE ks == Range(taken[s])
             o == phase[s].of
             cleared == RemovedValue(s, ks)
             gens == RemovedGen(s, ks)
  <1>1. TypeOK /\ ks \in SUBSET Keys /\ (\A k \in ks : Occupied(s, k)) /\ Rooted(s)
    BY DrainedKeys DEF Inv
  <1>2. o \in stack[s] /\ o \in heap[s] /\ o \in Objects /\ o # NoValue
    BY <1>1, NoValueAssumption DEF FinishAnchor, Rooted, TypeOK
  <1>3. PICK i \in Slots :
            /\ cleared[i] = NoValue
            /\ value' = [value EXCEPT ![s] = [cleared EXCEPT ![i] = o]]
            /\ gen' = [gen EXCEPT ![s] = gens]
            /\ handles' = handles \cup {[state |-> s, key |-> [slot |-> i, gen |-> gens[i]], of |-> o]}
            /\ stack' = IF phase[s].op = "anchor" THEN [stack EXCEPT ![s] = @ \ {o}] ELSE stack
    BY Zenon DEF FinishAnchor
  <1>4. cleared \in [Slots -> Objects \cup {NoValue}] /\ gens \in [Slots -> Nat]
    BY <1>1, Removal
  <1>key. PICK key \in Keys : key = [slot |-> i, gen |-> gens[i]]
    BY <1>4, Zenon DEF Keys
  <1>new. PICK new \in Handles : new = [state |-> s, key |-> key, of |-> o]
    BY <1>2, Zenon DEF Handles
  <1>5. /\ value'[s][i] = o /\ \A j \in Slots \ {i} : value'[s][j] = cleared[j]
        /\ gen'[s] = gens /\ handles' = handles \cup {new}
        /\ stack'[s] \subseteq stack[s] /\ phase'[s] = Idle /\ taken'[s] = <<>>
    BY <1>1, <1>3, <1>4, <1>key, <1>new DEF FinishAnchor, TypeOK
  <1>oth. \A t \in States \ {s} : /\ value'[t] = value[t] /\ gen'[t] = gen[t] /\ stack'[t] = stack[t]
                                     /\ phase'[t] = phase[t] /\ taken'[t] = taken[t]
    BY <1>1, <1>3 DEF FinishAnchor, TypeOK
  <1>un. UNCHANGED <<alive, poisoned, heap, queue>>
    BY DEF FinishAnchor
  <1>hs. handles' = handles \cup {new}
    BY <1>5
  <1>6. TypeOK'
    <2>1. value' \in [States -> [Slots -> Objects \cup {NoValue}]] /\ gen' \in [States -> [Slots -> Nat]]
      BY <1>1, <1>2, <1>3, <1>4 DEF TypeOK
    <2>2. taken' \in [States -> Seq(Keys)]
      BY <1>1 DEF FinishAnchor, TypeOK
    <2>5. phase' \in [States -> Phases]
      BY <1>1 DEF FinishAnchor, TypeOK, Phases
    <2>3. stack' \in [States -> SUBSET Objects]
      BY <1>1, <1>3 DEF TypeOK
    <2>4. handles' \subseteq Handles
      BY <1>1, <1>hs DEF TypeOK
    <2> QED
      BY <1>1, <1>un, <2>1, <2>2, <2>3, <2>4, <2>5 DEF TypeOK
  <1>7. /\ Occupied(s, key)' /\ value'[s][key.slot] = o
    BY <1>2, <1>5, <1>key DEF Occupied
  <1> HIDE DEF ks, o
  <1>8. \A t \in States, k \in Keys : Occupied(t, k) /\ (t = s => k \notin ks) =>
            Occupied(t, k)' /\ value'[t][k.slot] = value[t][k.slot]
    <2>1. \A j \in Slots : cleared[j] # NoValue => value'[s][j] = cleared[j]
      BY <1>3, <1>5
    <2> QED
      BY <2>1, <1>1, <1>5, <1>oth, KeysKept
  (* No live key names the slot that was free *)
  <1>9. \A k \in Keys : Occupied(s, k) /\ k \notin ks => k.slot # i
    <2>1. \A k \in Keys \ ks : Occupied(s, k) => cleared[k.slot] = value[s][k.slot]
      BY <1>1, Removal
    <2> QED
      BY <2>1, <1>3 DEF Occupied
  <1> HIDE DEF cleared, gens
  <1>10. /\ Pending(s)' = Range(queue[s])
         /\ \A t \in States \ {s} : Pending(t)' = Pending(t)
    BY <1>5, <1>oth, <1>un, RangeOfEmpty DEF Pending
  <1>11. \A j \in Slots \ {i} : value'[s][j] # NoValue => value'[s][j] = value[s][j] /\ \A k \in ks : k.slot # j
    <2>1. \A j \in Slots : (\E k \in ks : k.slot = j) => cleared[j] = NoValue
      BY <1>1, Removal DEF cleared
    <2>2. \A j \in Slots : (~ \E k \in ks : k.slot = j) => cleared[j] = value[s][j]
      BY <1>1, Removal DEF cleared
    <2>3. \A j \in Slots \ {i} : value'[s][j] = cleared[j]
      BY <1>5
    <2> QED
      BY <2>1, <2>2, <2>3, Zenon
  <1>12. ASSUME NEW t \in States
         PROVE  Rooted(t)'
    <2>1. CASE t = s
      <3>1. \A j \in Slots : value'[s][j] # NoValue => value'[s][j] \in heap[s]
        BY <1>1, <1>2, <1>5, <1>11 DEF Rooted
      <3>2. stack'[s] \subseteq stack[s] /\ phase'[s].op = "idle" /\ heap'[s] = heap[s]
        BY <1>5, <1>un DEF Idle
      <3>3. stack[s] \subseteq heap[s]
        BY <1>1 DEF Rooted
      <3> QED
        BY <2>1, <3>1, <3>2, <3>3 DEF Rooted
    <2>2. CASE t # s
      <3>1. value'[t] = value[t] /\ heap'[t] = heap[t] /\ stack'[t] = stack[t] /\ phase'[t] = phase[t]
        BY <2>2, <1>oth, <1>un
      <3>2. Rooted(t)
        BY DEF Inv
      <3> QED
        BY <3>1, <3>2 DEF Rooted
    <2> QED
      BY <2>1, <2>2
  <1>13. ASSUME NEW t \in States
         PROVE  WaitingOnce(t)'
    <2>1. WaitingOnce(t) /\ Pending(t) \subseteq Keys /\ Range(queue[t]) \subseteq Pending(t)
      BY <1>1, KeyTypes DEF Inv, Pending
    <2>2. CASE t = s
      <3>1. \A k \in Range(queue[s]) : Occupied(s, k)'
        BY <2>1, <2>2, <1>8, DrainedKeys DEF WaitingOnce, ks
      <3> QED
        <4>1. queue'[s] = queue[s] /\ taken'[s] = <<>> /\ Pending(s)' = Range(queue[s])
          BY <1>5, <1>un, <1>10
        <4> QED
          BY <2>1, <2>2, <3>1, <4>1, RangeOfEmpty DEF WaitingOnce
    <2>3. CASE t # s
      <3>1. /\ queue'[t] = queue[t] /\ taken'[t] = taken[t] /\ phase'[t] = phase[t]
            /\ Pending(t)' = Pending(t)
        BY <2>3, <1>oth, <1>un, <1>10
      <3>2. \A k \in Pending(t) : Occupied(t, k)'
        BY <2>1, <2>3, <1>8 DEF WaitingOnce
      <3> QED
        BY <2>1, <3>1, <3>2 DEF WaitingOnce
    <2> QED
      BY <2>2, <2>3
  <1>14. ASSUME NEW t \in States, NEW k \in Keyed(t), t = s => k \notin ks
         PROVE  k \in Keyed(t)'
    BY <1>hs, <1>10, <1>14 DEF Keyed, HandlesOf, Pending, ks
  <1>15. ASSUME NEW t \in States
         PROVE  Owned(t)'
    <2>1. CASE t = s
      <3>1. key \in Keyed(s)' /\ key.slot = i
        <4>1. new \in handles' /\ new.state = s /\ new.key = key
          BY <1>hs, <1>new
        <4>2. key.slot = i
          BY <1>key
        <4> QED
          BY <4>1, <4>2 DEF Keyed, HandlesOf
      <3>2. ASSUME NEW j \in Slots \ {i}, value'[s][j] # NoValue
            PROVE  \E k \in Keyed(s)' : k.slot = j
        <4>1. PICK k \in Keyed(s) : k.slot = j
          BY <3>2, <1>11 DEF Inv, Owned
        <4>2. k \notin ks
          BY <4>1, <3>2, <1>11
        <4> QED
          BY <4>1, <4>2, <1>14
      <3> QED
        BY <2>1, <3>1, <3>2 DEF Owned
    <2>2. CASE t # s
      BY <2>2, <1>oth, <1>14 DEF Inv, Owned
    <2> QED
      BY <2>1, <2>2
  <1>16. ASSUME NEW h \in handles
         PROVE  /\ h.state \in States /\ h.key \in Keys /\ Occupied(h.state, h.key)'
                /\ value'[h.state][h.key.slot] = h.of /\ h.key \notin Pending(h.state)'
                /\ \A g \in handles : g.state = h.state /\ g.key = h.key => g = h
                /\ h.state = s => h.key # key
    <2>1. OwnsAlone(h) /\ h.state \in States /\ h.key \in Keys /\ (h.state = s => h.key \notin ks)
      BY HandleTypes, DrainedKeys DEF Inv, ks
    <2>2. h.key \notin Pending(h.state)'
      BY <2>1, <1>10 DEF OwnsAlone, Pending
    <2>3. h.state = s => h.key # key
      BY <2>1, <1>9, <1>key DEF OwnsAlone
    <2> QED
      BY <2>1, <2>2, <2>3, <1>8 DEF OwnsAlone
  <1>17. key \notin Pending(s)'
    <2>1. \A k \in Range(queue[s]) : k \in Keys /\ Occupied(s, k) /\ k \notin ks
      BY <1>1, KeyTypes, DrainedKeys DEF Inv, WaitingOnce, Pending, ks
    <2> QED
      BY <2>1, <1>9, <1>10, <1>key
  <1>18. ASSUME NEW h \in handles'
         PROVE  OwnsAlone(h)'
    <2>1. CASE h \in handles
      <3>1. \A g \in handles' : g.state = h.state /\ g.key = h.key => g = h
        BY <2>1, <1>hs, <1>16, <1>new
      <3> QED
        BY <2>1, <3>1, <1>16 DEF OwnsAlone
    <2>2. CASE h = new
      <3>1. h.state = s /\ h.key = key /\ h.of = o
        BY <2>2, <1>new
      <3>2. \A g \in handles' : g.state = h.state /\ g.key = h.key => g = h
        BY <2>2, <3>1, <1>hs, <1>16
      <3> QED
        BY <3>1, <3>2, <1>7, <1>17 DEF OwnsAlone
    <2> QED
      BY <2>1, <2>2, <1>hs
  <1> QED
    BY <1>6, <1>12, <1>13, <1>15, <1>18 DEF Inv


LEMMA NextInv == Inv /\ [Next]_vars => Inv'
  <1> SUFFICES ASSUME Inv, [Next]_vars PROVE Inv'
    OBVIOUS
  <1>1. ASSUME NEW s \in States, NEW o \in Objects, Allocate(s, o)
        PROVE  Inv'
    BY <1>1, AllocateStep
  <1>2. ASSUME NEW s \in States, NEW o \in Objects, Pop(s, o)
        PROVE  Inv'
    BY <1>2, PopStep
  <1>3. ASSUME NEW s \in States, NEW o \in Objects, NEW op \in {"anchor", "anchor_at"}, BeginAnchor(s, op, o)
        PROVE  Inv'
    BY <1>3, BeginAnchorStep
  <1>4. ASSUME NEW s \in States, FinishAnchor(s)
        PROVE  Inv'
    BY <1>4, FinishAnchorStep
  <1>5. ASSUME NEW s \in States, BeginCollect(s)
        PROVE  Inv'
    BY <1>5, BeginCollectStep
  <1>6. ASSUME NEW s \in States, FinishCollect(s)
        PROVE  Inv'
    BY <1>6, FinishCollectStep
  <1>7. ASSUME NEW s \in States, Poison(s) \/ DropState(s)
        PROVE  Inv'
    BY <1>7, PoisonStep
  <1>8. ASSUME NEW h \in handles, DropAnchor(h)
        PROVE  Inv'
    BY <1>8, DropAnchorStep, Zenon DEF DropAnchor
  <1>9. ASSUME NEW s \in States, NEW h \in handles, ReleaseAnchor(s, h)
        PROVE  Inv'
    <2>1. CASE h.state = s
      BY <1>9, <2>1, ReleaseHomeStep
    <2>2. CASE h.state # s
      BY <1>9, <2>2, DropAnchorStep DEF ReleaseAnchor
    <2> QED
      BY <2>1, <2>2
  <1>10. ASSUME NEW s \in States, NEW h \in handles, PushAnchor(s, h)
         PROVE  Inv'
    BY <1>10, PushAnchorStep
  <1>11. ASSUME UNCHANGED vars
         PROVE  Inv'
    <2>1. TypeOK' /\ \A s \in States : Rooted(s)'
      BY <1>11 DEF vars, Inv, TypeOK, Rooted
    <2> QED
      BY <1>11, <2>1, MutatorStep DEF vars
  <1> QED
    BY <1>1, <1>2, <1>3, <1>4, <1>5, <1>6, <1>7, <1>8, <1>9, <1>10, <1>11 DEF Next

LEMMA InvHolds == Spec => []Inv
  BY InitInv, NextInv, PTL DEF Spec

-----------------------------------------------------------------------------
(* Counting owners *)

LEMMA LenIsCardinality ==
    ASSUME NEW S, NEW q \in Seq(S), IsInjective(q)
    PROVE  IsFiniteSet(Range(q)) /\ Cardinality(Range(q)) = Len(q)
  <1>1. q \in Bijection(1 .. Len(q), Range(q))
    BY DEF Bijection, Injection, Surjection, Range, IsInjective
  <1>2. ExistsBijection(1 .. Len(q), Range(q))
    BY <1>1 DEF ExistsBijection
  <1> QED
    BY <1>2, FS_CountingElements, FS_NatBijection

LEMMA RangeOfConcat ==
    ASSUME NEW S, NEW q \in Seq(S), NEW t \in Seq(S)
    PROVE  /\ Range(q \o t) = Range(q) \cup Range(t)
           /\ IsInjective(q) /\ IsInjective(t) /\ Range(q) \cap Range(t) = {} => IsInjective(q \o t)
  <1>1. /\ q \o t \in Seq(S) /\ Len(q \o t) = Len(q) + Len(t)
        /\ DOMAIN (q \o t) = 1 .. Len(q) + Len(t)
        /\ \A i \in 1 .. Len(q) : (q \o t)[i] = q[i]
        /\ \A i \in 1 .. Len(t) : (q \o t)[i + Len(q)] = t[i]
        /\ DOMAIN q = 1 .. Len(q) /\ Len(q) \in Nat /\ DOMAIN t = 1 .. Len(t) /\ Len(t) \in Nat
    OBVIOUS
  <1>2. \A i \in 1 .. Len(q) + Len(t) :
            \/ i \in 1 .. Len(q)
            \/ i - Len(q) \in 1 .. Len(t) /\ (q \o t)[i] = t[i - Len(q)]
    BY <1>1
  <1>3. Range(q \o t) = Range(q) \cup Range(t)
    <2>1. Range(q \o t) \subseteq Range(q) \cup Range(t)
      BY <1>1, <1>2 DEF Range
    <2>2. Range(q) \subseteq Range(q \o t)
      BY <1>1 DEF Range
    <2>3. Range(t) \subseteq Range(q \o t)
      BY <1>1 DEF Range
    <2> QED
      BY <2>1, <2>2, <2>3
  <1>4. ASSUME IsInjective(q), IsInjective(t), Range(q) \cap Range(t) = {},
               NEW i \in 1 .. Len(q) + Len(t), NEW j \in 1 .. Len(q) + Len(t), (q \o t)[i] = (q \o t)[j]
        PROVE  i = j
    <2>1. CASE i \in 1 .. Len(q) /\ j \in 1 .. Len(q)
      BY <2>1, <1>1, <1>4 DEF IsInjective
    <2>2. CASE i \notin 1 .. Len(q) /\ j \notin 1 .. Len(q)
      <3>1. i - Len(q) \in DOMAIN t /\ j - Len(q) \in DOMAIN t /\ t[i - Len(q)] = t[j - Len(q)]
        BY <2>2, <1>1, <1>2, <1>4
      <3>2. i - Len(q) = j - Len(q)
        BY <3>1, <1>4, Zenon DEF IsInjective
      <3> QED
        BY <3>2, <1>1
    <2>3. CASE i \in 1 .. Len(q) /\ j \notin 1 .. Len(q)
      <3>1. (q \o t)[i] \in Range(q)
        BY <2>3, <1>1 DEF Range
      <3>2. (q \o t)[j] \in Range(t)
        BY <2>3, <1>1, <1>2 DEF Range
      <3> QED
        BY <3>1, <3>2, <1>4
    <2>4. CASE i \notin 1 .. Len(q) /\ j \in 1 .. Len(q)
      BY <2>4, <1>1, <1>2, <1>4, Zenon DEF Range
    <2> QED
      BY <2>1, <2>2, <2>3, <2>4
  <1> QED
    BY <1>1, <1>3, <1>4 DEF IsInjective
-----------------------------------------------------------------------------
(* Counting the owners of a State that is not draining *)
LEMMA AnchorCount ==
    ASSUME Inv, NEW s \in States, Callable(s)
    PROVE  Cardinality({i \in Slots : value[s][i] # NoValue}) - Len(queue[s]) = Cardinality({h \in handles : h.state = s})
  <1> DEFINE full == {i \in Slots : value[s][i] # NoValue}
             mine == HandlesOf(s)
             keys == {h.key : h \in mine}
             slotOf == [k \in Keyed(s) |-> k.slot]
             keyOf == [h \in mine |-> h.key]
  <1>1. /\ TypeOK /\ WaitingOnce(s) /\ Owned(s) /\ Keyed(s) \subseteq Keys /\ queue[s] \in Seq(Keys)
        /\ Keyed(s) = Range(queue[s]) \cup keys
    BY KeyTypes, RangeOfEmpty DEF Inv, Keyed, Pending, WaitingOnce, Callable
  <1>2. \A h \in mine : OwnsAlone(h) /\ h.state = s /\ h.key \in Keys
    BY HandleTypes DEF Inv, HandlesOf
  <1>3. \A k \in Keyed(s) : Occupied(s, k)
    BY <1>1, <1>2 DEF WaitingOnce, OwnsAlone, Keyed
  <1>4. slotOf \in Bijection(Keyed(s), full)
    <2>1. \A k \in Keyed(s) : k.slot \in full
      BY <1>1, <1>3 DEF Occupied, Keys
    <2>2. slotOf \in Injection(Keyed(s), full)
      BY <2>1, <1>1, <1>3, OneKeyPerSlot DEF Injection, IsInjective
    <2>3. \A i \in full : \E k \in Keyed(s) : slotOf[k] = i
      BY <1>1 DEF Owned
    <2> QED
      BY <2>1, <2>2, <2>3 DEF Bijection, Surjection
  <1>5. keyOf \in Bijection(mine, keys)
    <2>1. keyOf \in Injection(mine, keys)
      BY <1>2 DEF Injection, IsInjective, OwnsAlone, HandlesOf
    <2> QED
      BY <2>1 DEF Bijection, Surjection
  <1>6. IsFiniteSet(full)
    BY SlotsAssumption, FS_Subset
  <1>7. IsFiniteSet(Keyed(s)) /\ Cardinality(full) = Cardinality(Keyed(s))
    <2>1. slotOf \in Injection(Keyed(s), full)
      BY <1>4 DEF Bijection
    <2>2. IsFiniteSet(Keyed(s))
      BY <2>1, <1>6, FS_Injection
    <2> QED
      BY <2>2, <1>4, FS_Bijection DEF ExistsBijection
  <1>8. /\ IsFiniteSet(keys) /\ IsFiniteSet(mine) /\ Cardinality(mine) = Cardinality(keys)
    <2>1. IsFiniteSet(keys)
      BY <1>1, <1>7, FS_Subset
    <2>2. keyOf \in Injection(mine, keys)
      BY <1>5 DEF Bijection
    <2>3. IsFiniteSet(mine)
      BY <2>1, <2>2, FS_Injection
    <2> QED
      BY <2>1, <2>3, <1>5, FS_Bijection DEF ExistsBijection
  <1>9. IsFiniteSet(Range(queue[s])) /\ Cardinality(Range(queue[s])) = Len(queue[s])
    BY <1>1, LenIsCardinality DEF WaitingOnce
  <1>10. Range(queue[s]) \cap keys = {}
    BY <1>2 DEF OwnsAlone, Pending
  <1>11. Cardinality(Keyed(s)) = Cardinality(Range(queue[s])) + Cardinality(keys)
    <2> HIDE DEF keys, mine, full, slotOf, keyOf
    <2>1. Cardinality(Range(queue[s]) \cup keys) = Cardinality(Range(queue[s])) + Cardinality(keys) - Cardinality({})
      BY <1>8, <1>9, <1>10, FS_Union
    <2>2. Cardinality({}) = 0 /\ Cardinality(Range(queue[s])) \in Nat /\ Cardinality(keys) \in Nat
      BY <1>8, <1>9, FS_EmptySet, FS_CardinalityType
    <2>3. Keyed(s) = Range(queue[s]) \cup keys
      BY <1>1
    <2> QED
      BY <2>1, <2>2, <2>3
  <1>12. Cardinality(keys) \in Nat /\ Len(queue[s]) \in Nat
    BY <1>1, <1>8, FS_CardinalityType
  <1> QED
    BY <1>7, <1>8, <1>9, <1>11, <1>12 DEF HandlesOf

LEMMA InvImpliesHandles == Inv => HandlesKeepTheirValue
  <1> SUFFICES ASSUME Inv PROVE HandlesKeepTheirValue
    OBVIOUS
  <1>1. ASSUME NEW s \in States
        PROVE  IsInjective(Waiting(s)) /\ \A k \in Range(Waiting(s)) : Occupied(s, k)
    <2>1. queue[s] \in Seq(Keys) /\ taken[s] \in Seq(Keys) /\ WaitingOnce(s)
      BY KeyTypes DEF Inv
    <2>2. Range(Waiting(s)) = Pending(s) /\ IsInjective(Waiting(s))
      BY <2>1, RangeOfConcat DEF WaitingOnce, Pending, Waiting
    <2> QED
      BY <2>1, <2>2 DEF WaitingOnce
  <1>2. QueuedKeysAreLive
    BY <1>1, AnchorCount, Zenon DEF QueuedKeysAreLive, Inv
  <1>3. ASSUME NEW h \in handles
        PROVE  /\ Get(h.state, h) = h.of
               /\ h.state \in alive => h.of \in heap[h.state]
               /\ \A s \in States \ {h.state} : Get(s, h) = NoValue
    <2>1. OwnsAlone(h) /\ h.state \in States /\ h.key.slot \in Slots
      BY HandleTypes DEF Inv, Keys
    <2>2. h.of \in heap[h.state]
      BY <2>1 DEF Inv, Rooted, OwnsAlone, Occupied
    <2> QED
      BY <2>1, <2>2 DEF OwnsAlone, Get
  <1> QED
    BY <1>2, <1>3 DEF HandlesKeepTheirValue

(***************************************************************************)
(* For any number of States, slots, objects and anchorings: a handle is    *)
(* answered with its value by the State that issued it and by no other,    *)
(* the value is not swept, a queued key names a live slot, and             *)
(* anchor_count is the number of handles (src/vm/anchor.rs).               *)
(***************************************************************************)
THEOREM HandlesAreSafe == Spec => []HandlesKeepTheirValue
  BY InvHolds, InvImpliesHandles, PTL

(***************************************************************************)
(* A drop that was queued before a drain began is reclaimed when the drain *)
(* ends, whatever other threads drop meanwhile (drain_released).           *)
(***************************************************************************)
THEOREM DrainsReclaim == Spec => DrainReclaims
  <1>1. ASSUME Inv, [Next]_vars
        PROVE  [\A s \in States : phase[s] # Idle /\ phase'[s] = Idle =>
                    \A k \in Range(taken[s]) : ~Occupied(s, k)']_vars
    <2> SUFFICES ASSUME Next, NEW s \in States, phase[s] # Idle, phase'[s] = Idle, NEW k \in Range(taken[s])
                 PROVE  ~Occupied(s, k)'
      BY <1>1
    <2>1. FinishAnchor(s) \/ FinishCollect(s)
      <3>1. phase' # phase
        OBVIOUS
      <3>2. PICK t \in States : \/ FinishAnchor(t) \/ FinishCollect(t) \/ BeginCollect(t)
                                \/ \E o \in Objects, op \in {"anchor", "anchor_at"} : BeginAnchor(t, op, o)
        BY <3>1, Zenon DEF Next, Allocate, Pop, Poison, DropState, DropAnchor, ReleaseAnchor, PushAnchor
      <3>3. t = s
        BY <1>1, <3>2, Zenon DEF FinishAnchor, FinishCollect, BeginCollect, BeginAnchor, TakeQueue, Inv, TypeOK
      <3> QED
        BY <1>1, <3>2, <3>3, Zenon DEF BeginCollect, BeginAnchor, Callable
    <2> DEFINE ks == Range(taken[s])
    <2>2. TypeOK /\ ks \in SUBSET Keys /\ \A j \in ks : Occupied(s, j)
      BY <1>1, DrainedKeys DEF Inv
    <2>3. gen'[s] = RemovedGen(s, ks)
      BY <2>1, <2>2 DEF FinishAnchor, FinishCollect, TypeOK
    <2> QED
      BY <2>2, <2>3, Removal DEF Occupied
  <1> QED
    BY <1>1, InvHolds, PTL DEF Spec, DrainReclaims
=============================================================================
