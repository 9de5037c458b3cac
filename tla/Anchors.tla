------------------------------ MODULE Anchors ------------------------------
(***************************************************************************)
(* Anchors (src/vm/anchor.rs): handles a host keeps to Lua values, for     *)
(* several States in one process.  A handle owns a slot of its State's     *)
(* registry.  It may be dropped on any thread at any time, also while its  *)
(* State executes or after it is gone: the drop only queues the slot's     *)
(* key, and the State removes queued slots when it next collects or        *)
(* anchors.  Draining takes the queue under its lock and removes the slots *)
(* afterwards, so other threads run between the two; that is why           *)
(* anchoring and collecting are two steps here.                            *)
(***************************************************************************)
EXTENDS Naturals, FiniteSets, Sequences, Functions, FiniteSetsExt, TLC

CONSTANTS
    States,     \* the States of the process
    Slots,      \* the slots a registry ever uses
    Objects,    \* the heap objects a State ever allocates
    MaxAnchors  \* bound on the anchorings of all States together

CONSTANT NoValue
ASSUME NoValueAssumption == NoValue \notin Objects
ASSUME SlotsAssumption == IsFiniteSet(Slots)

VARIABLES
    alive,     \* States not dropped yet
    poisoned,  \* State::poisoned
    heap,      \* objects allocated and not swept
    stack,     \* objects on the value stack
    value,     \* Registry::slots, the values
    gen,       \* Registry::slots, the generations
    queue,     \* ReleaseQueue
    phase,     \* what each State is doing with its registry
    taken,     \* keys drain_released took from the queue
    handles    \* the Anchors that exist, all armed

vars == <<alive, poisoned, heap, stack, value, gen, queue, phase, taken, handles>>

Keys == [slot : Slots, gen : Nat]

(* A handle; `of` remembers the value it was made for. *)
Handles == [state : States, key : Keys, of : Objects]

Idle == [op |-> "idle"]
Phases == {Idle, [op |-> "collect"]} \cup [op : {"anchor", "anchor_at"}, of : Objects]

TypeOK ==
    /\ alive \subseteq States
    /\ poisoned \subseteq States
    /\ heap \in [States -> SUBSET Objects]
    /\ stack \in [States -> SUBSET Objects]
    /\ value \in [States -> [Slots -> Objects \cup {NoValue}]]
    /\ gen \in [States -> [Slots -> Nat]]
    /\ queue \in [States -> Seq(Keys)]
    /\ phase \in [States -> Phases]
    /\ taken \in [States -> Seq(Keys)]
    /\ handles \subseteq Handles

Init ==
    /\ alive = States
    /\ poisoned = {}
    /\ heap = [s \in States |-> {}]
    /\ stack = [s \in States |-> {}]
    /\ value = [s \in States |-> [i \in Slots |-> NoValue]]
    /\ gen = [s \in States |-> [i \in Slots |-> 0]]
    /\ queue = [s \in States |-> <<>>]
    /\ phase = [s \in States |-> Idle]
    /\ taken = [s \in States |-> <<>>]
    /\ handles = {}

-----------------------------------------------------------------------------
(* The slot map: a key names a slot of one generation.                     *)

Occupied(s, k) == value[s][k.slot] # NoValue /\ gen[s][k.slot] = k.gen

(* Registry::get: the value behind a handle, if State s issued it *)
Get(s, h) ==
    IF h.state = s /\ Occupied(s, h.key) THEN value[s][h.key.slot] ELSE NoValue

(* SlotMap::remove of each key in ks; a removed slot starts a generation. *)
RemovedValue(s, ks) ==
    [i \in Slots |-> IF \E k \in ks : k.slot = i /\ Occupied(s, k)
                     THEN NoValue ELSE value[s][i]]

RemovedGen(s, ks) ==
    [i \in Slots |-> IF \E k \in ks : k.slot = i /\ Occupied(s, k)
                     THEN gen[s][i] + 1 ELSE gen[s][i]]

(* How many anchors were made so far, from the slots' generations *)
Anchorings ==
    MapThenSumSet(
        LAMBDA s : MapThenSumSet(
            LAMBDA i : gen[s][i] + (IF value[s][i] = NoValue THEN 0 ELSE 1), Slots),
        States)

(* A State a host can call: it exists and is not in the middle of a call. *)
Callable(s) == s \in alive /\ phase[s] = Idle

-----------------------------------------------------------------------------
(* The mutator: a value is created on the stack, and leaves it. *)
Allocate(s, o) ==
    /\ Callable(s) /\ s \notin poisoned
    /\ o \notin heap[s]
    /\ heap' = [heap EXCEPT ![s] = @ \cup {o}]
    /\ stack' = [stack EXCEPT ![s] = @ \cup {o}]
    /\ UNCHANGED <<alive, poisoned, value, gen, queue, phase, taken, handles>>

Pop(s, o) ==
    /\ Callable(s) /\ o \in stack[s]
    /\ stack' = [stack EXCEPT ![s] = @ \ {o}]
    /\ UNCHANGED <<alive, poisoned, heap, value, gen, queue, phase, taken, handles>>

(* A panic unwinds through the State. *)
Poison(s) ==
    /\ Callable(s)
    /\ poisoned' = poisoned \cup {s}
    /\ UNCHANGED <<alive, heap, stack, value, gen, queue, phase, taken, handles>>

(* The host drops the State; its handles outlive it. *)
DropState(s) ==
    /\ Callable(s)
    /\ alive' = alive \ {s}
    /\ UNCHANGED <<poisoned, heap, stack, value, gen, queue, phase, taken, handles>>

(* drain_released up to the unlock: the queue is taken, nothing removed. *)
TakeQueue(s, next) ==
    /\ phase' = [phase EXCEPT ![s] = next]
    /\ taken' = [taken EXCEPT ![s] = queue[s]]
    /\ queue' = [queue EXCEPT ![s] = <<>>]
    /\ UNCHANGED <<alive, poisoned, heap, stack, value, gen, handles>>

(***************************************************************************)
(* anchor and anchor_at (and their _function forms): refused on a poisoned *)
(* State and for nil, which is not an object here.  Registry::insert       *)
(* drains, then takes a free slot; which one is the slot map's choice.     *)
(***************************************************************************)
BeginAnchor(s, op, o) ==
    /\ Callable(s) /\ s \notin poisoned
    /\ o \in stack[s]
    /\ Anchorings + Cardinality({t \in States : phase[t].op \in {"anchor", "anchor_at"}}) < MaxAnchors
    /\ TakeQueue(s, [op |-> op, of |-> o])

FinishAnchor(s) ==
    /\ phase[s].op \in {"anchor", "anchor_at"}
    /\ LET o == phase[s].of
           cleared == RemovedValue(s, Range(taken[s]))
           gens == RemovedGen(s, Range(taken[s]))
       IN  \E i \in Slots :
             /\ cleared[i] = NoValue
             /\ value' = [value EXCEPT ![s] = [cleared EXCEPT ![i] = o]]
             /\ gen' = [gen EXCEPT ![s] = gens]
             /\ handles' = handles \cup
                    {[state |-> s, key |-> [slot |-> i, gen |-> gens[i]], of |-> o]}
             /\ stack' = IF phase[s].op = "anchor"
                         THEN [stack EXCEPT ![s] = @ \ {o}] ELSE stack
    /\ phase' = [phase EXCEPT ![s] = Idle]
    /\ taken' = [taken EXCEPT ![s] = <<>>]
    /\ UNCHANGED <<alive, poisoned, heap, queue>>

(***************************************************************************)
(* collect_garbage, automatic or by gc_collect (a no-op when poisoned):    *)
(* drain, then sweep what neither the stack nor the registry roots.        *)
(***************************************************************************)
BeginCollect(s) ==
    /\ Callable(s) /\ s \notin poisoned
    /\ TakeQueue(s, [op |-> "collect"])

FinishCollectPuttingBack(s) ==
    /\ phase[s].op = "collect"
    /\ queue' = [queue EXCEPT ![s] = taken[s] \o @]
    /\ heap' = [heap EXCEPT ![s] = @ \cap (stack[s] \cup Range(value[s]))]
    /\ phase' = [phase EXCEPT ![s] = Idle]
    /\ taken' = [taken EXCEPT ![s] = <<>>]
    /\ UNCHANGED <<alive, poisoned, stack, value, gen, handles>>

FinishCollect(s) ==
    /\ phase[s].op = "collect"
    /\ value' = [value EXCEPT ![s] = RemovedValue(s, Range(taken[s]))]
    /\ gen' = [gen EXCEPT ![s] = RemovedGen(s, Range(taken[s]))]
    /\ heap' = [heap EXCEPT ![s] = @ \cap (stack[s] \cup Range(value'[s]))]
    /\ phase' = [phase EXCEPT ![s] = Idle]
    /\ taken' = [taken EXCEPT ![s] = <<>>]
    /\ UNCHANGED <<alive, poisoned, stack, queue, handles>>

(* Drop for Anchor, on whichever thread owns the handle *)
DropAnchor(h) ==
    /\ h \in handles
    /\ handles' = handles \ {h}
    /\ queue' = [queue EXCEPT ![h.state] = Append(@, h.key)]
    /\ UNCHANGED <<alive, poisoned, heap, stack, value, gen, phase, taken>>

(***************************************************************************)
(* release_anchor: the issuing State frees the slot at once and disarms    *)
(* the handle; any other State lets it drop, which queues it at home.      *)
(***************************************************************************)
ReleaseLeavingHandleArmed(s, h) ==
    /\ Callable(s) /\ h \in handles
    /\ handles' = handles \ {h}
    /\ queue' = [queue EXCEPT ![h.state] = Append(@, h.key)]
    /\ IF h.state = s
       THEN /\ value' = [value EXCEPT ![s] = RemovedValue(s, {h.key})]
            /\ gen' = [gen EXCEPT ![s] = RemovedGen(s, {h.key})]
       ELSE UNCHANGED <<value, gen>>
    /\ UNCHANGED <<alive, poisoned, heap, stack, phase, taken>>

ReleaseAnchor(s, h) ==
    /\ Callable(s) /\ h \in handles
    /\ handles' = handles \ {h}
    /\ IF h.state = s
       THEN /\ value' = [value EXCEPT ![s] = RemovedValue(s, {h.key})]
            /\ gen' = [gen EXCEPT ![s] = RemovedGen(s, {h.key})]
            /\ UNCHANGED queue
       ELSE /\ queue' = [queue EXCEPT ![h.state] = Append(@, h.key)]
            /\ UNCHANGED <<value, gen>>
    /\ UNCHANGED <<alive, poisoned, heap, stack, phase, taken>>

(* push_anchor and call_anchor: refused, without effect, by another State. *)
PushAnchor(s, h) ==
    /\ Callable(s) /\ s \notin poisoned /\ h \in handles
    /\ Get(s, h) # NoValue
    /\ stack' = [stack EXCEPT ![s] = @ \cup {Get(s, h)}]
    /\ UNCHANGED <<alive, poisoned, heap, value, gen, queue, phase, taken, handles>>

Next ==
    \/ \E s \in States, o \in Objects :
          \/ Allocate(s, o)
          \/ Pop(s, o)
          \/ \E op \in {"anchor", "anchor_at"} : BeginAnchor(s, op, o)
    \/ \E s \in States :
          \/ FinishAnchor(s)
          \/ BeginCollect(s)
          \/ FinishCollect(s)
          \/ Poison(s)
          \/ DropState(s)
    \/ \E h \in handles : DropAnchor(h)
    \/ \E s \in States, h \in handles : ReleaseAnchor(s, h) \/ PushAnchor(s, h)

Spec == Init /\ [][Next]_vars

-----------------------------------------------------------------------------
(* Keys that wait to be removed from State s's registry. *)
Waiting(s) == queue[s] \o taken[s]

(***************************************************************************)
(* The state is well typed, and the registry's debug assertion holds: "A   *)
(* queued anchor key names a live slot", also after it was taken and while *)
(* other threads drop more; each is queued once, so no removal hits a      *)
(* slot's next tenant.  So anchor_count, occupied slots minus queued keys, *)
(* is the number of handles whenever a host can call it, and never wraps.  *)
(***************************************************************************)
QueuedKeysAreLive ==
    /\ TypeOK
    /\ \A s \in States : Callable(s) =>
          Cardinality({i \in Slots : value[s][i] # NoValue}) - Len(queue[s])
              = Cardinality({h \in handles : h.state = s})
    /\ \A s \in States :
          /\ IsInjective(Waiting(s))
          /\ \A k \in Range(Waiting(s)) : Occupied(s, k)

(***************************************************************************)
(* While a handle exists its State answers it with the value it was made   *)
(* for, which no collection swept, however often slots were recycled; and  *)
(* every other State refuses it.  The queued keys are live (above).        *)
(***************************************************************************)
HandlesKeepTheirValue ==
    /\ QueuedKeysAreLive
    /\ \A h \in handles :
          /\ Get(h.state, h) = h.of
          /\ h.state \in alive => h.of \in heap[h.state]
          /\ \A s \in States \ {h.state} : Get(s, h) = NoValue

(***************************************************************************)
(* A drop that reached the queue before a collection or an anchoring began *)
(* is reclaimed when it ends: its key no longer names a slot.              *)
(***************************************************************************)
DrainReclaims ==
    [][\A s \in States : phase[s] # Idle /\ phase'[s] = Idle =>
          \A k \in Range(taken[s]) : ~Occupied(s, k)']_vars

(* States, slots and objects are only compared, so each kind is symmetric. *)
Symmetry == Permutations(States) \cup Permutations(Slots) \cup Permutations(Objects)
=============================================================================
