------------------------------ MODULE TableOps ------------------------------
(***************************************************************************)
(* Lua tables (src/vm/table.rs) as values: a record and the operators that *)
(* return the record after an operation.                                   *)
(*                                                                         *)
(* The array part holds keys 1..vlen, of which only a window is stored;    *)
(* the hash part holds the rest as slots in insertion order, dead ones     *)
(* included.  An operator that may have to grow the window takes `memory`, *)
(* the largest window the allocator grants during the operation, and       *)
(* returns [ok, t]; when it is refused, t is the table the error leaves.   *)
(***************************************************************************)
EXTENDS Integers, Sequences, FiniteSets, Functions, FiniteSetsExt

CONSTANTS
    Names,            \* string keys; every other key is a positive integer
    Nil,              \* Val::Nil
    Vacant,           \* TableKeyKind::Vacant
    InlineCapacity,   \* TABLE_INLINE_CAPACITY
    MaxArrayLen,      \* MAX_ARRAY_LEN
    LeadCatchUp,      \* LEAD_CATCH_UP
    EmptiedCapacity,  \* EMPTIED_WINDOW_CAPACITY
    VersionSpace      \* how many shape versions there are (2^64)

ASSUME TableOpsAssumption ==
    /\ InlineCapacity \in Nat \ {0} /\ MaxArrayLen \in Nat
    /\ LeadCatchUp \in Nat \ {0} /\ EmptiedCapacity \in Nat \ {0}
    /\ VersionSpace \in Nat \ {0}
    /\ Nil # Vacant /\ Vacant \notin Names /\ \A n \in Names : n \notin Nat

EmptyTable ==
    [array |-> <<>>, cap |-> 0, base |-> 0, vlen |-> 0, lead |-> 0, live |-> 0,
     hash |-> <<>>, map |-> FALSE, revive |-> FALSE, retain |-> FALSE,
     dead |-> 0, version |-> 0]

(* with_capacity: a constructor with many named fields starts as a map *)
SizedTable(map) == [EmptyTable EXCEPT !.map = map]

(* with_template_keys: one reserved dead slot per key *)
TemplateTable(keys) ==
    [EmptyTable EXCEPT !.map = TRUE, !.dead = Len(keys),
                       !.hash = [i \in DOMAIN keys |-> [key |-> keys[i], val |-> Nil]]]

(* bump_version wraps *)
Bumped(version) == (version + 1) % VersionSpace

Done(t) == [ok |-> TRUE, t |-> t]
Failed(t) == [ok |-> FALSE, t |-> t]

(***************************************************************************)
(* Lookups                                                                 *)
(***************************************************************************)
WindowEnd(t) == t.base + Len(t.array)
InWindow(t, k) == k \notin Names /\ t.base < k /\ k <= WindowEnd(t)
IsArrayKey(t, k) == k \notin Names /\ 1 <= k /\ k <= t.vlen

HasSlot(t, k) == \E i \in DOMAIN t.hash : t.hash[i].key = k
SlotOf(t, k) == CHOOSE i \in DOMAIN t.hash : t.hash[i].key = k
HashGet(t, k) == IF HasSlot(t, k) THEN t.hash[SlotOf(t, k)].val ELSE Nil

ArrayValue(t, k) == IF InWindow(t, k) THEN t.array[k - t.base] ELSE Nil

Get(t, k) == IF InWindow(t, k) THEN t.array[k - t.base] ELSE HashGet(t, k)

IsLive(slot) == slot.val # Nil
CountLive(values) == Cardinality({i \in DOMAIN values : values[i] # Nil})
HashLive(t) == Len(t.hash) - t.dead
One(v) == IF v = Nil THEN 0 ELSE 1

(* array_len: a border, by binary search over the logical array *)
ArrayLen(t) ==
    LET search[lo \in 0 .. t.vlen, hi \in 0 .. t.vlen] ==
            IF hi - lo <= 1 THEN lo
            ELSE LET mid == lo + (hi - lo) \div 2
                 IN  IF ArrayValue(t, mid) = Nil THEN search[lo, mid] ELSE search[mid, hi]
    IN  IF t.array # <<>> /\ WindowEnd(t) = t.vlen /\ t.array[Len(t.array)] # Nil THEN t.vlen
        ELSE search[0, t.vlen]

(***************************************************************************)
(* The hash part                                                           *)
(***************************************************************************)
(* The elements of s at the positions in `at`, in order *)
Picked(s, at) ==
    [i \in 1 .. Cardinality(at) |-> s[CHOOSE p \in at : Cardinality({q \in at : q <= p}) = i]]

Without(s, i) == SubSeq(s, 1, i - 1) \o SubSeq(s, i + 1, Len(s))

LiveSlots(t) == {i \in DOMAIN t.hash : IsLive(t.hash[i])}

RemoveSlotAltogether(t, k) ==
    IF HashGet(t, k) = Nil THEN t ELSE [t EXCEPT !.hash = Without(@, SlotOf(t, k))]

HashRemove(t, k) ==
    IF HashGet(t, k) = Nil THEN t
    ELSE [t EXCEPT !.hash[SlotOf(t, k)].val = Nil, !.dead = @ + 1]

CompactDeadSilently(t) ==
    IF t.dead = 0 \/ (t.map /\ t.retain) THEN t
    ELSE [t EXCEPT !.hash = Picked(@, LiveSlots(t)), !.dead = 0]

CompactDead(t) ==
    IF t.dead = 0 \/ (t.map /\ t.retain) THEN t
    ELSE [t EXCEPT !.hash = Picked(@, LiveSlots(t)), !.dead = 0, !.version = Bumped(@)]

AddSlot(t, k, v) == [t EXCEPT !.hash = Append(@, [key |-> k, val |-> v])]

(* Inline storage shifts a dead slot of the key out; a full one promotes. *)
InsertInline(t, k, v) ==
    IF HasSlot(t, k)
    THEN AddSlot([t EXCEPT !.hash = Without(@, SlotOf(t, k)), !.dead = @ - 1,
                           !.version = Bumped(@)], k, v)
    ELSE LET room == IF t.dead > 0 /\ (t.dead >= HashLive(t) \/ Len(t.hash) = InlineCapacity)
                     THEN CompactDead(t) ELSE t
         IN  AddSlot([room EXCEPT !.map = Len(room.hash) = InlineCapacity], k, v)

(* A map vacates the dead slot of a key written again, unless it revives it *)
InsertMap(t, k, v) ==
    IF HasSlot(t, k) /\ t.revive
    THEN [t EXCEPT !.hash[SlotOf(t, k)].val = v, !.dead = @ - 1]
    ELSE LET vacated == IF HasSlot(t, k)
                        THEN [t EXCEPT !.hash[SlotOf(t, k)].key = Vacant, !.version = Bumped(@)]
                        ELSE t
         IN  AddSlot(IF t.dead >= HashLive(t) THEN CompactDead(vacated) ELSE vacated, k, v)

InsertHash(t, k, v) ==
    IF HashGet(t, k) # Nil THEN [t EXCEPT !.hash[SlotOf(t, k)].val = v]
    ELSE IF t.map THEN InsertMap(t, k, v) ELSE InsertInline(t, k, v)

(***************************************************************************)
(* The array part                                                          *)
(***************************************************************************)
AdvanceLead(t) ==
    [t EXCEPT !.lead = Max({n \in @ .. Min({@ + LeadCatchUp, Len(t.array)}) :
                               \A i \in @ + 1 .. n : t.array[i] = Nil})]

WriteWindowKeepingLead(t, p, v) ==
    [t EXCEPT !.array[p] = v, !.live = @ - One(t.array[p]) + One(v)]

WriteWindow(t, p, v) ==
    LET written == [t EXCEPT !.array[p] = v, !.live = @ - One(t.array[p]) + One(v)]
    IN  IF v # Nil THEN [written EXCEPT !.lead = Min({@, p - 1})]
        ELSE IF p - 1 = t.lead THEN AdvanceLead([written EXCEPT !.lead = @ + 1])
        ELSE written

(* reserve_array: the window may grow to n slots without another allocation *)
CanReserve(t, n, memory) == n <= t.cap \/ n <= memory
WithRoom(t, n) == IF n <= t.cap THEN t ELSE [t EXCEPT !.cap = n]

ResetWindow(t, base) ==
    [t EXCEPT !.array = <<>>, !.live = 0, !.lead = 0, !.base = base,
              !.cap = Min({@, EmptiedCapacity})]

DropDeadPrefix(t) ==
    LET kept == SubSeq(t.array, t.lead + 1, Len(t.array))
        keep == Max({Len(kept), EmptiedCapacity})
    IN  [t EXCEPT !.array = kept, !.base = @ + t.lead, !.lead = 0,
                  !.cap = IF @ > 4 * keep THEN 2 * keep ELSE @]

NilFilled(values, n) == values \o [i \in 1 .. n - Len(values) |-> Nil]

(* prepare_append_after_lead: the window is made to end at vlen *)
FilledToEnd(t, memory) ==
    IF WindowEnd(t) = t.vlen THEN Done(t)
    ELSE IF ~CanReserve(t, t.vlen - t.base, memory) THEN Failed(t)
    ELSE Done([WithRoom(t, t.vlen - t.base) EXCEPT !.array = NilFilled(@, t.vlen - t.base)])

PrepareAppend(t, memory) ==
    IF t.live = 0
    THEN Done(IF t.array # <<>> \/ t.base # t.vlen THEN ResetWindow(t, t.vlen) ELSE t)
    ELSE FilledToEnd(IF t.lead * 2 >= Len(t.array) THEN DropDeadPrefix(t) ELSE t, memory)

(* The live hash keys that follow an append at vlen + 1 *)
MigrationRun(t) ==
    Max({n \in 0 .. Len(t.hash) : \A i \in 1 .. n : HashGet(t, t.vlen + 1 + i) # Nil})

AppendGrowth(t) == 1 + MigrationRun(t)

CompactedIfSparse(t) == IF t.dead >= HashLive(t) THEN CompactDead(t) ELSE t

(* migrate_from_hash, for the run of n keys after vlen *)
MigrateFromHash(t, n) ==
    IF n = 0 THEN t
    ELSE CompactedIfSparse(
            [t EXCEPT !.array = @ \o [i \in 1 .. n |-> HashGet(t, t.vlen + i)],
                      !.vlen = @ + n, !.live = @ + n, !.dead = @ + n,
                      !.hash = [i \in DOMAIN @ |-> IF @[i].key \in t.vlen + 1 .. t.vlen + n
                                                   THEN [@[i] EXCEPT !.val = Nil] ELSE @[i]]])

(* reserve_append: room for the value and the keys that will migrate *)
AppendNeed(t, growth) == IF t.live = 0 THEN growth ELSE t.vlen + growth - t.base

AppendPrepared(t, v, growth, memory) ==
    IF t.vlen + growth > MaxArrayLen \/ ~CanReserve(t, AppendNeed(t, growth), memory) THEN Failed(t)
    ELSE Done(MigrateFromHash([WithRoom(t, AppendNeed(t, growth)) EXCEPT
                                  !.vlen = @ + 1, !.array = Append(@, v), !.live = @ + One(v)],
                              growth - 1))

AppendAfter(prepared, v, memory) ==
    IF ~prepared.ok THEN prepared
    ELSE AppendPrepared(prepared.t, v, AppendGrowth(prepared.t), memory)

(* append: the fast path is this one when it has nothing to do *)
AppendValue(t, v, memory) ==
    IF t.vlen = MaxArrayLen THEN Failed(AdvanceLead(t))
    ELSE AppendAfter(PrepareAppend(AdvanceLead(t), memory), v, memory)

HalfUp(n) == (n + 1) \div 2
PadBelow(k, live) == Min({k - 1, HalfUp(live)})

(* reserve_outside_window: what WriteOutside needs once the window has     *)
(* `extra` more slots and `more` more live values                          *)
OutsideNeedIgnoringMigration(t, k, extra, more) ==
    IF t.live = 0 THEN 1
    ELSE IF k <= t.base THEN Len(t.array) + extra + t.base - (k - 1 - PadBelow(k, t.live))
    ELSE k - t.base

OutsideNeed(t, k, extra, more) ==
    IF t.live + more = 0 THEN 1
    ELSE IF k <= t.base THEN Len(t.array) + extra + t.base - (k - 1 - PadBelow(k, t.live + more))
    ELSE k - t.base

WrittenOutside(t, k, v) ==
    LET pad == PadBelow(k, t.live)
        grow == t.base - (k - 1 - pad)
    IN  IF t.live = 0 THEN [ResetWindow(t, k - 1) EXCEPT !.array = <<v>>, !.live = 1]
        ELSE IF k <= t.base
        THEN [t EXCEPT !.array = [i \in 1 .. grow |-> IF i = pad + 1 THEN v ELSE Nil] \o @,
                       !.base = @ - grow, !.lead = pad, !.live = @ + 1]
        ELSE [t EXCEPT !.array = Append(NilFilled(@, k - t.base - 1), v), !.live = @ + 1]

WriteOutside(t, k, v, memory) ==
    IF ~CanReserve(t, OutsideNeed(t, k, 0, 0), memory) THEN Failed(t)
    ELSE Done(WrittenOutside(WithRoom(t, OutsideNeed(t, k, 0, 0)), k, v))

-----------------------------------------------------------------------------
Insert(t, k, v, memory) ==
    IF InWindow(t, k) THEN Done(WriteWindow(t, k - t.base, v))
    ELSE IF v = Nil THEN Done(HashRemove(t, k))
    ELSE IF k = t.vlen + 1 THEN AppendValue(t, v, memory)
    ELSE IF IsArrayKey(t, k) THEN WriteOutside(t, k, v, memory)
    ELSE Done(InsertHash(t, k, v))

(* array_insert: the elements from pos to the border len move up by one *)
InsertGrowth(t, len) ==
    IF len = t.vlen THEN AppendGrowth(t) ELSE IF len = WindowEnd(t) THEN 1 ELSE 0

InsertNeed(t, pos, v, len, growth) ==
    IF pos <= t.base /\ v # Nil
    THEN OutsideNeed(t, pos, growth, IF len = t.vlen THEN growth - 1 ELSE 0)
    ELSE Len(t.array) + growth

RotatedUp(t, low, high) ==
    [t EXCEPT !.array = [i \in DOMAIN @ |-> IF i = low THEN Nil
                                            ELSE IF i \in low + 1 .. high THEN @[i - 1] ELSE @[i]]]

OpenedAt(t, pos, len, growth) ==
    LET pushed == IF len = WindowEnd(t) THEN [t EXCEPT !.array = Append(@, Nil)] ELSE t
        rotated == RotatedUp(pushed, Max({pos, t.base + 1}) - t.base, len + 1 - t.base)
    IN  IF len = t.vlen THEN MigrateFromHash([rotated EXCEPT !.vlen = @ + 1], growth - 1)
        ELSE rotated

WriteOpened(t, pos, v, memory) ==
    IF pos > t.base THEN Done(WriteWindow(t, pos - t.base, v))
    ELSE IF v # Nil THEN WriteOutside(t, pos, v, memory) ELSE Done(t)

InsertBelow(t, pos, v, len, growth, memory) ==
    LET need == InsertNeed(t, pos, v, len, growth)
    IN  IF (len = t.vlen /\ t.vlen + growth > MaxArrayLen) \/ ~CanReserve(t, need, memory)
        THEN Failed(t)
        ELSE WriteOpened(OpenedAt(WithRoom(t, need), pos, len, growth), pos, v, memory)

ArrayInsert(t, pos, v, memory) ==
    LET len == ArrayLen(t)
    IN  IF pos = len + 1 THEN Insert(t, pos, v, memory)
        ELSE InsertBelow(t, pos, v, len, InsertGrowth(t, len), memory)

(* array_remove: the elements after pos up to the border len move down *)
RotatedDown(t, pos, len) ==
    LET from == Max({pos - t.base, 1})
        end == len - t.base
    IN  [t EXCEPT !.array = [i \in DOMAIN @ |-> IF i = end THEN Nil
                                                ELSE IF i \in from .. end - 1 THEN @[i + 1] ELSE @[i]],
                  !.live = @ - One(t.array[from]),
                  !.lead = IF pos > t.base THEN Min({@, from - 1}) ELSE 0]

RemoveNeed(t) == Len(t.array) + 1 + Min({t.base - 1, HalfUp(Len(t.array))})

ArrayRemove(t, pos, memory) ==
    LET len == ArrayLen(t)
    IN  IF pos \notin 1 .. len THEN Insert(t, pos, Nil, memory)
        ELSE IF pos > t.base \/ t.array[1] = Nil THEN Done(RotatedDown(t, pos, len))
        ELSE IF ~CanReserve(t, RemoveNeed(t), memory) THEN Failed(t)
        ELSE WriteOutside(RotatedDown(WithRoom(t, RemoveNeed(t)), pos, len), t.base, t.array[1], memory)

(***************************************************************************)
(* set_list: a constructor's positional values from key `first` on.  Each  *)
(* key is appended, nil included, or inserted; the bulk path appends all   *)
(* that are left at once, when no hash key can follow them.                *)
(***************************************************************************)
WindowIsPlain(t) == t.array # <<>> /\ t.array[1] # Nil /\ WindowEnd(t) = t.vlen

AppendsArePlain(t) == WindowIsPlain(t) /\ HashLive(t) = 0

ListHashCannotMigrate(t, count) ==
    \/ HashLive(t) = 0
    \/ Len(t.hash) <= count /\ \A i \in DOMAIN t.hash : IsLive(t.hash[i]) => t.hash[i].key \in Names

ReserveList(prepared, count, memory) ==
    LET need == Len(prepared.t.array) + count
    IN  IF ~prepared.ok THEN prepared
        ELSE IF ~CanReserve(prepared.t, need, memory) THEN Failed(prepared.t)
        ELSE Done(WithRoom(prepared.t, need))

PrepareListAppend(t, count, memory) ==
    ReserveList(IF AppendsArePlain(t) \/ (t.array = <<>> /\ t.base = t.vlen) THEN Done(t)
                ELSE PrepareAppend(AdvanceLead(t), memory), count, memory)

BulkAppend(t, values, memory) ==
    LET need == Len(t.array) + Len(values)
    IN  IF t.vlen + Len(values) > MaxArrayLen \/ ~CanReserve(t, need, memory) THEN Failed(t)
        ELSE Done([WithRoom(t, need) EXCEPT !.vlen = @ + Len(values), !.array = @ \o values,
                                            !.live = @ + CountLive(values)])

(* Whether the hash part is looked at before `v` is appended *)
ListScans(acc, v) ==
    /\ WindowIsPlain(acc.t) \/ (acc.t.array = <<>> /\ acc.t.base = acc.t.vlen /\ v # Nil)
    /\ ~acc.mayMigrate \/ HashLive(acc.t) = 0

ListStep(acc, result) == [acc EXCEPT !.ok = result.ok, !.t = result.t]

ListAppendAfter(prepared, v, memory) ==
    IF ~prepared.ok THEN prepared ELSE AppendValue(prepared.t, v, memory)

ListAppend(acc, values, memory) ==
    IF ListScans(acc, Head(values)) /\ ListHashCannotMigrate(acc.t, Len(values))
    THEN [ListStep(acc, BulkAppend(acc.t, values, memory)) EXCEPT !.done = TRUE]
    ELSE [ListStep(acc, ListAppendAfter(IF acc.reserved THEN Done(acc.t)
                                        ELSE PrepareListAppend(acc.t, Len(values), memory),
                                        Head(values), memory))
             EXCEPT !.reserved = TRUE, !.mayMigrate = @ \/ ListScans(acc, Head(values))]

SetListFrom(acc, first, values, i, memory) ==
    IF ~acc.ok \/ acc.done THEN acc
    ELSE IF first + i - 1 = acc.t.vlen + 1
    THEN ListAppend(acc, SubSeq(values, i, Len(values)), memory)
    ELSE ListStep(acc, Insert(acc.t, first + i - 1, values[i], memory))

ListResult(acc) == [ok |-> acc.ok, t |-> acc.t]

(* init_at_index: a constructor writes a reserved slot that holds its key *)
InitAtIndex(t, i, k, v) ==
    IF i \notin DOMAIN t.hash \/ t.hash[i].key # k THEN Failed(t)
    ELSE Done([t EXCEPT !.hash[i].val = v, !.dead = @ + One(t.hash[i].val) - One(v)])

(* set_slot_policy: inline storage becomes a map, slot for slot *)
SetSlotPolicy(t, revive, retain) == [t EXCEPT !.map = TRUE, !.revive = revive, !.retain = retain]

(* swap_contents: the version moves past both tables' *)
SwapIn(t, incoming) == [incoming EXCEPT !.version = Bumped(Max({@, t.version}))]

(***************************************************************************)
(* rebuild_from_snapshot of snapshot_entries: the live span of the array   *)
(* becomes the window, every hash slot returns, the policy is the default. *)
(***************************************************************************)
LivePositions(t) == {i \in DOMAIN t.array : t.array[i] # Nil}

ReloadedWithoutTombstones(t) ==
    LET live == LivePositions(t)
        span == IF live = {} THEN <<>> ELSE SubSeq(t.array, Min(live), Max(live))
    IN  [t EXCEPT !.array = span, !.cap = Len(span), !.lead = 0,
                  !.base = IF live = {} THEN 0 ELSE @ + Min(live) - 1,
                  !.live = Cardinality(live), !.revive = FALSE, !.retain = FALSE,
                  !.hash = Picked(@, LiveSlots(t)), !.dead = 0, !.version = Bumped(@)]

Reloaded(t) ==
    LET live == LivePositions(t)
        span == IF live = {} THEN <<>> ELSE SubSeq(t.array, Min(live), Max(live))
    IN  [t EXCEPT !.array = span, !.cap = Len(span), !.lead = 0,
                  !.base = IF live = {} THEN 0 ELSE @ + Min(live) - 1,
                  !.live = Cardinality(live),
                  !.revive = FALSE, !.retain = FALSE,
                  !.dead = Cardinality({i \in DOMAIN t.hash : ~IsLive(t.hash[i])}),
                  !.version = Bumped(@)]

(***************************************************************************)
(* Tokens: what a cache holds to find a key again.                         *)
(***************************************************************************)
Index(part, at) == [part |-> part, at |-> at]

(* probe_hash and read_probe; "miss" is Rust's None *)
ProbeHash(t, k) ==
    [version |-> t.version, present |-> HasSlot(t, k),
     at |-> IF HasSlot(t, k) THEN SlotOf(t, k) ELSE Len(t.hash)]

Answer(v) == [hit |-> TRUE, val |-> v]
Miss == [hit |-> FALSE, val |-> Nil]

ReadProbe(t, probe) ==
    IF probe.version # t.version THEN Miss
    ELSE IF probe.present
    THEN IF probe.at \in DOMAIN t.hash THEN Answer(t.hash[probe.at].val) ELSE Miss
    ELSE IF probe.at = Len(t.hash) THEN Answer(Nil) ELSE Miss

(* store_probe, for a table that revives in place *)
StoreProbe(t, probe, v) ==
    IF probe.version # t.version \/ ~probe.present \/ probe.at \notin DOMAIN t.hash
       \/ t.hash[probe.at].key = Vacant
    THEN Failed(t)
    ELSE Done([t EXCEPT !.hash[probe.at].val = v,
                        !.dead = @ + One(t.hash[probe.at].val) - One(v)])

(* find_slot: the index of a live key; array indices are absolute keys *)
FindSlot(t, k) ==
    [version |-> t.version,
     index |-> IF InWindow(t, k) THEN Index("array", k) ELSE Index("hash", SlotOf(t, k))]

(* get_index_value *)
ValueAt(t, index) ==
    IF index.part = "array" THEN ArrayValue(t, index.at)
    ELSE IF index.at \in DOMAIN t.hash THEN t.hash[index.at].val ELSE Nil

KeyAt(t, index) == IF index.part = "array" THEN index.at ELSE t.hash[index.at].key

ReadSlot(t, slot) ==
    IF slot.version # t.version \/ ValueAt(t, slot.index) = Nil THEN Miss
    ELSE Answer(ValueAt(t, slot.index))

(* renew_slot, after the version moved *)
CanRenew(t, slot, k) == ValueAt(t, slot.index) # Nil /\ KeyAt(t, slot.index) = k

(* store_slot and set_at_index: only over a live value *)
StoreSlot(t, slot, v) ==
    IF ValueAt(t, slot.index) = Nil THEN Failed(t)
    ELSE IF slot.index.part = "array" THEN Done([t EXCEPT !.array[slot.index.at - t.base] = v])
    ELSE Done([t EXCEPT !.hash[slot.index.at].val = v])

(***************************************************************************)
(* Traversal: the array part in key order, then the slots in order.        *)
(***************************************************************************)
Pair(t, index) ==
    [kind |-> "pair", index |-> index, key |-> KeyAt(t, index), val |-> ValueAt(t, index)]
End == [kind |-> "end"]
InvalidKey == [kind |-> "invalid"]

NextInHash(t, after) ==
    LET live == {i \in DOMAIN t.hash : i > after /\ IsLive(t.hash[i])}
    IN  IF live = {} THEN End ELSE Pair(t, Index("hash", Min(live)))

(* after the array key `after`, skipping the hinted dead prefix *)
NextInArray(t, after) ==
    LET live == {p \in LivePositions(t) : p > t.lead /\ t.base + p > after}
    IN  IF live = {} THEN NextInHash(t, 0) ELSE Pair(t, Index("array", t.base + Min(live)))

NextWithIndex(t, control) ==
    IF control = Nil THEN NextInArray(t, 0)
    ELSE IF IsArrayKey(t, control) THEN NextInArray(t, control)
    ELSE IF HasSlot(t, control) THEN NextInHash(t, SlotOf(t, control))
    ELSE InvalidKey

NextFromAnyIndex(t, index, control) ==
    IF index.part = "array"
    THEN IF IsArrayKey(t, control) /\ control = index.at THEN NextInArray(t, control) ELSE InvalidKey
    ELSE IF index.at \in DOMAIN t.hash THEN NextInHash(t, index.at) ELSE InvalidKey

(* next_from_matching_index: the cursor a `pairs` loop keeps *)
NextFromMatchingIndex(t, index, control) ==
    IF index.part = "array"
    THEN IF IsArrayKey(t, control) /\ control = index.at THEN NextInArray(t, control) ELSE InvalidKey
    ELSE IF index.at \in DOMAIN t.hash /\ t.hash[index.at].key = control
    THEN NextInHash(t, index.at) ELSE InvalidKey
=============================================================================
