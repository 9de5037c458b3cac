---------------------------- MODULE FieldAccess -----------------------------
(***************************************************************************)
(* Field reads and writes: the inline caches of a bytecode site            *)
(* (src/vm/eval_index.rs, eval_store.rs, caches.rs) in front of the        *)
(* __index and __newindex resolvers (src/vm/metamethod.rs), over tables    *)
(* that raw writes and setmetatable change between the accesses.           *)
(*                                                                         *)
(* One read site and one write site name the literal Key.  A lookup gives  *)
(* a value, a call of a function handler, or an error; a handler that is   *)
(* called runs any of the actions before it returns.                       *)
(***************************************************************************)
EXTENDS TableOps, SequencesExt

CONSTANTS
    Tables, Functions,       \* objects
    Str,                     \* a string
    Atom,                    \* a value that can be neither indexed nor called
    Key, IndexKey, NewIndexKey,
    StringMeta,              \* string_metatable
    NoEntry,                 \* an empty cache position, or no metatable
    MaxMetamethodDepth,      \* MAX_METAMETHOD_DEPTH
    Programs                 \* what a program does, and a bound on shape versions:
                             \* [writes, metas, stored, accessed, maxVersion]

ASSUME FieldAccessAssumption ==
    /\ {Key, IndexKey, NewIndexKey} \subseteq Names
    /\ StringMeta \in Tables /\ MaxMetamethodDepth \in Nat \ {0}

VARIABLES
    program,     \* the program that runs: its raw writes [table, key, val], its
                 \* setmetatable calls [table, meta], the values it stores through
                 \* the write site and the values it indexes
    heap,        \* the tables' contents
    meta,        \* their metatables
    site,        \* FieldLookupCacheSlot: [field, methods, victim, string]
    setSite,     \* SetFieldLookupCacheSlot
    shape,       \* string_mt_index_shape
    calls        \* the units the open handler calls hold

vars == <<program, heap, meta, site, setSite, shape, calls>>

ColdSite == [field |-> NoEntry, methods |-> <<NoEntry, NoEntry>>, victim |-> 1, string |-> NoEntry]

Init ==
    /\ program \in Programs
    /\ heap = [t \in Tables |-> EmptyTable]
    /\ meta = [t \in Tables |-> NoEntry]
    /\ site = ColdSite /\ setSite = NoEntry /\ shape = NoEntry
    /\ calls = <<>>

Sum(seq) == FoldLeft(+, 0, seq)
Depth == Sum(calls)

MetaField(m, name) == IF m = NoEntry THEN Nil ELSE Get(heap[m], name)

-----------------------------------------------------------------------------
(* Outcomes *)
Value(v) == [kind |-> "value", val |-> v]
Call(handler, receiver, units) ==
    [kind |-> "call", handler |-> handler, receiver |-> receiver, units |-> units]
TypeFault == [kind |-> "type error"]
DepthFault == [kind |-> "too deep"]

(* A step that nests takes a unit, if the limit leaves one *)
Nested(units, outcome) == IF Depth + units < MaxMetamethodDepth THEN outcome ELSE DepthFault

(***************************************************************************)
(* The resolver's walk from a handler.  The walk has taken `units`.        *)
(***************************************************************************)
WalkIndex(r, h) ==
    LET walk[units \in 0 .. MaxMetamethodDepth,
             receiver \in Tables \cup {Str}, handler \in Tables \cup Functions \cup {Str, Atom}] ==
            IF handler \in Tables
            THEN LET next == MetaField(meta[handler], IndexKey)
                 IN  IF Get(heap[handler], Key) # Nil THEN Value(Get(heap[handler], Key))
                     ELSE IF next = Nil THEN Value(Nil)
                     ELSE IF Depth + units < MaxMetamethodDepth THEN walk[units + 1, handler, next]
                     ELSE DepthFault
            ELSE IF handler = Str
            THEN IF Depth + units >= MaxMetamethodDepth THEN DepthFault
                 ELSE IF MetaField(StringMeta, IndexKey) = Nil THEN TypeFault
                 ELSE walk[units + 1, Str, MetaField(StringMeta, IndexKey)]
            ELSE IF handler \in Functions
            THEN Nested(units, Call(handler, receiver, units + 1))
            ELSE TypeFault
    IN  IF h = Nil THEN Value(Nil) ELSE walk[0, r, h]

(* reg_get_table, and get_table for the host: no cache *)
GetTableOutcome(receiver) ==
    IF receiver \in Tables
    THEN LET raw == Get(heap[receiver], Key)
         IN  IF raw # Nil \/ meta[receiver] = NoEntry THEN Value(raw)
             ELSE WalkIndex(receiver, MetaField(meta[receiver], IndexKey))
    ELSE IF receiver = Str /\ MetaField(StringMeta, IndexKey) # Nil
    THEN WalkIndex(Str, MetaField(StringMeta, IndexKey))
    ELSE TypeFault

-----------------------------------------------------------------------------
(* A cached slot of a live table: current, renewed after a shape change,   *)
(* or no answer.                                                           *)
SlotEntry(t, slot) ==
    IF slot.version = heap[t].version THEN ReadSlot(heap[t], slot)
    ELSE IF CanRenew(heap[t], slot, Key) THEN Answer(ValueAt(heap[t], slot.index)) ELSE Miss

Renewed(t, slot) == [slot EXCEPT !.version = heap[t].version]

CachedField(receiver, s) ==
    IF s.field = NoEntry THEN Miss
    ELSE IF s.field.table = receiver THEN SlotEntry(receiver, s.field.slot) ELSE Miss

(* cached_method_at: the receiver's raw lookup has missed *)
CachedMethodTrustingTheHandler(metatable, entry) ==
    IF entry = NoEntry THEN Miss
    ELSE IF entry.metatable # metatable THEN Miss
    ELSE SlotEntry(entry.methods, entry.slot)

CachedMethod(metatable, entry) ==
    IF entry = NoEntry THEN Miss
    ELSE IF entry.metatable # metatable THEN Miss
    ELSE IF \/ entry.indexField.at \notin DOMAIN heap[metatable].hash
            \/ KeyAt(heap[metatable], entry.indexField) # IndexKey
            \/ ValueAt(heap[metatable], entry.indexField) # entry.methods
    THEN Miss
    ELSE SlotEntry(entry.methods, entry.slot)

CachedStringMethod(s) ==
    IF s.string = NoEntry \/ shape = NoEntry THEN Miss
    ELSE IF ReadSlot(heap[StringMeta], shape) # Answer(s.string.lib) THEN Miss
    ELSE SlotEntry(s.string.lib, s.string.slot)

MethodUsed(s, i) == [s EXCEPT !.victim = 3 - i]

(* Over the same metatable's entry, else an empty position, else the victim *)
FillMethod(s, entry) ==
    LET same  == {i \in 1 .. 2 : s.methods[i] # NoEntry /\ s.methods[i].metatable = entry.metatable}
        empty == {i \in 1 .. 2 : s.methods[i] = NoEntry}
        i     == IF same # {} THEN Min(same) ELSE IF empty # {} THEN Min(empty) ELSE s.victim
    IN  MethodUsed([s EXCEPT !.methods[i] = entry], i)

(* What a field read answers, the site it leaves and the string shape *)
Read(outcome, s, sh) == [outcome |-> outcome, site |-> s, shape |-> sh]

(* The lookup past the receiver's own table: the method cache, the walk *)
InheritedField(receiver, s) ==
    LET m    == meta[receiver]
        hits == {i \in 1 .. 2 : CachedMethod(m, s.methods[i]).hit}
        i    == Min(hits)
        e    == s.methods[i]
        handler == MetaField(m, IndexKey)
    IN  IF hits # {}
        THEN Read(Value(CachedMethod(m, e).val),
                  MethodUsed([s EXCEPT !.methods[i].slot = Renewed(e.methods, @)], i), shape)
        ELSE IF handler \in Tables /\ Get(heap[handler], Key) # Nil
        THEN Read(Value(Get(heap[handler], Key)),
                  FillMethod(s, [metatable |-> m, indexField |-> FindSlot(heap[m], IndexKey).index,
                                 methods |-> handler, slot |-> FindSlot(heap[handler], Key)]), shape)
        ELSE Read(WalkIndex(receiver, handler), s, shape)

StringField(s) ==
    LET lib == MetaField(StringMeta, IndexKey)
    IN  IF CachedStringMethod(s).hit
        THEN Read(Value(CachedStringMethod(s).val),
                  [s EXCEPT !.string.slot = Renewed(s.string.lib, @)], shape)
        ELSE IF lib = Nil THEN Read(TypeFault, s, shape)
        ELSE IF lib \in Tables /\ Get(heap[lib], Key) # Nil
        THEN Read(Value(Get(heap[lib], Key)),
                  [s EXCEPT !.string = [lib |-> lib, slot |-> FindSlot(heap[lib], Key)]],
                  FindSlot(heap[StringMeta], IndexKey))
        ELSE Read(WalkIndex(Str, lib), s, shape)

(* reg_get_field: the field cache, then resolve_index with the site *)
GetFieldRead(receiver, s) ==
    IF receiver = Str THEN StringField(s)
    ELSE IF receiver \notin Tables THEN Read(TypeFault, s, shape)
    ELSE IF CachedField(receiver, s).hit
    THEN Read(Value(CachedField(receiver, s).val),
              [s EXCEPT !.field.slot = Renewed(receiver, @)], shape)
    ELSE IF Get(heap[receiver], Key) # Nil
    THEN Read(Value(Get(heap[receiver], Key)),
              [s EXCEPT !.field = [table |-> receiver, slot |-> FindSlot(heap[receiver], Key)]], shape)
    ELSE IF meta[receiver] = NoEntry THEN Read(Value(Nil), s, shape)
    ELSE InheritedField(receiver, s)

-----------------------------------------------------------------------------
(***************************************************************************)
(* Stores.  A store completes with a new heap, calls a handler or fails.   *)
(***************************************************************************)
Ample == MaxArrayLen
Put(t, v) == [heap EXCEPT ![t] = Insert(@, Key, v, Ample).t]

StoredIn(h) == [kind |-> "stored", heap |-> h]

(* walk_newindex: a table that holds the key, or names no handler, takes it *)
WalkNewIndex(t, h, v) ==
    LET walk[units \in 0 .. MaxMetamethodDepth,
             target \in Tables, handler \in Tables \cup Functions \cup {Str, Atom}] ==
            IF handler \in Tables
            THEN LET next == MetaField(meta[handler], NewIndexKey)
                 IN  IF Get(heap[handler], Key) # Nil \/ next = Nil THEN StoredIn(Put(handler, v))
                     ELSE IF Depth + units < MaxMetamethodDepth THEN walk[units + 1, handler, next]
                     ELSE DepthFault
            ELSE IF handler \in Functions
            THEN Nested(units, Call(handler, target, units + 1))
            ELSE TypeFault
    IN  walk[0, t, h]

(* store_new_key: the raw lookup has proved the key absent *)
StoreNewKey(t, v) ==
    LET handler == MetaField(meta[t], NewIndexKey)
    IN  IF handler = Nil THEN StoredIn(Put(t, v)) ELSE WalkNewIndex(t, handler, v)

(* reg_set_table, and set_table for the host *)
SetTableOutcome(receiver, v) ==
    IF receiver \notin Tables THEN TypeFault
    ELSE IF meta[receiver] = NoEntry \/ Get(heap[receiver], Key) # Nil THEN StoredIn(Put(receiver, v))
    ELSE StoreNewKey(receiver, v)

(* try_set_field_cached: whether the entry's slot takes the store *)
CachedStoreIntoDeadSlots(receiver, v, e) ==
    e # NoEntry /\ v # Nil /\ e.table = receiver /\ e.slot.version = heap[receiver].version

CachedStore(receiver, v, e) ==
    e # NoEntry /\ v # Nil /\ e.table = receiver /\ SlotEntry(receiver, e.slot).hit

Wrote(outcome, e) == [outcome |-> outcome, entry |-> e]

(* The site learns the slot of a key that the store created *)
WroteNewKey(receiver, new, e) ==
    IF new.kind = "stored" /\ Get(new.heap[receiver], Key) # Nil
    THEN Wrote(new, [table |-> receiver, slot |-> FindSlot(new.heap[receiver], Key)])
    ELSE Wrote(new, e)

(* reg_set_field and store_field *)
SetFieldWrite(receiver, v, e) ==
    IF receiver \notin Tables THEN Wrote(TypeFault, e)
    ELSE IF CachedStore(receiver, v, e)
    THEN Wrote(StoredIn([heap EXCEPT ![receiver].hash[e.slot.index.at].val = v]),
               [e EXCEPT !.slot = Renewed(receiver, @)])
    ELSE IF Get(heap[receiver], Key) # Nil
    THEN Wrote(StoredIn([heap EXCEPT ![receiver] =
                            IF v = Nil THEN HashRemove(@, Key)
                            ELSE StoreSlot(@, FindSlot(@, Key), v).t]),
               IF v = Nil THEN e ELSE [table |-> receiver, slot |-> FindSlot(heap[receiver], Key)])
    ELSE WroteNewKey(receiver, StoreNewKey(receiver, v), e)

-----------------------------------------------------------------------------
(* The units of a call stay taken until it ends; any other outcome has     *)
(* returned them.                                                          *)
TakeCall(outcome) ==
    calls' = IF outcome.kind = "call" THEN Append(calls, outcome.units) ELSE calls

GetField ==
    /\ \E r \in program.accessed : \E read \in {GetFieldRead(r, site)} :
          TakeCall(read.outcome) /\ site' = read.site /\ shape' = read.shape
    /\ UNCHANGED <<heap, meta, setSite>>

GetTable ==
    /\ \E r \in program.accessed : TakeCall(GetTableOutcome(r))
    /\ UNCHANGED <<heap, meta, site, setSite, shape>>

Stores(outcome) == heap' = IF outcome.kind = "stored" THEN outcome.heap ELSE heap

SetField ==
    /\ \E r \in program.accessed, v \in program.stored :
          \E write \in {SetFieldWrite(r, v, setSite)} :
             TakeCall(write.outcome) /\ Stores(write.outcome) /\ setSite' = write.entry
    /\ UNCHANGED <<meta, site, shape>>

SetTable ==
    /\ \E r \in program.accessed, v \in program.stored :
          \E outcome \in {SetTableOutcome(r, v)} : TakeCall(outcome) /\ Stores(outcome)
    /\ UNCHANGED <<meta, site, setSite, shape>>

(* index_call and newindex_call, when the handler returned or failed *)
HandlerEnds ==
    /\ calls # <<>>
    /\ calls' = Front(calls)
    /\ UNCHANGED <<heap, meta, site, setSite, shape>>

RawSet ==
    /\ \E w \in program.writes : heap' = [heap EXCEPT ![w.table] = Insert(@, w.key, w.val, Ample).t]
    /\ UNCHANGED <<meta, site, setSite, shape, calls>>

SetMetatable ==
    /\ \E m \in program.metas : meta' = [meta EXCEPT ![m.table] = m.meta]
    /\ UNCHANGED <<heap, site, setSite, shape, calls>>

Next ==
    /\ \/ GetField \/ GetTable \/ SetField \/ SetTable
       \/ HandlerEnds \/ RawSet \/ SetMetatable
    /\ \A t \in Tables : heap'[t].version <= program.maxVersion
    /\ UNCHANGED program

Spec == Init /\ [][Next]_vars

-----------------------------------------------------------------------------
SlotType == [version : Nat, index : [part : {"hash"}, at : Nat]]

TypeOK ==
    /\ meta \in [Tables -> Tables \cup {NoEntry}]
    /\ site.field = NoEntry \/ site.field \in [table : Tables, slot : SlotType]
    /\ setSite = NoEntry \/ setSite \in [table : Tables, slot : SlotType]
    /\ shape = NoEntry \/ shape \in SlotType
    /\ calls \in Seq(1 .. MaxMetamethodDepth) /\ Depth <= MaxMetamethodDepth

(***************************************************************************)
(* A field read answers the same value, the same handler call with the     *)
(* same units, or the same error, whatever its site cached before, and the *)
(* same as the dynamic spelling t[k]: warmth and spelling are              *)
(* unobservable (resolve_index).  The two method entries of a site never   *)
(* name the same receiver metatable, so a stale one cannot shadow the one  *)
(* that replaced it (fill_method), and the open handler calls hold no more *)
(* units than the limit (take_metamethod_unit).                            *)
(***************************************************************************)
ReadsIgnoreWarmthAndSpelling ==
    /\ TypeOK
    /\ site.methods[1] # NoEntry /\ site.methods[2] # NoEntry =>
          site.methods[1].metatable # site.methods[2].metatable
    /\ \A r \in program.accessed : GetFieldRead(r, site).outcome = GetTableOutcome(r)

(***************************************************************************)
(* A field write through a warm or cold site leaves every table with the   *)
(* contents t[k] = v would give it, or calls the same handler: a cached    *)
(* slot never bypasses a __newindex that applies (store_slot).             *)
(***************************************************************************)
SameContents(h1, h2) == \A t \in Tables : \A k \in Names : Get(h1[t], k) = Get(h2[t], k)

SameStore(o1, o2) ==
    /\ o1.kind = o2.kind
    /\ IF o1.kind = "stored" THEN SameContents(o1.heap, o2.heap) ELSE o1 = o2

WritesIgnoreWarmthAndSpelling ==
    \A r \in program.accessed, v \in program.stored :
        SameStore(SetFieldWrite(r, v, setSite).outcome, SetTableOutcome(r, v))
=============================================================================
