---------------------------- MODULE BasicLibrary ----------------------------
(***************************************************************************)
(* The base library (src/lua_std/basic.rs) as the host operations its      *)
(* functions are made of, one step each, and single host operations.  A    *)
(* behaviour is one call: `todo` is what the function has still to do, and *)
(* the `answer` of the last observation is its local variable.             *)
(***************************************************************************)
EXTENDS Integers, FiniteSets, SequencesExt

(***************************************************************************)
(* The host's view of a State (src/vm/stack.rs, vm_aux.rs, raw_field.rs    *)
(* and the host operations of table_ops.rs): values above the bottom of    *)
(* the running frame, addressed from below by positive and from the top by *)
(* negative indices.  Every operation is a function of a State.  Its       *)
(* `fail` is the error it returned and `answer` what it answered.          *)
(***************************************************************************)

CONSTANTS
    MaxStack,   \* MAX_STACK_SIZE
    MaxUnits,   \* the units a metamethod lookup may hold
    MaxIds,     \* how many pointer identities there are
    KeyOrder    \* the order in which a table's keys are traversed

NilVal == <<"nil", 0>>
NoTable == "none"
StrVal(x) == <<"str", x>>
NumVal(x) == <<"num", x>>
BoolVal(b) == <<"bool", b>>
(* frac: a number that is no integer; text: a rendering *)
TypeName(v) == CASE v[1] = "frac" -> "num" [] v[1] = "text" -> "str" [] OTHER -> v[1]
Truthy(v) == v \notin {NilVal, BoolVal(FALSE)}

Refuse(s, what) == [s EXCEPT !.fail = what]
Answering(s, v) == [s EXCEPT !.answer = v]
-----------------------------------------------------------------------------
(* Slots *)
TopOf(s) == Len(s.stack) - s.bottom
ValidIndex(s, i) == i # 0 /\ (IF i > 0 THEN i ELSE -i) <= TopOf(s)
SlotOf(s, i) == IF i > 0 THEN s.bottom + i ELSE Len(s.stack) + i + 1
ValueAt(s, i) == s.stack[SlotOf(s, i)]
Acceptable(s, i) == IF ValidIndex(s, i) THEN ValueAt(s, i) ELSE NilVal
HasRoom(s, n) == Len(s.stack) + n <= MaxStack
WithStack(s, stack) == [s EXCEPT !.stack = stack]

(* A valid index first, then what Rest does with it *)
Indexed(s, i, Then(_)) == IF ValidIndex(s, i) THEN Then(SlotOf(s, i)) ELSE Refuse(s, "index")

PushVal(s, v) == IF HasRoom(s, 1) THEN WithStack(s, Append(s.stack, v)) ELSE Refuse(s, "overflow")
PushValue(s, i) == Indexed(s, i, LAMBDA slot : PushVal(s, s.stack[slot]))

ResizeStack(s, len) ==
    IF len > Len(s.stack) /\ ~HasRoom(s, len - Len(s.stack)) THEN Refuse(s, "overflow")
    ELSE WithStack(s, [k \in 1 .. len |-> IF k <= Len(s.stack) THEN s.stack[k] ELSE NilVal])
SetTop(s, i) ==
    LET target == IF i < 0 THEN TopOf(s) + i + 1 ELSE i
    IN  IF target < 0 THEN Refuse(s, "index") ELSE ResizeStack(s, s.bottom + target)
PopN(s, n) ==
    IF n < 0 \/ n > TopOf(s) THEN Refuse(s, "index") ELSE WithStack(s, SubSeq(s.stack, 1, Len(s.stack) - n))

RotateRight(stack, slot) ==
    [k \in DOMAIN stack |-> CASE k < slot -> stack[k] [] k = slot -> stack[Len(stack)] [] OTHER -> stack[k - 1]]
InsertTop(s, i) == Indexed(s, i, LAMBDA slot : WithStack(s, RotateRight(s.stack, slot)))
RemoveIndex(s, i) == Indexed(s, i, LAMBDA slot : WithStack(s, RemoveAt(s.stack, slot)))
RemoveBottom(s, n) ==
    IF n > TopOf(s) THEN Refuse(s, "index")
    ELSE WithStack(s, SubSeq(s.stack, 1, s.bottom) \o SubSeq(s.stack, s.bottom + n + 1, Len(s.stack)))
ReplaceIndex(s, i) == Indexed(s, i, LAMBDA slot :
    LET rest == Front(s.stack) IN WithStack(s, IF slot <= Len(rest) THEN [rest EXCEPT ![slot] = Last(s.stack)] ELSE rest))
CopyVal(s, from, to) ==
    IF ~ValidIndex(s, from) THEN Refuse(s, "index")
    ELSE Indexed(s, to, LAMBDA slot : WithStack(s, [s.stack EXCEPT ![slot] = ValueAt(s, from)]))
-----------------------------------------------------------------------------
(* Observations; the infallible ones take an invalid index for nil *)
ToBoolean(s, i) == Answering(s, BoolVal(~s.poisoned /\ Truthy(Acceptable(s, i))))
RawEqual(s, i, j) ==
    Answering(s, BoolVal(~s.poisoned /\ ValidIndex(s, i) /\ ValidIndex(s, j) /\ ValueAt(s, i) = ValueAt(s, j)))
Typ(s, i) == Answering(s, StrVal(TypeName(Acceptable(s, i))))
TryTyp(s, i) == Indexed(s, i, LAMBDA slot : Answering(s, StrVal(TypeName(s.stack[slot]))))
TryToBoolean(s, i) == Indexed(s, i, LAMBDA slot : Answering(s, BoolVal(Truthy(s.stack[slot]))))
TryRawEqual(s, i, j) ==
    IF ValidIndex(s, i) /\ ValidIndex(s, j) THEN Answering(s, BoolVal(ValueAt(s, i) = ValueAt(s, j))) ELSE Refuse(s, "index")
NumberAt(s, i) == Indexed(s, i, LAMBDA slot :
    IF TypeName(s.stack[slot]) = "num" THEN Answering(s, s.stack[slot]) ELSE Refuse(s, "type"))
ToBytes(s, i) == Indexed(s, i, LAMBDA slot :
    IF TypeName(s.stack[slot]) = "str" THEN Answering(s, s.stack[slot]) ELSE Refuse(s, "argument"))

(* Argument checks: a number counts from either end *)
Missing(s, n) == TopOf(s) < IF n < 0 THEN -n ELSE n
CheckAny(s, n) == IF n = 0 THEN Refuse(s, "index") ELSE IF Missing(s, n) THEN Refuse(s, "argument") ELSE s
CheckType(s, n, type) ==
    IF n = 0 THEN Refuse(s, "index")
    ELSE IF Missing(s, n) \/ TypeName(ValueAt(s, n)) # type THEN Refuse(s, "argument") ELSE s
CheckTypeIn(s, n, types) ==
    IF n = 0 THEN Refuse(s, "index")
    ELSE IF TypeName(Acceptable(s, n)) \in types THEN s ELSE Refuse(s, "argument")
IsNoneOrNil(s, n) == Missing(s, n) \/ TypeName(ValueAt(s, n)) = "nil"
CheckOptionalType(s, n, type) ==
    IF n = 0 THEN Refuse(s, "index")
    ELSE IF IsNoneOrNil(s, n) THEN Answering(s, BoolVal(FALSE))
    ELSE Answering(CheckType(s, n, type), BoolVal(TRUE))
-----------------------------------------------------------------------------
(* Tables: what a key that is absent holds is nil *)
FieldOf(s, t, k) == IF k \in DOMAIN s.heap[t].fields THEN s.heap[t].fields[k] ELSE NilVal
StoreField(s, t, k, v) ==
    LET old == s.heap[t].fields
        keys == IF v = NilVal THEN DOMAIN old \ {k} ELSE DOMAIN old \cup {k}
    IN  [s EXCEPT !.heap[t].fields = [x \in keys |-> IF x = k THEN v ELSE old[x]]]
KeyIsValid(k) == k # NilVal
ArrayLen(s, t) == CHOOSE n \in 0 .. Len(KeyOrder) :
    (\A i \in 1 .. n : NumVal(i) \in DOMAIN s.heap[t].fields) /\ NumVal(n + 1) \notin DOMAIN s.heap[t].fields

MetaOf(s, v) == IF v[1] = "table" THEN s.heap[v[2]].meta ELSE IF TypeName(v) = "str" THEN s.strings ELSE NoTable
MetaFieldOf(s, mt, name) == IF mt = NoTable THEN NilVal ELSE FieldOf(s, mt, StrVal(name))

(* table_operand_below_top: the operands lie above the table *)
OperandFault(s, i, operands) ==
    CASE ~ValidIndex(s, i) -> "index"
      [] ValidIndex(s, i) /\ Len(s.stack) < SlotOf(s, i) + operands -> "index"
      [] ValidIndex(s, i) /\ Len(s.stack) >= SlotOf(s, i) + operands /\ ValueAt(s, i)[1] # "table" -> "type"
      [] OTHER -> ""
OnTable(s, i, operands, Then(_)) ==
    IF OperandFault(s, i, operands) = "" THEN Then(ValueAt(s, i)[2]) ELSE Refuse(s, OperandFault(s, i, operands))
TopReplaced(s, v) == WithStack(s, Append(Front(s.stack), v))
Dropped(s, n) == WithStack(s, SubSeq(s.stack, 1, Len(s.stack) - n))

GetTableRaw(s, i) == OnTable(s, i, 1, LAMBDA t : TopReplaced(s, FieldOf(s, t, Last(s.stack))))
SetTableRaw(s, i) == OnTable(s, i, 2, LAMBDA t :
    LET key == s.stack[Len(s.stack) - 1]
    IN  IF KeyIsValid(key) THEN StoreField(Dropped(s, 2), t, key, Last(s.stack)) ELSE Refuse(s, "key"))

(* The room for the value is reserved before the key is overwritten *)
PresentAfter(s, t, k) ==
    LET from == IF k = NilVal THEN 0 ELSE SelectInSeq(KeyOrder, LAMBDA x : x = k)
    IN  SelectSeq(SubSeq(KeyOrder, from + 1, Len(KeyOrder)), LAMBDA x : x \in DOMAIN s.heap[t].fields)
NextEntry(s, i) == OnTable(s, i, 1, LAMBDA t :
    LET key == Last(s.stack)
        next == PresentAfter(s, t, key)
    IN  CASE key # NilVal /\ key \notin DOMAIN s.heap[t].fields -> Refuse(s, "next")
          [] (key = NilVal \/ key \in DOMAIN s.heap[t].fields) /\ next # <<>> ->
                IF HasRoom(s, 1)
                THEN Answering(WithStack(s, Front(s.stack) \o <<next[1], FieldOf(s, t, next[1])>>), BoolVal(TRUE))
                ELSE Refuse(s, "overflow")
          [] OTHER -> Answering(TopReplaced(s, NilVal), BoolVal(FALSE)))

RawLen(s, i) == Indexed(s, i, LAMBDA slot :
    CASE s.stack[slot][1] = "str" -> Answering(s, NumVal(Len(s.stack[slot][2])))
      [] s.stack[slot][1] = "table" -> Answering(s, NumVal(ArrayLen(s, s.stack[slot][2])))
      [] OTHER -> Refuse(s, "type"))

GetMetatableOf(s, i) == Indexed(s, i, LAMBDA slot :
    LET mt == MetaOf(s, s.stack[slot]) IN PushVal(s, IF mt = NoTable THEN NilVal ELSE <<"table", mt>>))
SetMetatableOf(s, i) == OnTable(s, i, 1, LAMBDA t :
    IF Last(s.stack)[1] \notin {"nil", "table"} THEN Refuse(s, "metatable")
    ELSE [Dropped(s, 1) EXCEPT !.heap[t].meta = IF Last(s.stack) = NilVal THEN NoTable ELSE Last(s.stack)[2]])

TableInsertAt(s, i, pos) == OnTable(s, i, 1, LAMBDA t :
    LET len == ArrayLen(s, t)
        old == s.heap[t].fields
    IN  IF pos \notin 1 .. len + 1 THEN Refuse(s, "position")
        ELSE [Dropped(s, 1) EXCEPT !.heap[t].fields =
                [k \in DOMAIN old \cup {NumVal(len + 1)} |->
                    IF k = NumVal(pos) THEN Last(s.stack)
                    ELSE IF \E n \in pos + 1 .. len + 1 : k = NumVal(n) THEN old[NumVal(k[2] - 1)] ELSE old[k]]])

(* The result's slot is reserved before the table changes *)
TableRemoveAt(s, i, pos) == OnTable(s, i, 0, LAMBDA t :
    LET len == ArrayLen(s, t)
        old == s.heap[t].fields
        gone == IF pos \in 1 .. len THEN NumVal(len) ELSE NumVal(pos)
    IN  IF pos \notin 1 .. len + 1 /\ ~(len = 0 /\ pos = 0) THEN Refuse(s, "position")
        ELSE IF ~HasRoom(s, 1) THEN Refuse(s, "overflow")
        ELSE [PushVal(s, FieldOf(s, t, NumVal(pos))) EXCEPT !.heap[t].fields =
                [k \in DOMAIN old \ {gone} |-> IF \E n \in pos .. len - 1 : k = NumVal(n) THEN old[NumVal(k[2] + 1)] ELSE old[k]]])
-----------------------------------------------------------------------------
(* Metamethods: `handler` is what a handler that is called does            *)
(* (<<"returns", v>>, <<"raises", 0>>), or <<"refused", 0>> when the call  *)
(* is refused before the handler is entered.                               *)
FoundValue(v) == [is |-> "value", value |-> v]
Fault(what) == [is |-> "error", what |-> what]
CallWindow(units) == [is |-> "call", units |-> units]

RECURSIVE WalkIndex(_, _, _, _)
WalkIndex(s, handler, key, units) ==
    CASE handler[1] = "table" ->
            LET next == MetaFieldOf(s, s.heap[handler[2]].meta, "__index")
            IN  CASE FieldOf(s, handler[2], key) # NilVal -> FoundValue(FieldOf(s, handler[2], key))
                  [] FieldOf(s, handler[2], key) = NilVal /\ next = NilVal -> FoundValue(NilVal)
                  [] OTHER -> IF units = MaxUnits THEN Fault("depth") ELSE WalkIndex(s, next, key, units + 1)
      [] handler[1] = "str" ->
            IF units = MaxUnits THEN Fault("depth")
            ELSE IF MetaFieldOf(s, s.strings, "__index") = NilVal THEN Fault("type")
            ELSE WalkIndex(s, MetaFieldOf(s, s.strings, "__index"), key, units + 1)
      [] handler[1] = "fn" -> IF units = MaxUnits THEN Fault("depth") ELSE CallWindow(units + 1)
      [] OTHER -> Fault("type")

ResolveIndex(s, receiver, key) ==
    LET own == IF receiver[1] = "table" THEN FieldOf(s, receiver[2], key) ELSE NilVal
        next == MetaFieldOf(s, MetaOf(s, receiver), "__index")
    IN  CASE own # NilVal -> FoundValue(own)
          [] own = NilVal /\ next = NilVal -> IF receiver[1] = "table" THEN FoundValue(NilVal) ELSE Fault("type")
          [] OTHER -> WalkIndex(s, next, key, 0)

RawStore(t, key) == IF KeyIsValid(key) THEN [is |-> "store", table |-> t] ELSE Fault("key")

RECURSIVE WalkNewIndex(_, _, _, _)
WalkNewIndex(s, handler, key, units) ==
    CASE handler[1] = "table" ->
            LET next == MetaFieldOf(s, s.heap[handler[2]].meta, "__newindex")
            IN  IF FieldOf(s, handler[2], key) # NilVal \/ next = NilVal THEN RawStore(handler[2], key)
                ELSE IF units = MaxUnits THEN Fault("depth") ELSE WalkNewIndex(s, next, key, units + 1)
      [] handler[1] = "fn" -> IF units = MaxUnits THEN Fault("depth") ELSE CallWindow(units + 1)
      [] OTHER -> Fault("type")

ResolveStore(s, t, key) ==
    LET handler == MetaFieldOf(s, s.heap[t].meta, "__newindex")
    IN  IF FieldOf(s, t, key) # NilVal \/ handler = NilVal THEN RawStore(t, key) ELSE WalkNewIndex(s, handler, key, 0)

(* The window is pushed where the popped key was *)
GetTable(s, i, handler) ==
    LET fault == IF ValidIndex(s, i) /\ ValueAt(s, i)[1] = "str" /\ Len(s.stack) > SlotOf(s, i) THEN ""
                 ELSE OperandFault(s, i, 1)
        found == ResolveIndex(s, ValueAt(s, i), Last(s.stack))
    IN  CASE fault # "" -> Refuse(s, fault)
          [] fault = "" /\ found.is = "error" -> Refuse(s, found.what)
          [] fault = "" /\ found.is = "value" -> TopReplaced(s, found.value)
          [] OTHER ->
                CASE Len(s.stack) - 1 + 3 > MaxStack -> Refuse(s, "overflow")
                  [] Len(s.stack) - 1 + 3 <= MaxStack /\ handler[1] = "refused" -> Refuse(s, "refused")
                  [] Len(s.stack) - 1 + 3 <= MaxStack /\ handler[1] = "raises" -> Refuse(Dropped(s, 1), "handler")
                  [] OTHER -> TopReplaced(s, handler[2])

SetTable(s, i, handler) == OnTable(s, i, 2, LAMBDA t :
    LET key == s.stack[Len(s.stack) - 1]
        found == ResolveStore(s, t, key)
    IN  CASE found.is = "error" -> Refuse(s, found.what)
          [] found.is = "store" -> StoreField(Dropped(s, 2), found.table, key, Last(s.stack))
          [] OTHER ->
                CASE ~HasRoom(s, 4) -> Refuse(s, "overflow")
                  [] HasRoom(s, 4) /\ handler[1] = "refused" -> Refuse(s, "refused")
                  [] HasRoom(s, 4) /\ handler[1] = "raises" -> Refuse(Dropped(s, 2), "handler")
                  [] OTHER -> Dropped(s, 2))
-----------------------------------------------------------------------------
(* Renderings: a string as itself, a number or a pointer by a symbol; a    *)
(* pointer gets its identity the first time it is rendered.                *)
HasIdentity(v) == v[1] \in {"table", "fn"}
Identified(s, v) ==
    CASE ~HasIdentity(v) \/ v \in DOMAIN s.ids -> s
      [] HasIdentity(v) /\ v \notin DOMAIN s.ids /\ s.nextId = MaxIds -> Refuse(s, "identities")
      [] OTHER -> [s EXCEPT !.ids = [x \in DOMAIN @ \cup {v} |-> IF x = v THEN s.nextId ELSE @[x]], !.nextId = @ + 1]
DefaultText(s, v) ==
    CASE TypeName(v) = "str" -> v
      [] HasIdentity(v) -> <<"text", <<v[1], s.ids[v]>>>>
      [] OTHER -> <<"text", v>>

(* What tostring_rendering leaves: the State, and the text or "itself" *)
Rendering(s, i, handler) ==
    LET v == ValueAt(s, i)
        own == MetaFieldOf(s, MetaOf(s, v), "__tostring")
    IN  CASE ~ValidIndex(s, i) -> Refuse(s, "index")
          [] ValidIndex(s, i) /\ own # NilVal ->
                CASE ~HasRoom(s, 2) -> Refuse(s, "overflow")
                  [] HasRoom(s, 2) /\ own[1] # "fn" -> Refuse(s, "call")
                  [] HasRoom(s, 2) /\ own[1] = "fn" /\ handler[1] = "refused" -> Refuse(s, "refused")
                  [] HasRoom(s, 2) /\ own[1] = "fn" /\ handler[1] = "raises" -> Refuse(s, "handler")
                  [] OTHER -> IF TypeName(handler[2]) \in {"str", "num"} THEN Answering(s, DefaultText(s, handler[2]))
                              ELSE Refuse(s, "tostring")
          [] ValidIndex(s, i) /\ own = NilVal /\ TypeName(v) = "str" -> Answering(s, <<"itself", v>>)
          [] OTHER -> LET r == Identified(s, v) IN IF r.fail # "" THEN r ELSE Answering(r, DefaultText(r, v))

(* raw_field: an own field, converted; an optional one may be absent *)
Converts(v, type) ==
    IF type[1] = "int" THEN v[1] = "num" /\ v[2] \in type[2] .. type[3] ELSE TypeName(v) = type[1]
RawField(s, n, name, type, optional) ==
    IF n = 0 THEN Refuse(s, "index")
    ELSE IF Missing(s, n) \/ ValueAt(s, n)[1] # "table" THEN Refuse(s, "argument")
    ELSE LET v == FieldOf(s, ValueAt(s, n)[2], StrVal(name))
         IN  IF (optional /\ v = NilVal) \/ Converts(v, type) THEN Answering(s, v) ELSE Refuse(s, "field")
-----------------------------------------------------------------------------
CONSTANTS
    HostCalls,    \* the calls: a function fn, or operations ops of a host
    StartOf(_),   \* the State a call finds
    MaxReturns,   \* MAX_RESULTS
    MaxMessage    \* the string limit, in pieces of a printed message

VARIABLES
    call,   \* the call that is made
    host,   \* the State
    todo    \* the operations still to do

hostVars == <<call, host, todo>>
-----------------------------------------------------------------------------
(* What the functions do *)
GetMetafield == <<<<"get_metatable_of", 1>>, <<"if_metatable">>>>

Ipairs ==
    <<<<"check_type", 1, "table">>, <<"set_top", 1>>, <<"push", <<"fn", "ipairs_iter">>>>,
     <<"push_value", 1>>, <<"remove", 1>>, <<"push", NumVal(0)>>, <<"return", 3>>>>
IpairsIter ==
    <<<<"check_type", 1, "table">>, <<"check_type", 2, "num">>, <<"set_top", 2>>,
     <<"to_number", 2>>, <<"pop", 1>>, <<"advance">>, <<"push_answer">>, <<"get_table", 1>>, <<"if_element">>>>
NextOf ==
    <<<<"check_type", 1, "table">>, <<"default_key">>, <<"set_top", 2>>, <<"table_next", 1>>,
     <<"remove", 1>>, <<"return_entry">>>>
Pairs ==
    <<<<"check_type", 1, "table">>, <<"set_top", 1>>, <<"push", <<"fn", "next">>>>,
     <<"push_value", 1>>, <<"push", NilVal>>, <<"remove", 1>>, <<"return", 3>>>>
PrintAll ==
    <<<<"print_from", 1>>>>
ErrorOf ==
    <<<<"error_value">>, <<"raise">>>>
TypeOf ==
    <<<<"check_any", 1>>, <<"typ", 1>>, <<"set_top", 0>>, <<"push_answer">>, <<"return", 1>>>>
Tostring ==
    <<<<"check_any", 1>>, <<"tostring", 1>>, <<"if_itself">>>>
Getmetatable ==
    <<<<"check_any", 1>>, <<"set_top", 1>>>> \o GetMetafield
    \o <<<<"remove", 1>>, <<"return", 1>>>>
Setmetatable ==
    <<<<"check_type", 1, "table">>, <<"check_any", 2>>, <<"check_type_in", 2, {"table", "nil"}>>,
     <<"set_top", 2>>>> \o GetMetafield
    \o <<<<"unless_protected">>, <<"pop", 1>>, <<"set_metatable_of", 1>>, <<"return", 1>>>>
Rawget ==
    <<<<"check_type", 1, "table">>, <<"check_any", 2>>, <<"set_top", 2>>, <<"push_value", 2>>,
     <<"get_table_raw", 1>>, <<"remove", 1>>, <<"remove", 1>>, <<"return", 1>>>>
Rawset ==
    <<<<"charge">>, <<"check_type", 1, "table">>, <<"check_any", 2>>, <<"check_any", 3>>,
     <<"set_top", 3>>, <<"set_table_raw", 1>>, <<"return", 1>>>>
Rawequal ==
    <<<<"check_any", 1>>, <<"check_any", 2>>, <<"raw_equal", 1, 2>>, <<"set_top", 0>>,
     <<"push_answer">>, <<"return", 1>>>>
Rawlen ==
    <<<<"check_any", 1>>, <<"check_type_in", 1, {"str", "table"}>>, <<"raw_len", 1>>, <<"set_top", 0>>,
     <<"push_answer">>, <<"return", 1>>>>
Select ==
    <<<<"check_any", 1>>, <<"select">>>>

Body(fn) ==
    CASE fn = "ipairs" -> Ipairs [] fn = "ipairs_iter" -> IpairsIter [] fn = "next" -> NextOf [] fn = "pairs" -> Pairs
      [] fn = "print" -> PrintAll [] fn = "error" -> ErrorOf [] fn = "type" -> TypeOf [] fn = "tostring" -> Tostring
      [] fn = "getmetatable" -> Getmetatable [] fn = "setmetatable" -> Setmetatable [] fn = "rawget" -> Rawget [] fn = "rawset" -> Rawset
      [] fn = "rawequal" -> Rawequal [] fn = "rawlen" -> Rawlen [] OTHER -> Select

(* The index counts the arguments from either end *)
Selected(s) ==
    LET varargs == TopOf(s) - 1
        first == ValueAt(s, 1)
        index == IF first[2] < 0 THEN varargs + first[2] + 1 ELSE first[2]
    IN  CASE first = StrVal("#") -> <<<<"set_top", 0>>, <<"push", NumVal(varargs)>>, <<"return", 1>>>>
          [] first[1] \in {"bool", "nil", "str", "table", "fn", "frac"} -> <<<<"refuse", "argument">>>>
          [] OTHER ->
                CASE index < 1 -> <<<<"refuse", "argument">>>>
                  [] index > varargs -> <<<<"set_top", 0>>, <<"return", 0>>>>
                  [] OTHER -> <<<<"remove_bottom", index>>, <<"return_counted", varargs - index + 1>>>>

(* An operation that decides what follows: its operations come next *)
Continuation(s, op) ==
    CASE op[1] = "if_metatable" ->
            IF Last(s.stack) = NilVal THEN <<<<"set_answer", BoolVal(FALSE)>>>>
            ELSE <<<<"push_value", -1>>, <<"push", StrVal("__metatable")>>, <<"get_table_raw", -2>>, <<"if_protected">>>>
      [] op[1] = "if_protected" ->
            IF Last(s.stack) # NilVal THEN <<<<"remove", -2>>, <<"remove", -2>>, <<"set_answer", BoolVal(TRUE)>>>>
            ELSE <<<<"pop", 2>>, <<"set_answer", BoolVal(FALSE)>>>>
      [] op[1] = "if_element" ->
            IF Last(s.stack) # NilVal THEN <<<<"push_answer">>, <<"replace", 1>>, <<"return", 2>>>>
            ELSE <<<<"set_top", 0>>, <<"push", NilVal>>, <<"return", 1>>>>
      [] op[1] = "default_key" -> IF TopOf(s) < 2 THEN <<<<"push", NilVal>>>> ELSE <<>>
      [] op[1] = "return_entry" -> <<<<"return", IF s.answer[2] THEN 2 ELSE 1>>>>
      [] op[1] = "print_from" ->
            IF op[2] <= TopOf(s) THEN <<<<"tostring", op[2]>>, <<"append", op[2]>>, <<"print_from", op[2] + 1>>>>
            ELSE <<<<"on_print">>, <<"return", 0>>>>
      [] op[1] = "if_itself" ->
            IF s.answer[1] = "itself" THEN <<<<"set_top", 1>>, <<"return", 1>>>>
            ELSE <<<<"set_top", 0>>, <<"push_answer">>, <<"return", 1>>>>
      [] op[1] = "select" -> Selected(s)
      [] OTHER -> <<>>
-----------------------------------------------------------------------------
(* error(value, level): the value first, then its level *)
ErrorValue(s) ==
    CASE TopOf(s) = 0 -> Answering(s, NilVal)
      [] TopOf(s) > 0 /\ HasIdentity(ValueAt(s, 1)) ->
            LET r == Rendering(s, 1, s.handler) IN IF r.fail # "" THEN r ELSE Answering(r, <<"object", <<ValueAt(s, 1)[1], r.answer>>>>)
      [] OTHER -> Answering(s, ValueAt(s, 1))
ErrorPrefix(s) ==
    LET level == ValueAt(s, 2)[2]
    IN  CASE TypeName(s.answer) # "str" -> <<"suppressed", 0>>
          [] TopOf(s) < 2 -> <<"current", 0>>
          [] TopOf(s) >= 2 /\ IsNoneOrNil(s, 2) -> <<"frame", 0>>
          [] OTHER -> IF level <= 0 THEN <<"suppressed", 0>> ELSE <<"frame", level - 1>>
Raise(s) ==
    IF TopOf(s) >= 2 /\ ValueAt(s, 2)[1] \notin {"nil", "num"} THEN Refuse(s, "argument")
    ELSE Answering(Refuse(s, "raised"), <<s.answer, ErrorPrefix(s)>>)

Tab == <<"tab", 0>>
(* The message is joined as it grows and handed over whole *)
AppendPart(s, n) ==
    LET pieces == IF n = 1 THEN <<s.answer>> ELSE <<Tab, s.answer>>
    IN  IF Len(s.message) + Len(pieces) > MaxMessage THEN Refuse(s, "string")
        ELSE [s EXCEPT !.message = @ \o pieces]

GlobalTable == "G"
GetGlobal(s, name) == PushVal(s, FieldOf(s, GlobalTable, StrVal(name)))
SetGlobal(s, name) ==
    IF TopOf(s) = 0 THEN Refuse(s, "index") ELSE StoreField(Dropped(s, 1), GlobalTable, StrVal(name), Last(s.stack))

ReturnTop(s, n) == [s EXCEPT !.results = SubSeq(s.stack, Len(s.stack) - n + 1, Len(s.stack))]

(* Observations that a poisoned State still answers *)
Infallible == {"typ", "to_boolean", "raw_equal"}

Do(s, op) ==
    CASE s.poisoned /\ op[1] \notin Infallible -> Refuse(s, "poisoned")
      [] op[1] = "check_any" -> CheckAny(s, op[2])
      [] op[1] = "check_type" -> CheckType(s, op[2], op[3])
      [] op[1] = "check_type_in" -> CheckTypeIn(s, op[2], op[3])
      [] op[1] = "check_optional_type" -> CheckOptionalType(s, op[2], op[3])
      [] op[1] = "set_top" -> SetTop(s, op[2])
      [] op[1] = "pop" -> PopN(s, op[2])
      [] op[1] = "push" -> PushVal(s, op[2])
      [] op[1] = "push_answer" -> PushVal(s, s.answer)
      [] op[1] = "push_value" -> PushValue(s, op[2])
      [] op[1] = "insert" -> InsertTop(s, op[2])
      [] op[1] = "remove" -> RemoveIndex(s, op[2])
      [] op[1] = "remove_bottom" -> RemoveBottom(s, op[2])
      [] op[1] = "replace" -> ReplaceIndex(s, op[2])
      [] op[1] = "copy_val" -> CopyVal(s, op[2], op[3])
      [] op[1] = "typ" -> Typ(s, op[2])
      [] op[1] = "try_typ" -> TryTyp(s, op[2])
      [] op[1] = "to_boolean" -> ToBoolean(s, op[2])
      [] op[1] = "try_to_boolean" -> TryToBoolean(s, op[2])
      [] op[1] = "raw_equal" -> RawEqual(s, op[2], op[3])
      [] op[1] = "try_raw_equal" -> TryRawEqual(s, op[2], op[3])
      [] op[1] = "to_number" -> NumberAt(s, op[2])
      [] op[1] = "to_bytes" -> ToBytes(s, op[2])
      [] op[1] = "tostring" -> Rendering(s, op[2], s.handler)
      [] op[1] = "raw_field" -> RawField(s, op[2], op[3], op[4], op[5])
      [] op[1] = "get_table_raw" -> GetTableRaw(s, op[2])
      [] op[1] = "set_table_raw" -> SetTableRaw(s, op[2])
      [] op[1] = "get_table" -> GetTable(s, op[2], s.handler)
      [] op[1] = "set_table" -> SetTable(s, op[2], s.handler)
      [] op[1] = "table_next" -> NextEntry(s, op[2])
      [] op[1] = "raw_len" -> RawLen(s, op[2])
      [] op[1] = "get_metatable_of" -> GetMetatableOf(s, op[2])
      [] op[1] = "set_metatable_of" -> SetMetatableOf(s, op[2])
      [] op[1] = "table_insert_at" -> TableInsertAt(s, op[2], op[3])
      [] op[1] = "table_remove_at" -> TableRemoveAt(s, op[2], op[3])
      [] op[1] = "get_global" -> GetGlobal(s, op[2])
      [] op[1] = "set_global" -> SetGlobal(s, op[2])
      [] op[1] = "set_answer" -> Answering(s, op[2])
      [] op[1] = "advance" -> Answering(s, <<s.answer[1], s.answer[2] + 1>>)
      [] op[1] = "charge" -> IF s.paid THEN s ELSE Refuse(s, "budget")
      [] op[1] = "unless_protected" -> IF s.answer[2] THEN Refuse(s, "protected") ELSE s
      [] op[1] = "append" -> AppendPart(IF s.answer[1] = "itself" THEN Answering(s, s.answer[2]) ELSE s, op[2])
      [] op[1] = "on_print" -> [s EXCEPT !.printed = Append(@, s.message)]
      [] op[1] = "error_value" -> ErrorValue(s)
      [] op[1] = "raise" -> Raise(s)
      [] op[1] = "refuse" -> Refuse(s, op[2])
      [] op[1] = "return" -> ReturnTop(s, op[2])
      [] op[1] = "return_counted" -> IF op[2] > MaxReturns THEN Refuse(s, "results") ELSE ReturnTop(s, op[2])
      [] OTHER -> s

HostInit ==
    /\ call \in HostCalls
    /\ host = StartOf(call)
    /\ todo = IF call.fn = "host" THEN call.ops ELSE Body(call.fn)

HostStep ==
    /\ todo # <<>>
    /\ \E s \in {Do(host, Head(todo))} :
        /\ host' = s
        /\ todo' = IF s.fail = "" THEN Continuation(s, Head(todo)) \o Tail(todo) ELSE <<>>
    /\ UNCHANGED call
HostSpec == HostInit /\ [][HostStep]_hostVars
-----------------------------------------------------------------------------
(* The reference: what the Lua manual says of a call *)
Frame(s) == SubSeq(s.stack, s.bottom + 1, Len(s.stack))
Returns(values, s) == [fail |-> "", values |-> values, state |-> s]
FailsWith(what, s) == [fail |-> what, values |-> <<>>, state |-> s]

(* gettable_event: v is the n-th value the lookup asks *)
RECURSIVE LuaIndex(_, _, _, _)
LuaIndex(s, v, k, n) ==
    LET own == IF v[1] = "table" THEN FieldOf(s, v[2], k) ELSE NilVal
        h == MetaFieldOf(s, MetaOf(s, v), "__index")
        faulty == v[1] # "table" /\ h = NilVal
    IN  CASE own # NilVal -> Returns(<<own>>, s)
          [] own = NilVal /\ v[1] = "table" /\ h = NilVal -> Returns(<<NilVal>>, s)
          [] own = NilVal /\ faulty /\ v[1] # "str" -> FailsWith("type", s)
          [] OTHER ->
                CASE n > MaxUnits \/ (h[1] = "fn" /\ n + 1 > MaxUnits) -> FailsWith("depth", s)
                  [] n <= MaxUnits /\ faulty -> FailsWith("type", s)
                  [] n <= MaxUnits /\ ~faulty /\ h[1] # "fn" -> LuaIndex(s, h, k, n + 1)
                  [] OTHER -> CASE s.handler[1] = "returns" -> Returns(<<s.handler[2]>>, s)
                                [] s.handler[1] = "raises" -> FailsWith("handler", s)
                                [] OTHER -> FailsWith("refused", s)

(* luaL_tolstring *)
LuaText(s, v) ==
    LET h == MetaFieldOf(s, MetaOf(s, v), "__tostring")
        fresh == HasIdentity(v) /\ v \notin DOMAIN s.ids
        after == IF fresh THEN [s EXCEPT !.ids = @ @@ (v :> s.nextId), !.nextId = @ + 1] ELSE s
    IN  CASE h # NilVal /\ h[1] # "fn" -> FailsWith("call", s)
          [] h[1] = "fn" /\ s.handler[1] = "raises" -> FailsWith("handler", s)
          [] h[1] = "fn" /\ s.handler[1] = "refused" -> FailsWith("refused", s)
          [] h[1] = "fn" /\ s.handler[1] = "returns" ->
                IF TypeName(s.handler[2]) \in {"str", "num"} THEN Returns(<<DefaultText(s, s.handler[2])>>, s) ELSE FailsWith("tostring", s)
          [] OTHER -> IF fresh /\ s.nextId = MaxIds THEN FailsWith("identities", s) ELSE Returns(<<DefaultText(after, v)>>, after)

(* print renders its arguments in order; what a failure leaves is what the *)
(* arguments before it left                                                *)
RECURSIVE LuaPrinted(_, _, _)
LuaPrinted(s, n, line) ==
    IF n > Len(Frame(s)) THEN Returns(<<>>, [s EXCEPT !.printed = Append(@, line)])
    ELSE LET r == LuaText(s, Frame(s)[n])
             longer == line \o (IF n = 1 THEN <<>> ELSE <<Tab>>) \o r.values
         IN  IF r.fail # "" THEN r ELSE IF Len(longer) > MaxMessage THEN FailsWith("string", r.state)
             ELSE LuaPrinted(r.state, n + 1, longer)

(* The least present key after k in the order of the traversal *)
LuaNext(s, t, k) ==
    LET place(x) == CHOOSE i \in DOMAIN KeyOrder : KeyOrder[i] = x
        later == {x \in DOMAIN s.heap[t].fields : k = NilVal \/ place(x) > place(k)}
        first == CHOOSE x \in later : \A y \in later : place(x) <= place(y)
    IN  CASE k # NilVal /\ k \notin DOMAIN s.heap[t].fields -> FailsWith("next", s)
          [] (k = NilVal \/ k \in DOMAIN s.heap[t].fields) /\ later = {} -> Returns(<<NilVal>>, s)
          [] OTHER -> Returns(<<first, FieldOf(s, t, first)>>, s)

LuaError(s, args) ==
    LET n == Len(args)
        text == IF n > 0 /\ HasIdentity(args[1]) THEN LuaText(s, args[1]) ELSE Returns(<<>>, s)
        value == IF n = 0 THEN NilVal ELSE IF HasIdentity(args[1]) THEN <<"object", <<args[1][1], text.values[1]>>>> ELSE args[1]
        level == IF n < 2 \/ args[2] = NilVal THEN 1 ELSE args[2][2]
        prefix == CASE value[1] \notin {"str", "text"} \/ level <= 0 -> <<"suppressed", 0>>
                    [] value[1] \in {"str", "text"} /\ n < 2 -> <<"current", 0>>
                    [] OTHER -> <<"frame", level - 1>>
    IN  CASE text.fail # "" -> text
          [] text.fail = "" /\ n >= 2 /\ args[2][1] \notin {"nil", "num"} -> FailsWith("argument", text.state)
          [] OTHER -> FailsWith("raised", Answering(text.state, <<value, prefix>>))

LuaSelect(s, args) ==
    LET rest == Tail(args)
        m == Len(rest)
        i == IF args[1][2] < 0 THEN m + args[1][2] + 1 ELSE args[1][2]
    IN  CASE args[1] = StrVal("#") -> Returns(<<NumVal(m)>>, s)
          [] args[1] # StrVal("#") /\ args[1][1] # "num" -> FailsWith("argument", s)
          [] OTHER -> CASE i < 1 -> FailsWith("argument", s)
                        [] i >= 1 /\ m - i + 1 > MaxReturns -> FailsWith("results", s)
                        [] OTHER -> Returns(IF i > m THEN <<>> ELSE SubSeq(rest, i, m), s)

LuaMetatable(s, v) ==
    LET mt == MetaOf(s, v)
        guard == MetaFieldOf(s, mt, "__metatable")
    IN  IF guard # NilVal THEN guard ELSE IF mt = NoTable THEN NilVal ELSE <<"table", mt>>

TakesTable == {"ipairs", "ipairs_iter", "next", "pairs", "setmetatable", "rawget", "rawset"}
Needs(fn) ==
    CASE fn \in {"print", "error"} -> 0 [] fn \in {"ipairs_iter", "setmetatable", "rawget", "rawequal"} -> 2
      [] fn = "rawset" -> 3 [] OTHER -> 1

LuaSays(fn, s) ==
    LET args == Frame(s)
        a == args[1]
        b == IF Len(args) > 1 THEN args[2] ELSE NilVal
    IN  CASE fn = "rawset" /\ ~s.paid -> FailsWith("budget", s)
          [] (fn # "rawset" \/ s.paid) /\ (Len(args) < Needs(fn) \/ (fn \in TakesTable /\ a[1] # "table")) -> FailsWith("argument", s)
          [] OTHER ->
        CASE fn = "ipairs" -> Returns(<<<<"fn", "ipairs_iter">>, a, NumVal(0)>>, s)
          [] fn = "ipairs_iter" ->
                IF TypeName(b) # "num" THEN FailsWith("argument", s)
                ELSE LET i == <<b[1], b[2] + 1>>
                         r == LuaIndex(s, a, i, 0)
                     IN  IF r.fail = "" /\ r.values # <<NilVal>> THEN Returns(<<i>> \o r.values, s) ELSE r
          [] fn = "next" -> LuaNext(s, a[2], b)
          [] fn = "pairs" -> Returns(<<<<"fn", "next">>, a, NilVal>>, s)
          [] fn = "print" -> LuaPrinted(s, 1, <<>>)
          [] fn = "error" -> LuaError(s, args)
          [] fn = "type" -> Returns(<<StrVal(TypeName(a))>>, s)
          [] fn = "tostring" -> LuaText(s, a)
          [] fn = "getmetatable" -> Returns(<<LuaMetatable(s, a)>>, s)
          [] fn = "setmetatable" ->
                CASE b[1] \notin {"table", "nil"} -> FailsWith("argument", s)
                  [] b[1] \in {"table", "nil"} /\ MetaFieldOf(s, MetaOf(s, a), "__metatable") # NilVal -> FailsWith("protected", s)
                  [] OTHER -> Returns(<<a>>, [s EXCEPT !.heap[a[2]].meta = IF b = NilVal THEN NoTable ELSE b[2]])
          [] fn = "rawget" -> Returns(<<FieldOf(s, a[2], b)>>, s)
          [] fn = "rawset" -> IF b = NilVal THEN FailsWith("key", s) ELSE Returns(<<a>>, StoreField(s, a[2], b, args[3]))
          [] fn = "rawequal" -> Returns(<<BoolVal(a = b)>>, s)
          [] fn = "rawlen" ->
                CASE TypeName(a) = "str" -> Returns(<<NumVal(Len(a[2]))>>, s)
                  [] a[1] = "table" -> Returns(<<NumVal(Cardinality({i \in DOMAIN KeyOrder : \A j \in 1 .. i : NumVal(j) \in DOMAIN s.heap[a[2]].fields}))>>, s)
                  [] OTHER -> FailsWith("argument", s)
          [] OTHER -> LuaSelect(s, args)
-----------------------------------------------------------------------------
(* What a host operation promises of the frame and of the tables *)
ListOf(s, t) == [i \in 1 .. ArrayLen(s, t) |-> FieldOf(s, t, NumVal(i))]

(* The table a store ends in: v is the n-th value that is asked *)
RECURSIVE LuaStoresIn(_, _, _, _)
LuaStoresIn(s, t, k, n) ==
    LET h == MetaFieldOf(s, s.heap[t].meta, "__newindex")
    IN  IF FieldOf(s, t, k) # NilVal \/ h[1] # "table" THEN t ELSE LuaStoresIn(s, h[2], k, n + 1)

Promised(op, s, t) ==
    LET f == Frame(s)
        g == Frame(t)
        at(i) == IF i > 0 THEN i ELSE Len(f) + i + 1
        top == Last(s.stack)
        tableAt(i) == f[at(i)][2]
    IN  CASE op[1] = "insert" -> g[at(op[2])] = top /\ RemoveAt(g, at(op[2])) = Front(f)
          [] op[1] = "remove" -> InsertAt(g, at(op[2]), f[at(op[2])]) = f
          [] op[1] = "replace" -> g = Front([f EXCEPT ![at(op[2])] = top])
          [] op[1] = "copy_val" -> g = [f EXCEPT ![at(op[3])] = f[at(op[2])]]
          [] op[1] = "push_value" -> g = Append(f, f[at(op[2])])
          [] op[1] = "set_top" ->
                /\ Len(g) = IF op[2] < 0 THEN Len(f) + op[2] + 1 ELSE op[2]
                /\ \A i \in DOMAIN g : g[i] = IF i \in DOMAIN f THEN f[i] ELSE NilVal
          [] op[1] = "pop" -> \E rest \in {SubSeq(f, 1, Len(g))} : g = rest /\ Len(f) = Len(g) + op[2]
          [] op[1] = "get_table" -> g = Front(f) \o LuaIndex(s, f[at(op[2])], top, 0).values
          [] op[1] = "set_table" ->
                LET key == f[Len(f) - 1]
                    in == LuaStoresIn(s, tableAt(op[2]), key, 0)
                    called == FieldOf(s, in, key) = NilVal /\ MetaFieldOf(s, s.heap[in].meta, "__newindex") # NilVal
                IN  g = SubSeq(f, 1, Len(f) - 2) /\ t.heap = IF called THEN s.heap ELSE StoreField(s, in, key, top).heap
          [] op[1] = "table_insert_at" ->
                LET old == ListOf(s, tableAt(op[2]))
                IN  g = Front(f) /\ SubSeq(ListOf(t, tableAt(op[2])), 1, Len(old) + 1) = InsertAt(old, op[3], top)
          [] op[1] = "table_remove_at" ->
                LET old == ListOf(s, tableAt(op[2]))
                IN  /\ g = Append(f, FieldOf(s, tableAt(op[2]), NumVal(op[3])))
                    /\ op[3] \in DOMAIN old => ListOf(t, tableAt(op[2])) = RemoveAt(old, op[3])
          [] op[1] = "set_global" -> g = Front(f) /\ GetGlobal(t, op[2]).stack = s.stack
          [] op[1] = "raw_field" ->
                t.answer = FieldOf(s, tableAt(op[2]), StrVal(op[3])) /\ (t.answer = NilVal => op[5])
          [] OTHER -> TRUE

(* An operation never reaches below its frame or above the limit of the    *)
(* stack; one that is refused leaves the frame and the tables as they      *)
(* were, but for the operands an entered handler consumed; a poisoned      *)
(* State changes no more.                                                  *)
OperationIsSafe == todo # <<>> =>
    LET op == Head(todo)
        owned(s) == SubSeq(s.stack, 1, s.bottom)
    IN  /\ owned(host') = owned(host) /\ Len(host'.stack) <= MaxStack
        /\ host'.fail # "" =>
            /\ host'.heap = host.heap /\ host'.printed = host.printed /\ host'.results = host.results
            /\ host'.stack = host.stack \/ (host'.fail = "handler" /\ IsPrefix(host'.stack, host.stack))
        /\ host.poisoned => host' = [host EXCEPT !.fail = host'.fail, !.answer = host'.answer]
        /\ host'.fail = "" /\ ~host.poisoned => Promised(op, host, host')

(* A call that is over has done what the manual says, and failed for want  *)
(* of stack only within three slots of the limit.                          *)
CallIsRight ==
    call.fn \notin {"host", "none"} /\ todo = <<>> =>
        \A start \in {StartOf(call)} : \A says \in {LuaSays(call.fn, start)} :
            IF host.fail = "overflow" THEN ~HasRoom(start, 3) /\ host.heap = start.heap /\ host.printed = <<>>
            ELSE /\ host.fail = says.fail /\ host.results = says.values
                 /\ host.heap = says.state.heap /\ host.printed = says.state.printed /\ host.ids = says.state.ids
                 /\ host.fail = "raised" => host.answer = says.state.answer

=============================================================================
