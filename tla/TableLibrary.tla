---------------------------- MODULE TableLibrary ----------------------------
(***************************************************************************)
(* The table library (src/lua_std/table.rs, unpack in src/lua_std.rs, sort *)
(* in src/vm/table_ops.rs).  Each function has a raw path and, for a table *)
(* whose metatable has __len, __index or __newindex, one that goes through *)
(* the handlers, any of which may fail; both are interrupted between       *)
(* elements and charged against a budget.  Integers are machine integers   *)
(* of the range -MaxInt - 1 .. MaxInt, and a key is the float nearest to   *)
(* its integer: beyond MaxExact only every other integer is a float.       *)
(***************************************************************************)
EXTENDS Integers, FiniteSets, SequencesExt

CONSTANTS
    Requests,    \* the library calls a program makes, one per behaviour
    NotGiven,      \* an argument that is not given; no __len handler
    Fraction,    \* a number without an integer value
    NoBudget,
    MaxInt,      \* i64::MAX
    MaxExact,    \* MAX_EXACT_INTEGER
    SortLimit,   \* TABLE_SORT_MAX_LEN
    MaxResults,  \* MAX_RESULTS
    MaxText      \* MAX_STRING_BYTES

ASSUME WidthAssumption == MaxExact \in Nat /\ MaxInt = 2 * MaxExact - 1 /\ MaxExact % 4 = 0

VARIABLES
    req,      \* the call
    step,     \* "ready", the loop that runs, or "done"
    store,    \* what the tables a and b hold, as their handlers answer it
    loop,     \* the locals of the loop
    spent,    \* cost_used
    result,   \* [is, values] of the finished call
    alive     \* the objects the collector has kept

tableVars == <<req, step, store, loop, spent, result, alive>>

Nil == <<"nil", 0>>
NoLoop == [at |-> 0]

-----------------------------------------------------------------------------
(* Machine integers and floats *)
Wrap(x) == ((x + MaxInt + 1) % (2 * (MaxInt + 1))) - (MaxInt + 1)
Unsigned(x) == x % (2 * (MaxInt + 1))
SaturatingSub(x, y) == LET d == x - y IN IF d > MaxInt THEN MaxInt ELSE IF d < -MaxInt - 1 THEN -MaxInt - 1 ELSE d

(* `x as f64`: a tie goes to the even significand, a multiple of 4 *)
AsFloat(x) ==
    IF x \in -MaxExact .. MaxExact \/ x % 2 = 0 THEN x
    ELSE IF (x + 1) % 4 = 0 THEN x + 1 ELSE x - 1

ExactInteger(float) == float \in -MaxInt - 1 .. MaxInt - 1

(* check_integer_key_range *)
KeysAreExact(first, last) ==
    IF first = last THEN ExactInteger(AsFloat(first)) /\ AsFloat(first) = first
    ELSE {first, last} \subseteq -MaxExact .. MaxExact

-----------------------------------------------------------------------------
(* Tables: the value of a key that is absent is nil *)
Get(s, k) == IF AsFloat(k) \in DOMAIN s THEN s[AsFloat(k)] ELSE Nil

Set(s, k, v) ==
    [key \in (DOMAIN s \cup {AsFloat(k)}) \ (IF v = Nil THEN {AsFloat(k)} ELSE {}) |->
        IF key = AsFloat(k) THEN v ELSE s[key]]

(* array_len, of a table whose positive keys have no gap *)
Border(s) == Cardinality({k \in DOMAIN s : k > 0})

(* array_insert and array_remove, for a position the caller checked *)
ArrayInsert(s, pos, v) ==
    [k \in DOMAIN s \cup {Border(s) + 1} |-> IF k < pos THEN s[k] ELSE IF k = pos THEN v ELSE s[k - 1]]

ArrayRemove(s, pos) ==
    IF pos \in 1 .. Border(s)
    THEN [k \in DOMAIN s \ {Border(s)} |-> IF k < pos THEN s[k] ELSE s[k + 1]]
    ELSE Set(s, pos, Nil)

Handled(t) == req.meta[t]

-----------------------------------------------------------------------------
(* Ends of a call *)
Ok(values) == [is |-> "ok", values |-> values]
Error(what) == [is |-> what, values |-> <<>>]

(* A step that ends the call: the tables are as s, and m was charged *)
EndsWith(s, m, outcome) ==
    /\ step' = "done" /\ result' = outcome
    /\ store' = s /\ spent' = m
    /\ UNCHANGED <<req, loop, alive>>

Raises(m, what) == EndsWith(store, m, Error(what))
Interrupted == Raises(spent, "interrupted")

Continues(name, s, m, locals) ==
    /\ step' = name /\ store' = s /\ spent' = m /\ loop' = locals
    /\ UNCHANGED <<req, result, alive>>

Affords(m, n) == n = 0 \/ req.budget = NoBudget \/ m < req.budget

Room == IF req.budget = NoBudget THEN MaxInt ELSE Max({0, req.budget - spent})

(***************************************************************************)
(* sequence_len: what __len answers, or the raw length.  Goes(len) is the  *)
(* rest of the step, after m was charged.                                  *)
(***************************************************************************)
HandlesLength == Handled("a") /\ req.len # NotGiven

SequenceLen == IF HandlesLength THEN req.len ELSE Border(store["a"])

WithLength(m, Goes) ==
    \/ HandlesLength /\ Raises(m, "handler failed")
    \/ IF HandlesLength /\ req.len = Fraction THEN Raises(m, "length is not an integer") ELSE Goes

(* A read or a write of t through its handlers may fail instead of taking the step *)
HandlerFails(t, m) == Handled(t) /\ Raises(m, "handler failed")

CheckedShift(first, last, distance, m, Goes) ==
    IF ~KeysAreExact(first, last) THEN Raises(m, "key range")
    ELSE IF distance >= SortLimit THEN Raises(m, "shift too large")
    ELSE Goes

-----------------------------------------------------------------------------
(* table.insert(t, [pos,] value) *)
InsertRaw(m) ==
    LET s == store["a"]
        pos == IF req.nargs = 2 THEN Border(s) + 1 ELSE req.pos
    IN  IF req.nargs \notin {2, 3} THEN Raises(m, "wrong number of arguments")
        ELSE IF pos = Fraction THEN Raises(m, "no integer")
        ELSE IF pos \notin 1 .. Border(s) + 1 THEN Raises(m, "position out of bounds")
        ELSE EndsWith([store EXCEPT !["a"] = ArrayInsert(s, pos, req.value)], m, Ok(<<>>))

InsertThroughMetamethods(len, m) ==
    LET firstEmpty == Wrap(len + 1)
        pos == IF req.nargs = 3 THEN req.pos ELSE firstEmpty
    IN  IF req.nargs \notin {2, 3} THEN Raises(m, "wrong number of arguments")
        ELSE IF pos = Fraction THEN Raises(m, "no integer")
        ELSE IF req.nargs = 3 /\ Unsigned(Wrap(pos - 1)) >= Unsigned(firstEmpty)
        THEN Raises(m, "position out of bounds")
        ELSE CheckedShift(pos, Max({firstEmpty, pos}), SaturatingSub(firstEmpty, pos), m,
                          Continues("insert", store, m, [at |-> firstEmpty, pos |-> pos]))

TableInsert ==
    /\ step = "ready" /\ req.fn = "insert"
    /\ IF ~Affords(spent, 1) THEN Raises(spent, "budget exceeded")
       ELSE IF Handled("a") THEN WithLength(spent + 1, InsertThroughMetamethods(SequenceLen, spent + 1))
       ELSE InsertRaw(spent + 1)

ShiftUpKey(at) == at - 1

InsertShift ==
    /\ step = "insert" /\ loop.at > loop.pos
    /\ \/ Interrupted
       \/ HandlerFails("a", spent)
       \/ Continues("insert",
                    [store EXCEPT !["a"] = Set(@, loop.at, Get(@, ShiftUpKey(loop.at)))],
                    spent, [loop EXCEPT !.at = @ - 1])

InsertValue ==
    /\ step = "insert" /\ loop.at <= loop.pos
    /\ \/ HandlerFails("a", spent)
       \/ EndsWith([store EXCEPT !["a"] = Set(@, loop.pos, req.value)], spent, Ok(<<>>))

(* table.remove(t [, pos]) *)
RemoveRaw(m) ==
    LET s == store["a"]
        len == Border(s)
        pos == IF req.pos = NotGiven THEN len ELSE req.pos
        valid == IF len = 0 THEN pos \in {0, 1} ELSE pos \in 1 .. len + 1
    IN  IF pos = Fraction THEN Raises(m, "no integer")
        ELSE IF ~valid THEN Raises(m, "position out of bounds")
        ELSE EndsWith([store EXCEPT !["a"] = ArrayRemove(s, pos)], m, Ok(<<Get(s, pos)>>))

RemoveThroughMetamethods(size, m) ==
    LET pos == IF req.pos = NotGiven THEN size ELSE req.pos
    IN  IF pos = Fraction THEN Raises(m, "no integer")
        ELSE IF pos # size /\ Unsigned(Wrap(pos - 1)) > Unsigned(size)
        THEN Raises(m, "position out of bounds")
        ELSE CheckedShift(pos, Max({size, pos}), SaturatingSub(size, pos), m,
                 \/ HandlerFails("a", m)
                 \/ Continues("remove", store, m, [at |-> pos, size |-> size, removed |-> Get(store["a"], pos)]))

TableRemove ==
    /\ step = "ready" /\ req.fn = "remove"
    /\ IF ~Affords(spent, 1) THEN Raises(spent, "budget exceeded")
       ELSE IF Handled("a") THEN WithLength(spent + 1, RemoveThroughMetamethods(SequenceLen, spent + 1))
       ELSE RemoveRaw(spent + 1)

RemoveShift ==
    /\ step = "remove" /\ loop.at < loop.size
    /\ \/ Interrupted
       \/ HandlerFails("a", spent)
       \/ Continues("remove",
                    [store EXCEPT !["a"] = Set(@, loop.at, Get(@, loop.at + 1))],
                    spent, [loop EXCEPT !.at = @ + 1])

RemoveClear ==
    /\ step = "remove" /\ loop.at >= loop.size
    /\ \/ HandlerFails("a", spent)
       \/ EndsWith([store EXCEPT !["a"] = Set(@, loop.at, Nil)], spent, Ok(<<loop.removed>>))

-----------------------------------------------------------------------------
(***************************************************************************)
(* table.move(a1, f, e, t [, a2]), from table a to req.dest.  The raw path *)
(* pays for the whole range first, as far as the budget goes.              *)
(***************************************************************************)
AlwaysForwards == FALSE

(* Same-table moves to the right copy backwards *)
Backwards == req.dest = "a" /\ req.t > req.f /\ req.t <= req.e

MoveNothing ==
    IF Affords(spent, 1) THEN EndsWith(store, spent + 1, Ok(<<>>)) ELSE Raises(spent, "budget exceeded")

MoveRange(count) ==
    LET destLast == Wrap(req.t + Wrap(count - 1))
        handlers == Handled("a") \/ Handled(req.dest)
        paid == Min({count, Room})
    IN  IF ~(KeysAreExact(req.f, req.e) /\ KeysAreExact(req.t, destLast)) THEN Raises(spent, "key range")
        ELSE Continues("move", store, IF handlers THEN spent ELSE spent + paid,
                       [at |-> 0, count |-> count, paid |-> IF handlers THEN count ELSE paid,
                        handlers |-> handlers])

TableMove ==
    /\ step = "ready" /\ req.fn = "move"
    /\ IF Fraction \in {req.f, req.e, req.t} THEN Raises(spent, "no integer")
       ELSE IF req.f > req.e THEN MoveNothing
       ELSE IF ~(req.f > 0 \/ req.e < Wrap(MaxInt + req.f)) THEN Raises(spent, "too many elements to move")
       ELSE LET count == Wrap(Wrap(req.e - req.f) + 1)
            IN  IF req.t > Wrap(Wrap(MaxInt - count) + 1) THEN Raises(spent, "destination wrap around")
                ELSE MoveRange(count)

(* move_element *)
Copied(s, i) ==
    [s EXCEPT ![req.dest] = Set(@, req.t + i, Get(s["a"], req.f + i))]

CopyOrder(k) == IF Backwards THEN loop.count - 1 - k ELSE k

MoveElement ==
    /\ step = "move" /\ loop.at < loop.paid
    /\ \/ Interrupted
       \/ \E charge \in {IF loop.handlers THEN 1 ELSE 0} :
             IF ~Affords(spent, charge) THEN Raises(spent, "budget exceeded")
             ELSE \/ loop.handlers /\ Raises(spent + charge, "handler failed")
                  \/ Continues("move", Copied(store, CopyOrder(loop.at)), spent + charge,
                               [loop EXCEPT !.at = @ + 1])

MoveEnds ==
    /\ step = "move" /\ loop.at = loop.paid
    /\ IF loop.paid < loop.count THEN Raises(spent, "budget exceeded")
       ELSE EndsWith(store, spent, Ok(<<>>))

-----------------------------------------------------------------------------
(* Charges and growth of a text, one after the other; the first refusal ends the step *)
Charged(w, n) ==
    IF w.error # "none" THEN w
    ELSE IF ~Affords(w.spent, n) THEN [w EXCEPT !.error = "budget exceeded"]
    ELSE [w EXCEPT !.spent = @ + n]

Grown(w, piece) ==
    IF w.error # "none" THEN w
    ELSE IF Len(w.out) + Len(piece) > MaxText THEN [w EXCEPT !.error = "string too long"]
    ELSE LET paid == Charged(w, Len(piece))
         IN  IF paid.error = "none" THEN [paid EXCEPT !.out = @ \o piece] ELSE paid

Given(argument, default) == IF argument = NotGiven THEN default ELSE argument

(* table.concat(list [, sep [, i [, j]]]) *)
ConcatRange(len) ==
    LET w == Charged([out |-> <<>>, spent |-> spent, error |-> "none"], Len(req.sep))
        i == Given(req.i, 1)
        j == Given(req.j, len)
        empty == IF req.sep = <<>> THEN Charged(w, 1) ELSE w
    IN  IF w.error # "none" THEN Raises(w.spent, w.error)
        ELSE IF Fraction \in {i, j} THEN Raises(w.spent, "no integer")
        ELSE IF i > j
        THEN IF empty.error # "none" THEN Raises(w.spent, empty.error) ELSE EndsWith(store, empty.spent, Ok(<<>>))
        ELSE IF ~KeysAreExact(i, j) THEN Raises(w.spent, "key range")
        ELSE Continues("concat", store, w.spent, [at |-> i, first |-> i, last |-> j, out |-> <<>>])

TableConcat ==
    /\ step = "ready" /\ req.fn = "concat"
    /\ WithLength(spent, ConcatRange(SequenceLen))

ConcatElement ==
    /\ step = "concat" /\ loop.at <= loop.last
    /\ \/ Interrupted
       \/ LET start == [out |-> loop.out, spent |-> spent, error |-> "none"]
              read == Charged(IF loop.at > loop.first THEN Grown(start, req.sep) ELSE start, 1)
              v == Get(store["a"], loop.at)
              w == Grown(read, <<v>>)
          IN  IF read.error # "none" THEN Raises(read.spent, read.error)
              ELSE \/ HandlerFails("a", read.spent)
                   \/ IF v[1] \notin {"number", "string"} THEN Raises(read.spent, "invalid value")
                      ELSE IF w.error # "none" THEN Raises(w.spent, w.error)
                      ELSE Continues("concat", store, w.spent, [loop EXCEPT !.at = @ + 1, !.out = w.out])

ConcatEnds ==
    /\ step = "concat" /\ loop.at > loop.last
    /\ EndsWith(store, spent, Ok(loop.out))

(* unpack(list [, i [, j]]): __len only runs when j is not given *)
UnpackRange(j) ==
    LET i == Given(req.i, 1)
    IN  IF i > j THEN EndsWith(store, spent, Ok(<<>>))
        ELSE IF j - i > MaxInt \/ j - i >= MaxResults THEN Raises(spent, "too many results")
        ELSE IF ~KeysAreExact(i, j) THEN Raises(spent, "key range")
        ELSE Continues("unpack", store, spent, [at |-> i, last |-> j, out |-> <<>>])

TableUnpack ==
    /\ step = "ready" /\ req.fn = "unpack"
    /\ IF Fraction \in {req.i, req.j} THEN Raises(spent, "no integer")
       ELSE IF req.j # NotGiven THEN UnpackRange(req.j)
       ELSE WithLength(spent, UnpackRange(SequenceLen))

UnpackElement ==
    /\ step = "unpack" /\ loop.at <= loop.last
    /\ \/ HandlerFails("a", spent)
       \/ Continues("unpack", store, spent, [loop EXCEPT !.at = @ + 1, !.out = Append(@, Get(store["a"], loop.at))])

UnpackEnds ==
    /\ step = "unpack" /\ loop.at > loop.last
    /\ EndsWith(store, spent, Ok(loop.out))

(* table.pack(...), into table b *)
TablePack ==
    /\ step = "ready" /\ req.fn = "pack"
    /\ IF ~Affords(spent, 1) THEN Raises(spent, "budget exceeded")
       ELSE EndsWith([store EXCEPT !["b"] = FoldLeft(LAMBDA s, k : Set(s, k, req.args[k]), <<>>,
                                                     [k \in 1 .. Len(req.args) |-> k])],
                     spent + 1, Ok(<<<<"number", Len(req.args)>>>>))

-----------------------------------------------------------------------------
(***************************************************************************)
(* table.sort(t [, comp]): a heap sort of a copy.  loop holds the copy     *)
(* (values, counted from 0), the phase with its counter, and the sift that *)
(* runs: the node it is at, the end of the heap and the smallest so far.   *)
(* The copy of the raw path is rooted while a comparator may run; that of  *)
(* the handler path is a table on the stack.                               *)
(***************************************************************************)
Elements(s, n) == [k \in 0 .. n - 1 |-> Get(s, k + 1)]
Objects(values) == {v \in values : v[1] = "object"}
HasComparator == req.comp # "default"

Sorting(n, values, phase) ==
    [at |-> 0, phase |-> phase, n |-> n, values |-> values, taken |-> values,
     next |-> n \div 2 - 1, sift |-> "no", root |-> 0, end |-> 0, smallest |-> 0, asked |-> 0, mutated |-> FALSE]

SortRaw ==
    LET n == Border(store["a"])
        cost == Max({n, 1})
    IN  IF n >= SortLimit THEN Raises(spent, "array too big")
        ELSE IF ~Affords(spent, cost) THEN Raises(spent, "budget exceeded")
        ELSE IF n = 0 THEN EndsWith(store, spent + cost, Ok(<<>>))
        ELSE Continues("sort", store, spent + cost, Sorting(n, Elements(store["a"], n), "heapify"))

SortThroughMetamethods(len) ==
    LET cost == Max({len, 1})
    IN  IF len >= SortLimit THEN Raises(spent, "array too big")
        ELSE IF ~Affords(spent, cost) THEN Raises(spent, "budget exceeded")
        ELSE IF len < 2 THEN EndsWith(store, spent + cost, Ok(<<>>))
        ELSE Continues("sort", store, spent + cost, Sorting(len, <<>>, "read"))

TableSort ==
    /\ step = "ready" /\ req.fn = "sort"
    /\ IF Handled("a") THEN WithLength(spent, SortThroughMetamethods(SequenceLen)) ELSE SortRaw

InPhase(phase) == step = "sort" /\ loop.phase = phase /\ loop.sift = "no"
Sifting(at) == step = "sort" /\ loop.sift = at
Sorts(locals) == Continues("sort", store, spent, locals)

SortRead ==
    /\ InPhase("read")
    /\ \/ Interrupted
       \/ HandlerFails("a", spent)
       \/ LET values == [k \in 0 .. loop.at |-> IF k < loop.at THEN loop.values[k] ELSE Get(store["a"], k + 1)]
          IN  IF loop.at + 1 = loop.n THEN Sorts(Sorting(loop.n, values, "heapify"))
              ELSE Sorts([loop EXCEPT !.at = @ + 1, !.values = values])

Swapped(values, i, k) == [values EXCEPT ![i] = values[k], ![k] = values[i]]

(* A sift starts at a node; when it stops, the phase it belongs to goes on *)
Sift(locals, root, end) == [locals EXCEPT !.root = root, !.end = end, !.sift = "level"]
SiftReturns(asked) == Sorts([loop EXCEPT !.sift = "no", !.asked = @ + asked])

(* table_sort_heap *)
Heapify ==
    /\ InPhase("heapify")
    /\ IF loop.next < 0 THEN Sorts([loop EXCEPT !.phase = "sortdown", !.next = loop.n - 1])
       ELSE Sorts(Sift([loop EXCEPT !.next = @ - 1], loop.next, loop.n))

SortDown ==
    /\ InPhase("sortdown")
    /\ IF loop.next < 1 THEN Sorts([loop EXCEPT !.phase = "reverse", !.next = 0])
       ELSE \/ Interrupted
            \/ Sorts(Sift([loop EXCEPT !.next = @ - 1, !.values = Swapped(@, 0, loop.next)], 0, loop.next))

ReverseValues ==
    /\ InPhase("reverse") /\ loop.next < loop.n \div 2
    /\ \/ Interrupted
       \/ Sorts([loop EXCEPT !.next = @ + 1, !.values = Swapped(@, loop.next, loop.n - 1 - loop.next)])

(* table_sort_sift_down, one level *)
Left == 2 * loop.root + 1

SiftLevel ==
    /\ Sifting("level")
    /\ \/ Interrupted
       \/ IF Left >= loop.end THEN SiftReturns(0)
          ELSE Sorts([loop EXCEPT !.sift = "left", !.smallest = loop.root])

Descends(smallest) ==
    IF smallest = loop.root THEN SiftReturns(1)
    ELSE Sorts([loop EXCEPT !.sift = "level", !.asked = @ + 1, !.root = smallest,
                            !.values = Swapped(@, loop.root, smallest)])

(* table_sort_less: what the comparator answers, if it does *)
Comparable(v, w) == HasComparator \/ (v[1] = w[1] /\ v[1] \in {"number", "string"})
Answers(v, w) == IF req.comp = "any" THEN BOOLEAN ELSE {v[2] < w[2]}

CompareLess(candidate, Goes(_)) ==
    LET v == loop.values[candidate]
        w == loop.values[loop.smallest]
    IN  IF ~Comparable(v, w) THEN Raises(spent, "cannot compare")
        ELSE \/ HasComparator /\ Raises(spent, "comparator failed")
             \/ \E less \in Answers(v, w) : Goes(IF less THEN candidate ELSE loop.smallest)

CompareLeft ==
    /\ Sifting("left")
    /\ CompareLess(Left, LAMBDA smallest :
           IF Left + 1 < loop.end
           THEN Sorts([loop EXCEPT !.sift = "right", !.smallest = smallest, !.asked = @ + 1])
           ELSE Descends(smallest))

CompareRight ==
    /\ Sifting("right")
    /\ CompareLess(Left + 1, LAMBDA smallest : Descends(smallest))

(* A comparator clears the table, or appends to it, and collects *)
RootedPair == IF HasComparator THEN {loop.values[loop.smallest], loop.values[Left]} ELSE {}

Rooted == IF HasComparator THEN {loop.taken[k] : k \in DOMAIN loop.taken} ELSE {}

ComparatorMutates ==
    /\ Sifting("left") \/ Sifting("right")
    /\ HasComparator /\ ~loop.mutated
    /\ \E s \in {<<>>, Set(store["a"], loop.n + 1, req.value)} :
          /\ store' = [store EXCEPT !["a"] = s]
          /\ alive' = alive \cap Objects(Range(s) \cup Rooted)
    /\ loop' = [loop EXCEPT !.mutated = TRUE]
    /\ UNCHANGED <<req, step, spent, result>>

(* set_array, or the writes through the handlers, one by one *)
SortWritesBack ==
    /\ InPhase("reverse") /\ loop.next >= loop.n \div 2
    /\ IF Handled("a") THEN Sorts([loop EXCEPT !.phase = "write", !.at = 1])
       ELSE EndsWith([store EXCEPT !["a"] = FoldLeft(LAMBDA s, k : Set(s, k, loop.values[k - 1]), @,
                                                     [k \in 1 .. loop.n |-> k])],
                     spent, Ok(<<>>))

SortWrite ==
    /\ InPhase("write")
    /\ \/ Interrupted
       \/ HandlerFails("a", spent)
       \/ LET written == [store EXCEPT !["a"] = Set(@, loop.at, loop.values[loop.at - 1])]
          IN  IF loop.at = loop.n THEN EndsWith(written, spent, Ok(<<>>))
              ELSE Continues("sort", written, spent, [loop EXCEPT !.at = @ + 1])

TableInit ==
    /\ req \in Requests
    /\ step = "ready" /\ loop = NoLoop /\ spent = 0 /\ result = Ok(<<>>)
    /\ store = [a |-> req.data, b |-> <<>>]
    /\ alive = Objects(Range(req.data))

TableNext ==
    \/ TableInsert \/ InsertShift \/ InsertValue
    \/ TableRemove \/ RemoveShift \/ RemoveClear
    \/ TableMove \/ MoveElement \/ MoveEnds
    \/ TableConcat \/ ConcatElement \/ ConcatEnds
    \/ TableUnpack \/ UnpackElement \/ UnpackEnds \/ TablePack
    \/ TableSort \/ SortRead \/ Heapify \/ SortDown \/ ReverseValues \/ SiftLevel
    \/ CompareLeft \/ CompareRight \/ ComparatorMutates \/ SortWritesBack \/ SortWrite

TableSpec == TableInit /\ [][TableNext]_tableVars

-----------------------------------------------------------------------------
(***************************************************************************)
(* The reference: Lua's definitions over unbounded integers and exact      *)
(* keys, with every read before any write.                                 *)
(***************************************************************************)
Value(s, k) == IF k \in DOMAIN s THEN s[k] ELSE Nil

Rewrite(s, keys, New(_)) ==
    LET new(k) == IF k \in keys THEN New(k) ELSE s[k]
    IN  [k \in {x \in DOMAIN s \cup keys : new(x) # Nil} |-> new(k)]

TheLength == IF HandlesLength THEN req.len ELSE Border(req.data)
Position(default) == IF req.pos = NotGiven THEN default ELSE req.pos

LuaInsert(pos, e) ==
    Rewrite(req.data, pos .. Max({pos, e}), LAMBDA k : IF k = pos THEN req.value ELSE Value(req.data, k - 1))

LuaRemove(pos, size) ==
    Rewrite(req.data, pos .. Max({pos, size}),
            LAMBDA k : IF k = Max({pos, size}) THEN Nil ELSE Value(req.data, k + 1))

(* The first m copies of a move; table b is empty at first *)
LuaMove(m) ==
    LET steps == IF Backwards THEN loop.count - m .. loop.count - 1 ELSE 0 .. m - 1
    IN  Rewrite(IF req.dest = "a" THEN req.data ELSE <<>>, {req.t + i : i \in steps},
                LAMBDA k : Value(req.data, k - req.t + req.f))

RangeOf(i, j) == [k \in 1 .. Max({0, j - i + 1}) |-> Value(req.data, i + k - 1)]

LuaConcat(texts) == FlattenSeq([k \in DOMAIN texts |-> IF k = 1 THEN <<texts[k]>> ELSE Append(req.sep, texts[k])])

Done(is) == step = "done" /\ result.is = is

(***************************************************************************)
(* Both paths do what Lua 5.4 defines: insert and remove accept the same   *)
(* positions and leave the same table, a move behaves as if every element  *)
(* were read before the first is written, concat and unpack return the     *)
(* elements of the range.  No machine integer wraps and no two keys fall   *)
(* on the same float, whatever the handlers answer.  A call cut short by   *)
(* an interrupt, a handler or the budget has lost no element (but the one  *)
(* removed), and a move that ran out of budget made and paid exactly the   *)
(* copies the budget admits, on both paths.                                *)
(***************************************************************************)
TableCallsFollowLua ==
    /\ req.fn = "insert" /\ Done("ok") => store["a"] = LuaInsert(Position(TheLength + 1), TheLength + 1)
    /\ req.fn = "remove" /\ Done("ok") =>
          /\ store["a"] = LuaRemove(Position(TheLength), TheLength)
          /\ result.values = <<Value(req.data, Position(TheLength))>>
    /\ req.fn \in {"insert", "remove"} /\ TheLength # Fraction =>
          LET pos == IF req.fn = "insert" THEN Position(TheLength + 1) ELSE Position(TheLength)
          IN  /\ pos # Fraction /\ TheLength >= 0 /\ (Done("ok") \/ Done("position out of bounds")) =>
                    (Done("ok") <=> pos \in 1 .. TheLength + 1 \/ (req.fn = "remove" /\ pos = TheLength))
              /\ req.len = NotGiven =>
                    Range(req.data) \ (IF req.fn = "remove" THEN {Value(req.data, pos)} ELSE {}) \subseteq Range(store["a"])
    /\ req.fn = "move" /\ loop # NoLoop =>
          /\ store[req.dest] = LuaMove(loop.at)
          /\ spent = IF ~loop.handlers THEN loop.paid
                     ELSE IF Done("handler failed") THEN loop.at + 1 ELSE loop.at
          /\ Done("ok") => loop.at = req.e - req.f + 1
          /\ Done("budget exceeded") => loop.at = req.budget
    /\ req.fn = "unpack" /\ Done("ok") => result.values = RangeOf(Given(req.i, 1), Given(req.j, TheLength))
    /\ req.fn = "concat" /\ Done("ok") =>
          result.values = LuaConcat(RangeOf(Given(req.i, 1), Given(req.j, TheLength)))
    /\ req.fn = "pack" /\ Done("ok") => store["b"] = [k \in {x \in DOMAIN req.args : req.args[x] # Nil} |-> req.args[k]]

Log2(n) == CHOOSE k \in 0 .. n : 2^k <= n /\ n < 2^(k + 1)

Times(values, v) == Cardinality({k \in DOMAIN values : values[k] = v})

IsPermutation(new, old) ==
    \A v \in Range(new) \cup Range(old) : Times(new, v) = Times(old, v)

(***************************************************************************)
(* A sort keeps every element exactly once and every object alive while a  *)
(* comparator answers inconsistently, clears the table, appends to it,     *)
(* collects or fails; what it appends survives.  It asks at most the       *)
(* comparisons of a heap sort, so it ends.  A sort that fails before it    *)
(* writes back leaves the table to what the comparator did, and with a     *)
(* consistent order the table ends up sorted.                              *)
(***************************************************************************)
SortKeepsEveryElement ==
    req.fn = "sort" /\ loop # NoLoop =>
        /\ loop.phase # "read" =>
              /\ IsPermutation(loop.values, loop.taken)
              /\ loop.mutated \/ loop.taken = [k \in 0 .. loop.n - 1 |-> Value(req.data, k + 1)]
              /\ Objects(Range(loop.values)) \subseteq alive
        /\ loop.asked <= 2 * loop.n + 2 * (loop.n - 1) * Log2(loop.n)
        /\ loop.phase # "write" /\ ~loop.mutated /\ result.is # "ok" => store["a"] = req.data
        /\ Done("ok") =>
              /\ \A k \in 1 .. loop.n : Value(store["a"], k) = loop.values[k - 1]
              /\ \A k \in DOMAIN req.data \ 1 .. loop.n : loop.mutated \/ Value(store["a"], k) = req.data[k]
              /\ req.comp # "any" => \A i, k \in 0 .. loop.n - 1 : i < k => ~(loop.values[k][2] < loop.values[i][2])

(* Every function of lua_std/table.rs: the two statements above *)
TableLibraryFollowsLua == TableCallsFollowLua /\ SortKeepsEveryElement
=============================================================================
