------------------------------ MODULE MCLibrary -----------------------------
(***************************************************************************)
(* The library: a behaviour exercises either the weak handles of the       *)
(* string pool (WeakHandles) with the compiled-pattern cache, or one call  *)
(* of a pattern function (StringMatching), or one of a table function      *)
(* (TableLibrary).  The sample calls have subjects of up to five bytes and *)
(* patterns of every item, repeat and malformed point; tables of up to     *)
(* five elements, and integers on both sides of every limit.               *)
(***************************************************************************)
EXTENDS WeakHandles, StringMatching, TableLibrary, MathLibrary, BasicLibrary

CONSTANTS short, full, vast

(* `full` fills the pattern cache by itself, `vast` never fits *)
Lengths(t) == CASE t = short -> 1 [] t = full -> 2 [] OTHER -> 3

Subjects == {<<>>, <<"a">>, <<"a", "b">>, <<"a", "a", "b">>, <<"a", "b", "a", "b">>, <<"(", "a", ")", "b">>}

Patterns ==
    {<<"a">>, <<"b", "a">>, <<"a", "*">>, <<"a", "-", "b">>, <<"a", "?", "b">>,
     <<"^", "a">>, <<"(", ")", "a", "*">>, <<"(", "a", "+", ")", "(", "b", ")">>,
     <<"(", "a", "*", "(", ".", ")", ")", "%", "2">>, <<"(", ".", ")", ".", "-", "%", "1">>, <<"%", "b", "(", ")">>, <<"%", "b", "a", "a">>,
     <<"%", "f", "[", "a", "]", ".", "$">>, <<"%", "S", "$">>, <<"[", "^", "a", "-", "b", "]">>,
     <<"[", "]", "-", "a", "]">>, <<"[", "%", "a", "-", "z", "]", "+">>,
     <<"b", "%">>, <<"b", "[", "a">>, <<"a", ")">>, <<"(", "a">>, <<"(", "a", "%", "1", ")">>, <<"a", "%", "b", "(">>,
     <<"b", "%", "f", "a">>, <<"(", ")", "(", ")", "(", ")">>, <<"(", "(", "(", "a", ")", ")">>, <<"^">>, <<>>, <<")">>}

Inits == {1, 2, 0, -1, 6}

Searches ==
    [fn : {"match"}, s : Subjects, p : Patterns, init : {1}, limit : {Unlimited}]
    \cup [fn : {"find"}, s : Subjects, p : Patterns, init : {1}, plain : {FALSE}, limit : {Unlimited}]
    \cup [fn : {"find"}, s : Subjects, p : {<<>>, <<"a", "b">>, <<"(">>}, init : Inits, plain : BOOLEAN, limit : {6, Unlimited}]
    \cup [fn : {"sub"}, s : Subjects, init : Inits, j : {-1, 0, 2, 9}, limit : {Unlimited}]

Repls == [kind : {"string"}, text : {<<>>, <<"%", "1", "%", "0">>, <<"z", "%", "%">>, <<"%", "z">>, <<"%", "2">>}]
         \cup [kind : {"function", "table"}, text : {<<"z">>}]

Substitutions ==
    [fn : {"gsub"}, s : {<<>>, <<"a", "a", "b">>, <<"a", "b", "a", "b">>}, p : {<<>>, <<"a">>, <<"a", "*">>, <<"^", "a">>, <<"(", ")", "a", "-">>, <<"(", "a", ")">>, <<"(", "a">>, <<"(", "a", ")", "(", ".", ")">>},
     repl : Repls, max : {Unlimited, 1, -1}, limit : {Unlimited, 14}]

Iterations ==
    [fn : {"gmatch"}, s : {<<>>, <<"a", "a", "b">>, <<"a", "b", "a", "b">>}, p : {<<>>, <<"a">>, <<"a", "*">>, <<"^", "a">>, <<"(", ")", "a", "-">>, <<"(", "a">>, <<"a", "%">>, <<"(", "a", ")", "(", ".", ")">>},
     init : {1, 2, -1, 6}, limit : {Unlimited, 4, 12}]

N(n) == <<"number", n>>
Str(n) == <<"string", n>>
Obj(n) == <<"object", n>>

(* Whether a, and whether b, has handlers *)
Metas == [a : BOOLEAN, b : {FALSE}]

Lists == {<<>>, <<N(1)>>, <<N(1), Obj(2)>>, <<N(1), N(2), N(3)>>, (0 :> N(9))}
Lengths0 == {NotGiven, Fraction, -2, -1, 0, 1, 7, 9, 14}

Shifts ==
    [fn : {"insert"}, data : Lists, meta : Metas, len : Lengths0, nargs : {1, 2}, pos : {NotGiven}, value : {N(7)}, budget : {NoBudget}]
    \cup [fn : {"insert"}, data : Lists, meta : Metas, len : Lengths0, nargs : {3}, pos : {1, 2, 4, 0, -1, 10, 14, Fraction}, value : {N(7)}, budget : {0, NoBudget}]
    \cup [fn : {"remove"}, data : Lists, meta : Metas, len : Lengths0, pos : {NotGiven, 1, 2, 4, 0, -1, 10, 14, Fraction}, budget : {0, NoBudget}]

Moves ==
    [fn : {"move"}, data : {<<N(1), N(2), N(3)>>, (8 :> N(8)) @@ (10 :> N(9))}, meta : [a : BOOLEAN, b : BOOLEAN], len : {NotGiven},
     f : {-16, 0, 1, 2, 8, 10}, e : {3, 10, 14, 1}, t : {-16, -3, 1, 2, 7, 14, Fraction}, dest : {"a", "b"}, budget : {0, 2, NoBudget}]

RangeReads ==
    [fn : {"concat"}, data : Lists, meta : Metas, len : {NotGiven, Fraction, 2}, sep : {<<>>, <<Str(0)>>, <<Str(0), Str(0)>>}, i : {NotGiven, 2, -16, Fraction}, j : {NotGiven, 1, 14}, budget : {0, 2, NoBudget}]
    \cup [fn : {"unpack"}, data : Lists, meta : Metas, len : {NotGiven, Fraction, 2, 14}, i : {NotGiven, 2, 12, -16, Fraction}, j : {NotGiven, 3, 14, Fraction}, budget : {NoBudget}]
    \cup [fn : {"pack"}, data : {<<>>}, meta : {[a |-> FALSE, b |-> FALSE]}, args : {<<>>, <<N(1), Nil, N(2)>>}, budget : {0, NoBudget}]

Sorts0 ==
    [fn : {"sort"}, data : {<<>>, <<N(1)>>, <<N(2), Str(1)>>, <<N(2), N(1), Str(1)>>, <<N(3), N(1), N(2)>>, <<N(2), N(1), N(2), N(1)>>, <<N(4), N(2), N(3), N(5), N(1)>>, <<N(1), N(1), N(1), N(1), N(1), N(1)>>},
     meta : Metas, len : {NotGiven, Fraction, -1, 2, 9}, comp : {"default"}, value : {N(7)}, budget : {0, NoBudget}]
    \cup [fn : {"sort"}, data : {<<Obj(2), Obj(1)>>, <<Obj(2), Obj(3), Obj(1)>>, <<Obj(2), Obj(1), Obj(4), Obj(3)>>},
          meta : Metas, len : {NotGiven}, comp : {"less", "any"}, value : {N(7)}, budget : {NoBudget}]

MCRequests == Shifts \cup Moves \cup RangeReads \cup Sorts0
Floats == {Float(neg, bits) : neg \in BOOLEAN, bits \in 0 .. Infinity} \cup {NaN}
Over(set, n) == UNION {[1 .. k -> set] : k \in 0 .. n}
Numerals ==
    {<<"0", "x">> \o m \o e : m \in Over({"0", "1", "8", "f", "."}, 4),
        e \in {<<>>, <<"p", "2">>, <<"p", "-", "5">>, <<"P", "+", "2", "1">>, <<"p", "-", "9", "9">>,
               <<"p", "9", "9">>, <<"p">>, <<"p", "1", "p", "1">>}}
    \cup Over({"1", ".", "e", "-", " "}, 4)
NumberPairs == {<<Num(a), Num(b)>> : a \in Floats, b \in Floats}

MCAsks ==
    [f : {"tonumber"}, args : {<< <<"text", t>> >> : t \in Numerals}, paid : {TRUE}]
    \cup [f : {"tonumber"}, args : {<< <<"text", t>>, Num(b) >> : t \in Over({"1", "z", "-", " "}, 3), b \in {One, FromInteger(2), FromInteger(8), NaN}}
                                   \cup {<<>>, <<NilValue>>, <<Num(One)>>, <<Num(One), Num(One)>>}, paid : {TRUE}]
    \cup [f : {"%", "fmod", "random"}, args : NumberPairs, paid : {TRUE}]
    \cup [f : {"floor", "ceil", "abs", "modf", "min", "sin", "log", "atan", "random"}, args : {<<Num(a)>> : a \in Floats}, paid : BOOLEAN]
    \cup [f : {"atan", "log", "atan2"}, args : {<<>>} \cup {<<Num(One), v>> : v \in {Num(One), Num(FromInteger(10)), NilValue, <<"text", <<>>>>}}, paid : {TRUE}]
    \cup [f : {"floor", "modf", "min", "max", "sin", "fmod", "random"},
          args : {<<>>, <<NilValue>>, <<Num(One), NilValue>>, <<Num(One), Num(NaN), Num(Float(TRUE, Infinity))>>}, paid : {TRUE}]
(* One call of the base library, or one host operation: its arguments, the *)
(* fields of its table and of the metatable, what a handler does, and the  *)
(* slots already in use                                                    *)
TblT == <<"table", "t">>
TblM == <<"table", "m">>
FnF == <<"fn", "f">>
NoFields == [k \in {} |-> NilVal]
ListFields(n) == [k \in {NumVal(i) : i \in 1 .. n} |-> StrVal("v")]
OptionFields == (StrVal("x") :> NumVal(3)) @@ (StrVal("y") :> StrVal("v"))
MetaFields(name, v) == StrVal(name) :> v
HostDatas == <<NoFields, ListFields(2), NumVal(1) :> BoolVal(FALSE), OptionFields @@ (NumVal(2) :> NumVal(1))>>
HostMetas == <<NoFields, MetaFields("__index", FnF), MetaFields("__index", TblM), MetaFields("__index", StrVal("x")), MetaFields("__index", NumVal(1)),
           MetaFields("__newindex", FnF), MetaFields("__newindex", TblM), MetaFields("__newindex", NumVal(1)),
           MetaFields("__tostring", FnF), MetaFields("__tostring", NumVal(1)), MetaFields("__metatable", BoolVal(FALSE)),
           MetaFields("__index", <<"table", "G">>)>>
MCKeyOrder == <<NumVal(1), NumVal(2), NumVal(3), NumVal(4), StrVal("x"), StrVal("y"), StrVal("g"),StrVal("__index"),StrVal("__newindex"),StrVal("__tostring"),StrVal("__metatable")>>

StartState(c) ==
    [stack |-> [i \in 1 .. c.pad |-> StrVal("own")] \o c.args, bottom |-> c.pad,
     heap |-> [t |-> [fields |-> HostDatas[c.data], meta |-> IF c.meta = 0 THEN NoTable ELSE "m"],
               m |-> [fields |-> IF c.meta = 0 THEN NoFields ELSE HostMetas[c.meta], meta |-> IF c.cyclic THEN "m" ELSE NoTable],
               G |-> [fields |-> ListFields(3), meta |-> NoTable]],
     strings |-> IF c.strings THEN "m" ELSE NoTable, poisoned |-> c.poisoned, paid |-> c.paid, handler |-> c.handler,
     fail |-> "", answer |-> NilVal, ids |-> <<>>, nextId |-> c.next, message |-> <<>>, printed |-> <<>>, results |-> <<>>]
Outcomes == {<<"returns", StrVal("v")>>, <<"returns", NilVal>>, <<"raises", 0>>, <<"refused", 0>>}
OneOutcome == {<<"returns", NumVal(1)>>}
Pads == {1, 4, 5, 6, 7}
CommonArgs == {<<>>, <<TblT>>, <<StrVal("x")>>, <<FnF>>, <<NumVal(-1)>>, <<TblT, NumVal(1)>>, <<TblT, TblM>>, <<StrVal("x"), NilVal>>}
LibCall(fns, args, data, meta, cyclic, strings, handler, pad, paid, next) ==
    [fn : fns, ops : {<<>>}, args : args, data : data, meta : meta, cyclic : cyclic, strings : strings, handler : handler, pad : pad, paid : paid, next : next, poisoned : {FALSE}]
HostUse(ops, args, data, meta, cyclic, handler, pad, poisoned) ==
    [fn : {"host"}, ops : ops, args : args, data : data, meta : meta, cyclic : cyclic, strings : {TRUE}, handler : handler, pad : pad, paid : {TRUE}, next : {0}, poisoned : poisoned]
LibraryCalls ==
    LibCall({"ipairs", "pairs", "type", "rawequal", "select", "rawlen", "next", "rawget"}, CommonArgs, {2}, {1}, {FALSE}, {FALSE}, OneOutcome, Pads, {TRUE}, {0})
    \cup LibCall({"select"}, {<<StrVal("#"), NilVal, TblT>>, <<NumVal(2), TblT, FnF, TblM>>, <<NumVal(-4), TblT>>, <<NumVal(-1), TblT, FnF>>, <<NumVal(1), TblT, FnF, TblM, TblM>>, <<NumVal(9), TblT>>, <<NumVal(0), TblT>>, <<<<"frac", 0>>, TblT>>}, {2}, {1}, {FALSE}, {FALSE}, OneOutcome, {0, 1}, {TRUE}, {0})
    \cup LibCall({"ipairs_iter"}, {<<TblT>>, <<TblT, NumVal(0)>>, <<TblT, NumVal(1), FnF>>, <<TblT, NumVal(2)>>, <<TblT, FnF>>, <<TblT, <<"frac", 0>>>>, <<FnF, NumVal(1)>>}, {1, 2, 3}, {0, 1, 2, 3, 4, 5, 12}, BOOLEAN, BOOLEAN, Outcomes, {0, 1, 5, 6}, {TRUE}, {0})
    \cup LibCall({"print"}, {<<>>, <<TblT>>, <<TblT, TblT>>, <<StrVal("x"), TblT>>, <<TblT, FnF>>, <<FnF, TblT, TblM>>, <<NumVal(1), NilVal, FnF, FnF>>}, {1}, {1, 9, 10}, {FALSE}, BOOLEAN, Outcomes \cup OneOutcome, {1, 5}, {TRUE}, {0, 1})
    \cup LibCall({"error"}, {<<>>, <<TblT>>, <<FnF, NumVal(1)>>, <<TblT, FnF>>, <<StrVal("x")>>, <<StrVal("x"), NumVal(2)>>, <<StrVal("x"), NumVal(0)>>, <<StrVal("x"), <<"frac", 0>>>>, <<StrVal("x"), NilVal>>, <<NumVal(1), NumVal(2)>>}, {1}, {1, 9, 10}, {FALSE}, BOOLEAN, Outcomes, {1, 6}, {TRUE}, {0, 2})
    \cup LibCall({"tostring"}, CommonArgs, {1}, {0, 1, 9, 10}, {FALSE}, BOOLEAN, Outcomes \cup OneOutcome, Pads, {TRUE}, {0, 2})
    \cup LibCall({"getmetatable", "setmetatable"}, CommonArgs \cup {<<TblT, NilVal, FnF>>, <<TblM, TblT>>}, {1}, {0, 1, 11}, BOOLEAN, BOOLEAN, OneOutcome, Pads, {TRUE}, {0})
    \cup LibCall({"next", "rawget", "rawset", "rawlen"}, {<<TblT>>, <<TblM>>, <<TblT, NilVal>>, <<TblT, NumVal(1), NilVal>>, <<TblT, NumVal(2), FnF>>, <<TblT, StrVal("x"), NumVal(5)>>, <<TblT, NilVal, FnF, FnF>>, <<TblT, NumVal(4)>>}, 1 .. 4, {1, 6}, {FALSE}, {FALSE}, OneOutcome, Pads, BOOLEAN, {0})
Indices == {1, 2, -1, -2, 0, 5}
FrameOps == {<<<<n, i>>>> : n \in {"set_top", "pop", "push_value", "insert", "remove", "replace", "typ", "try_typ", "try_to_boolean", "to_boolean", "to_number", "to_bytes"}, i \in Indices}
  \cup {<<<<n, i, j>>>> : n \in {"copy_val", "raw_equal", "try_raw_equal"}, i \in {1, -1, 0}, j \in {2, -1, 5}}
  \cup {<<<<"remove_bottom", i>>>> : i \in {0, 1, 5}} \cup {<<<<"check_optional_type", i, "num">>>> : i \in {0, 1, 2}} \cup {<<<<"check_type", 0, "num">>>>, <<<<"check_type_in", 0, {}>>>>, <<<<"check_any", 0>>>>}
  \cup {<<<<"set_global", "g">>, <<"get_global", "g">>>>}
HostTableOps == {<<<<n, i>>>> : n \in {"get_table_raw", "set_table_raw", "get_table", "set_table", "table_next", "raw_len", "get_metatable_of", "set_metatable_of", "tostring"}, i \in Indices}
HostListOps == {<<<<n, i, j>>>> : n \in {"table_insert_at", "table_remove_at"}, i \in {1, -2, -1, 0}, j \in 0 .. 4}
  \cup {<<<<"raw_field", i, n, ty, o>>>> : i \in {1, -1, -2, 0, 5}, n \in {"x", "y"}, ty \in {<<"str">>, <<"num">>, <<"bool">>, <<"int", 0, 2>>, <<"int", 0, 3>>}, o \in BOOLEAN}
HostArgs == {<<>>, <<TblT>>, <<TblT, NumVal(1)>>, <<TblT, NumVal(2), NumVal(7)>>, <<TblT, NilVal, FnF>>, <<StrVal("x"), StrVal("x")>>, <<TblT, TblM>>, <<TblT, BoolVal(FALSE)>>, <<NumVal(3), TblT>>, <<TblT, StrVal("x"), NilVal>>}
HostUses ==
    HostUse(FrameOps, HostArgs, {2}, {1}, {FALSE}, OneOutcome, {1, 6}, BOOLEAN)
    \cup HostUse(HostTableOps, HostArgs, {1, 4}, {0, 2, 3, 4, 5, 6, 7, 8, 12}, BOOLEAN, {<<"returns", StrVal("v")>>, <<"raises", 0>>}, {1}, {FALSE})
    \cup HostUse(HostTableOps, HostArgs, {1}, {2, 6, 9}, BOOLEAN, {<<"refused", 0>>}, {4, 5, 6}, {FALSE})
    \cup HostUse(HostListOps, HostArgs, {2, 4}, {1}, {FALSE}, OneOutcome, {1, 6}, {FALSE})
MCHostCalls == {c \in LibraryCalls : c.pad + Len(c.args) <= MaxStack} \cup {c \in HostUses : c.pad + Len(c.args) <= MaxStack}
-----------------------------------------------------------------------------
NoUse == [fn |-> "none", limit |-> Unlimited]

StringIdle ==
    /\ use = NoUse /\ stage = "done" /\ sub = <<>> /\ answers = <<>> /\ failures = 0
    /\ work = [out |-> <<>>, used |-> 0, limit |-> Unlimited, error |-> NoError]

NoRequest == [fn |-> "none"]

TableIdle ==
    /\ req = NoRequest /\ step = "done" /\ loop = NoLoop /\ spent = 0 /\ result = Ok(<<>>)
    /\ store = <<>> /\ alive = {}

NoAsk == [f |-> "none"]
MathIdle == ask = NoAsk /\ answer = Pending

NoCall == [fn |-> "none"]
HostIdle == call = NoCall /\ host = <<>> /\ todo = <<>>

LibraryInit ==
    /\ Init
    /\ \/ StringInit /\ TableIdle /\ MathIdle /\ HostIdle
       \/ StringIdle /\ TableInit /\ MathIdle /\ HostIdle
       \/ StringIdle /\ TableIdle /\ MathInit /\ HostIdle
       \/ StringIdle /\ TableIdle /\ MathIdle /\ HostInit
       \/ StringIdle /\ TableIdle /\ MathIdle /\ HostIdle

LibraryNext ==
    \/ /\ use = NoUse /\ req = NoRequest /\ ask = NoAsk /\ call = NoCall
       /\ Next /\ UNCHANGED <<stringVars, tableVars, mathVars, hostVars>>
    \/ use # NoUse /\ StringNext /\ UNCHANGED <<vars, tableVars, mathVars, hostVars>>
    \/ req # NoRequest /\ TableNext /\ UNCHANGED <<vars, stringVars, mathVars, hostVars>>
    \/ ask # NoAsk /\ MathNext /\ UNCHANGED <<vars, stringVars, tableVars, hostVars>>
    \/ call # NoCall /\ HostStep /\ UNCHANGED <<vars, stringVars, tableVars, mathVars>>

LibrarySpec == LibraryInit /\ [][LibraryNext]_<<vars, stringVars, tableVars, mathVars, hostVars>>

MCUses == Searches \cup Substitutions \cup Iterations
=============================================================================
