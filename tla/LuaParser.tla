----------------------------- MODULE LuaParser ------------------------------
(***************************************************************************)
(* The recursive-descent parser of src/src/compiler/parser.rs and          *)
(* src/src/compiler/parser/: name resolution, scopes and the close         *)
(* decisions that hang on captures, constant folding, literal pools,       *)
(* nesting and count limits, and the code generation at the end of every   *)
(* function.                                                               *)
(*                                                                         *)
(* A parser p is the record of the Parser struct, with a stack p.out of    *)
(* the parts parsed so far and an agenda p.todo of the calls still to      *)
(* make: a parsing method puts the calls it makes, in their order, at the  *)
(* front.  A token on the agenda is expected there.  A function's code is  *)
(* generated by p.gen.  An error ends the parse.                           *)
(*                                                                         *)
(* A token is its kind k (the text of a keyword or symbol, else "id",      *)
(* "num" or "str") and the payload v the lexer decoded.                    *)
(***************************************************************************)
EXTENDS Codegen

Eof == "<eof>"
Peek(p) == IF p.pos <= Len(p.toks) THEN p.toks[p.pos].k ELSE Eof
Peek2(p) == IF p.pos < Len(p.toks) THEN p.toks[p.pos + 1].k ELSE Eof
PeekValue(p) == p.toks[p.pos].v
Next(p) == [p EXCEPT !.pos = @ + 1]

Calls(p, calls) == [p EXCEPT !.todo = calls \o @]

Fail(p, e) == IF p.err = "" THEN [p EXCEPT !.err = e] ELSE p
Check(p, holds, e) == IF holds THEN p ELSE Fail(p, e)

(* err_near, err_unexpected *)
FailNear(p, e) == Fail(p, IF Peek(p) = Eof THEN "UnexpectedEof" ELSE e)
Expect(p, k) == IF Peek(p) = k THEN Next(p) ELSE FailNear(p, "ExpectedToken")
TryPop(p, k) == IF Peek(p) = k THEN Next(p) ELSE p

Got(p) == Last(p.out)
GotUnder(p) == p.out[Len(p.out) - 1]
Yield(p, v) == [p EXCEPT !.out = Append(@, v)]
Replace(p, v) == [p EXCEPT !.out[Len(p.out)] = v]
Discard(p) == [p EXCEPT !.out = Front(@)]

(* The two parts on top become one *)
Merge(p, v) == Replace(Discard(p), v)
Listed(p) == Replace(p, <<Got(p)>>)
Gather(p) == Merge(p, Append(GotUnder(p), Got(p)))

(* with_syntax_level *)
LevelIn(p, cost) == IF p.depth + cost > p.lim.depth THEN Fail(p, "TooManySyntaxLevels")
                    ELSE [p EXCEPT !.depth = @ + cost]
LevelOut(p, cost) == [p EXCEPT !.depth = @ - cost]

(* The function being parsed *)
Func(p) == Last(p.funcs)
FuncAt(p) == Len(p.funcs)
NewFunc(num_params, vararg) ==
    [num_params |-> num_params, vararg |-> vararg, locals |-> <<>>, ids |-> <<>>,
     decls |-> <<>>, upvalues |-> <<>>, loops |-> <<>>, blocks |-> <<>>, captures |-> <<>>,
     strings |-> <<>>, numbers |-> <<>>, nested |-> <<>>, templates |-> <<>>, num_locals |-> 0]

-----------------------------------------------------------------------------
(* Names and scopes *)
Declare(p, name) ==
    [p EXCEPT !.funcs[FuncAt(p)] =
        [@ EXCEPT !.locals = Append(@, name),
                  !.ids = Append(@, Len(Func(p).decls) + 1),
                  !.decls = Append(@, FALSE)]]

CountLocals(p) ==
    LET n == Len(Func(p).locals) - Func(p).num_params IN
    [p EXCEPT !.funcs[FuncAt(p)].num_locals = IF n > @ THEN n ELSE @]

AddLocal(p, name) ==
    IF Len(Func(p).locals) = p.lim.locals THEN Fail(p, "TooManyLocals")
    ELSE CountLocals(Declare(p, name))

SlotCount(p) == Len(Func(p).locals)

LevelUp(p) ==
    [p EXCEPT !.funcs[FuncAt(p)].blocks =
        Append(@, [base |-> SlotCount(p), mark |-> Len(Func(p).captures)])]

(* A closure made since mark captured a local at or above slot *)
CapturedSince(f, mark, slot) == \E i \in mark + 1 .. Len(f.captures) : f.captures[i] >= slot

EnterLoop(p, slot) ==
    [p EXCEPT !.funcs[FuncAt(p)].loops =
        Append(@, [slot |-> slot, mark |-> Len(Func(p).captures)])]
LoopBodyCaptured(p) ==
    LET loop == Last(Func(p).loops) IN CapturedSince(Func(p), loop.mark, loop.slot)

(* exit_loop and level_down return the slot to close from, or None *)
LoopClose(p) == IF LoopBodyCaptured(p) THEN Last(Func(p).loops).slot ELSE None
ExitLoop(p) == [p EXCEPT !.funcs[FuncAt(p)].loops = Front(@)]

BlockClose(p) ==
    LET b == Last(Func(p).blocks) IN
    IF b.base < SlotCount(p) /\ CapturedSince(Func(p), b.mark, b.base) THEN b.base ELSE None
LevelDown(p) ==
    LET base == Last(Func(p).blocks).base IN
    [p EXCEPT !.funcs[FuncAt(p)] = [@ EXCEPT !.blocks = Front(@),
                                             !.locals = SubSeq(@, 1, base),
                                             !.ids = SubSeq(@, 1, base)]]

(* find_last_local: the innermost local of that name, or 0 *)
FindLastLocal(f, name) == Max({0} \cup {i \in DOMAIN f.locals : f.locals[i] = name})
FindUpvalue(f, name) == Max({0} \cup {i \in DOMAIN f.upvalues : f.upvalues[i].name = name})

(* The binding found one level out is captured there and becomes an upvalue *)
InstallUpvalue(p, level, name) ==
    LET d == Got(p)
        owner == p.funcs[level - 1]
        q == IF d.at # "local" THEN p
             ELSE [p EXCEPT !.funcs[level - 1] =
                      [@ EXCEPT !.captures = Append(@, d.i),
                                !.decls[owner.ids[d.i + 1]] = TRUE]]
        n == Len(p.funcs[level].upvalues)
    IN  CASE p.err # "" \/ d.at = "none" -> p
          [] n >= p.lim.upvalues -> Fail(p, "TooManyUpvalues")
          [] OTHER -> Replace([q EXCEPT !.funcs[level].upvalues =
                                   Append(@, [name |-> name, desc |-> d])],
                              [at |-> "upvalue", i |-> n + 1])

RECURSIVE ResolveIn(_, _, _)
ResolveIn(p, level, name) ==
    LET f == p.funcs[level] IN
    CASE FindLastLocal(f, name) # 0 -> Yield(p, [at |-> "local", i |-> FindLastLocal(f, name) - 1])
      [] FindUpvalue(f, name) # 0 -> Yield(p, [at |-> "upvalue", i |-> FindUpvalue(f, name)])
      [] level = 1 -> Yield(p, [at |-> "none", i |-> 0])
      [] OTHER -> InstallUpvalue(ResolveIn(p, level - 1, name), level, name)

(* Literal pools: an index into the function's own pool *)
StringAt(p, s) ==
    LET pool == Func(p).strings IN Max({0} \cup {i \in DOMAIN pool : pool[i] = s})
AddString(p, s) ==
    CASE StringAt(p, s) # 0 -> p
      [] Len(Func(p).strings) < p.lim.literals ->
             [p EXCEPT !.funcs[FuncAt(p)].strings = Append(@, s)]
      [] OTHER -> Fail(p, "TooManyStrings")

(* The two zeros share one pool entry *)
NumberAt(p, num) ==
    LET pool == Func(p).numbers IN Max({0} \cup {i \in DOMAIN pool : pool[i].n = num.n})
AddNumber(p, num) ==
    CASE NumberAt(p, num) # 0 -> p
      [] Len(Func(p).numbers) < p.lim.literals ->
             [p EXCEPT !.funcs[FuncAt(p)].numbers = Append(@, num)]
      [] OTHER -> Fail(p, "TooManyNumbers")

(* parse_prefix_identifier: a local, an upvalue, a builtin or a global *)
Variable(p, name) ==
    LET d == Got(p)
        q == AddString(p, name)
    IN  CASE p.err # "" -> Replace(p, Node([e |-> "Nil"]))
          [] d.at = "local" ->
                 Replace(p, Node([e |-> "Local", reg |-> d.i, id |-> Func(p).ids[d.i + 1]]))
          [] d.at = "upvalue" -> Replace(p, Node([e |-> "GET_UPVAL", i |-> d.i]))
          [] name \in Builtins -> Replace(p, Node([e |-> "GET_BUILTIN", i |-> name]))
          [] OTHER -> Replace(q, Node([e |-> "GET_GLOBAL", i |-> StringAt(q, name)]))

(* resolve_identifier: every use of a global name is recorded, as a read *)
RecordGlobal(p, name) ==
    IF Got(p).e \in {"GET_BUILTIN", "GET_GLOBAL"}
    THEN [p EXCEPT !.globals = Append(@, [name |-> name, kind |-> "Read"])] ELSE p
ResolveIdentifier(p, name) == RecordGlobal(Variable(ResolveIn(p, FuncAt(p), name), name), name)

GlobalStaysRead(p, global) == p
MarkGlobalWrite(p, global) == IF global = 0 THEN p ELSE [p EXCEPT !.globals[global].kind = "Write"]

(* The recorded occurrence of the variable just resolved, or 0 *)
GlobalRef(p) == IF Got(p).e \in {"GET_BUILTIN", "GET_GLOBAL"} THEN Len(p.globals) ELSE 0

PlaceOf(v) ==
    CASE v.e = "Local" -> [p |-> "Local", i |-> v.reg]
      [] v.e = "GET_UPVAL" -> [p |-> "SET_UPVAL", i |-> v.i]
      [] v.e = "GET_GLOBAL" -> [p |-> "SET_GLOBAL", i |-> v.i]
      [] v.e = "GET_BUILTIN" -> [p |-> "SET_BUILTIN", i |-> v.i]

-----------------------------------------------------------------------------
(* Expressions *)

(* Any name, or the name of a variable, pushed *)
Name(p) == IF Peek(p) = "id" THEN Yield(Next(p), PeekValue(p)) ELSE FailNear(p, "ExpectedToken")
VariableName(p) == Check(Name(p), Peek(p) # "id" \/ PeekValue(p) # "_ENV", "UnsupportedEnvironmentName")
NameIndex(p) == Replace(AddString(p, Got(p)), StringAt(AddString(p, Got(p)), Got(p)))

(* The methods of the binary operators: what each calls, its loop last *)
Multiplication == <<"unary", "chain", "more_multiplication">>
Addition == Multiplication \o <<"chain", "more_addition">>
ConcatExp == Addition \o <<"list", "more_concat">>
Comparison == ConcatExp \o <<"chain", "more_comparison">>
AndExp == Comparison \o <<"list", "more_and">>
OrExp == AndExp \o <<"list", "more_or">>
Explist == <<"expr", "list", "more_exprs">>

Leveled(p, cost, calls) == Calls(LevelIn(p, cost), Append(calls, IF cost = 2 THEN "leave_two" ELSE "leave"))

MoreExprs(p) ==
    CASE Peek(p) # "," -> p
      [] Peek(p) = "," /\ Len(Got(p)) = p.lim.exprs -> Fail(p, "TooManyExpressions")
      [] OTHER -> Calls(Next(p), <<"expr", "gather", "more_exprs">>)

(* The loops of or, and, concatenation: an operand gathered for each operator *)
Operands(p, kind) == IF Len(Got(p)) = 1 THEN Replace(p, Got(p)[1])
                     ELSE Replace(p, Node([e |-> kind, operands |-> Got(p)]))
MoreOperands(p, sep, operand, more, kind) ==
    IF Peek(p) = sep THEN Calls(Next(p), operand \o <<"gather", more>>) ELSE Operands(p, kind)
MoreConcat(p) ==
    IF Peek(p) # ".." /\ Len(Got(p)) > p.lim.exprs THEN Fail(p, "TooManyExpressions")
    ELSE MoreOperands(p, "..", Addition, "more_concat", "Concat")

(* A literal number is replaced by its value unless that is the negative
   zero, which the pool cannot tell from zero, or the pool is full *)
CanFold(p, num) == ~num.z /\ AddNumber(p, num).err = p.err
NumNode(p, num) == Node([e |-> "Num", i |-> NumberAt(AddNumber(p, num), num)])
NumberOf(p, e) == Func(p).numbers[e.i]

(* ChainBuilder: constants fold from the left, while nothing else came first.
   The operator lies between the chain and its new operand *)
ChainPush(p) ==
    LET chain == p.out[Len(p.out) - 2]
        op == GotUnder(p)
        rhs == Got(p)
        folds == chain.rest = <<>> /\ op \in {"+", "-", "*"}
                    /\ chain.first.e = "Num" /\ rhs.e = "Num"
        num == ArithNum(op, NumberOf(p, chain.first), NumberOf(p, rhs))
    IN  IF folds /\ CanFold(p, num)
        THEN Merge(Discard(AddNumber(p, num)), [chain EXCEPT !.first = NumNode(p, num)])
        ELSE Merge(Discard(p), [chain EXCEPT !.rest = Append(@, [op |-> op, rhs |-> rhs])])
ChainStart(p) == Replace(p, [first |-> Got(p), rest |-> <<>>])
ChainFinish(p, kind) ==
    IF Got(p).rest = <<>> THEN Replace(p, Got(p).first)
    ELSE Replace(p, Node([e |-> kind, first |-> Got(p).first, rest |-> Got(p).rest]))
MoreLinks(p, ops, operand, more, kind) ==
    IF Peek(p) \in ops THEN Calls(Yield(Next(p), Peek(p)), operand \o <<"link", more>>)
                       ELSE ChainFinish(p, kind)

Negate(p) ==
    IF Got(p).e = "Num" /\ CanFold(p, NegNum(NumberOf(p, Got(p))))
    THEN LET num == NegNum(NumberOf(p, Got(p))) IN Replace(AddNumber(p, num), NumNode(p, num))
    ELSE Replace(p, Node([e |-> "Neg", x |-> Got(p)]))
ParseUnaryInner(p) ==
    CASE Peek(p) = "not" -> Calls(Next(p), <<"unary", "not">>)
      [] Peek(p) = "#" -> Calls(Next(p), <<"unary", "len">>)
      [] Peek(p) = "-" -> Calls(Next(p), <<"unary", "negate">>)
      [] OTHER -> Calls(p, <<"primary", "pow">>)
ParsePow(p) == IF Peek(p) = "^" THEN Calls(Next(p), <<"unary", "power">>) ELSE p
Power(p) == Merge(p, Node([e |-> "Pow", x |-> GotUnder(p), exponent |-> Got(p)]))

(* A prefix is its base, the global occurrence of a bare name, and suffixes *)
Prefix(p, var, global) == Replace(p, [base |-> Got(p), var |-> var, global |-> global,
                                      suffixes |-> <<>>])
IsCall(prefix) == prefix.suffixes # <<>> /\ Last(prefix.suffixes).k \in {"Call", "Method"}
Suffixed(base, suffixes) ==
    IF suffixes = <<>> THEN base ELSE Node([e |-> "Suffixed", base |-> base, suffixes |-> suffixes])
IntoExpr(prefix) == Suffixed(prefix.base, prefix.suffixes)
IsPlace(prefix) == IF prefix.suffixes = <<>> THEN prefix.var ELSE ~IsCall(prefix)
IntoPlace(prefix) ==
    LET last == Last(prefix.suffixes)
        object == Suffixed(prefix.base, Front(prefix.suffixes))
    IN  CASE prefix.suffixes = <<>> -> PlaceOf(prefix.base)
          [] last.k = "Field" -> [p |-> "Field", object |-> object, name |-> last.name]
          [] last.k = "Index" -> [p |-> "Index", object |-> object, key |-> last.key]
PlaceGlobal(prefix) == IF prefix.suffixes = <<>> THEN prefix.global ELSE 0

ResolveName(p) == ResolveIdentifier(Discard(p), Got(p))
NamedPrefix(p) == Prefix(p, TRUE, GlobalRef(p))
ParenPrefix(p) ==
    Prefix(IF IsMulti(Got(p)) THEN Replace(p, Node([e |-> "Paren", x |-> Got(p)])) ELSE p, FALSE, 0)
ParsePrefixExp(p) ==
    CASE Peek(p) = "id" -> Calls(p, <<"variable", "resolve", "named_prefix", "suffixes">>)
      [] Peek(p) = "(" -> Calls(Next(p), <<"expr", ")", "paren_prefix", "suffixes">>)
      [] OTHER -> FailNear(p, "UnexpectedSymbol")

AddSuffix(p, suffix) == Merge(p, [GotUnder(p) EXCEPT !.suffixes = Append(@, suffix)])

(* A string or a constructor is one argument without parentheses *)
ParseCallArgs(p) ==
    CASE Peek(p) \in {"str", "{"} -> Calls(p, <<"base", "list">>)
      [] Peek(p) = "(" -> IF Peek2(p) = ")" THEN Calls(Yield(Next(p), <<>>), <<")">>)
                                            ELSE Calls(Next(p), Append(Explist, ")"))
      [] OTHER -> FailNear(p, "FunctionArgumentsExpected")

(* check_call_width: an open tail has any number of arguments *)
CheckCallWidth(p, implicit) ==
    LET args == Got(p) IN
    Check(p, (args # <<>> /\ IsMulti(Last(args))) \/ Len(args) + implicit <= p.lim.args,
          "TooManyArguments")
CallSuffix(p) == AddSuffix(CheckCallWidth(p, 0), [k |-> "Call", args |-> Got(p)])
MethodSuffix(p) ==
    AddSuffix(Discard(CheckCallWidth(p, 1)), [k |-> "Method", name |-> GotUnder(p), args |-> Got(p)])
FieldSuffix(p) == AddSuffix(p, [k |-> "Field", name |-> Got(p)])
IndexSuffix(p) == AddSuffix(p, [k |-> "Index", key |-> Got(p)])
ParseSuffixes(p) ==
    CASE Peek(p) = "." -> Calls(Next(p), <<"name", "name_index", "field_suffix", "suffixes">>)
      [] Peek(p) = "[" -> Leveled(Calls(Next(p), <<"suffixes">>), 2, <<"expr", "]", "index_suffix">>)
      [] Peek(p) \in {"(", "{"} ->
             Leveled(Calls(p, <<"suffixes">>), 2, <<"call_args", "call_suffix">>)
      [] Peek(p) = "str" -> Calls(p, <<"call_args", "call_suffix", "suffixes">>)
      [] Peek(p) = ":" -> Leveled(Calls(Next(p), <<"suffixes">>), 2,
                                  <<"name", "name_index", "call_args", "method_suffix">>)
      [] OTHER -> p

ParsePrimary(p) == Calls(p, IF Peek(p) \in {"id", "("} THEN <<"prefix", "into_expr">> ELSE <<"base">>)

(* A literal, a constructor, a function, a constant or the varargs *)
ConstantToken(k) == CASE k = "nil" -> "Nil" [] k = "false" -> "False" [] k = "true" -> "True"
VarargNode(p) == Yield(Check(p, Func(p).vararg, "VarargOutsideVarargFunction"), Node([e |-> "Vararg"]))
NumberLiteral(p, num) == Yield(AddNumber(p, num), NumNode(p, num))
StringLiteral(p, s) ==
    Yield(AddString(p, s), Node([e |-> "Str", i |-> StringAt(AddString(p, s), s)]))
ClosureNode(p) == Replace(p, Node([e |-> "CLOSURE", i |-> Got(p)]))
ParseExprBase(p) ==
    LET k == Peek(p) IN
    CASE k = "num" -> NumberLiteral(Next(p), PeekValue(p))
      [] k = "str" -> StringLiteral(Next(p), PeekValue(p))
      [] k = "{" -> Calls(Next(p), <<"table">>)
      [] k = "function" -> Calls(Next(p), <<"fndef", "closure">>)
      [] k \in {"nil", "false", "true"} -> Yield(Next(p), Node([e |-> ConstantToken(k)]))
      [] k = "..." -> VarargNode(Next(p))
      [] OTHER -> FailNear(p, "UnexpectedSymbol")

-----------------------------------------------------------------------------
(* Table constructors.  The constructor being parsed, on top of p.out, counts
   the entries waiting for a flush (i), the batches flushed, the keyed
   entries and all entries (both saturating, as size hints), and lists the named entries as long as there are no others *)
NewConstructor == [items |-> <<>>, i |-> 0, batch |-> 0, fields |-> 0, keyed |-> 0,
                   names |-> <<>>, pure |-> TRUE, tail |-> FALSE]
Flush(t, count) ==
    [t EXCEPT !.items = Append(@, [k |-> "Flush", count |-> count, batch |-> t.batch])]
FlushFull(p) ==
    LET t == Got(p) IN
    IF t.i = p.lim.batch THEN Replace(p, [Flush(t, t.i) EXCEPT !.i = 0, !.batch = @ + 1]) ELSE p

Saturating(n, lim) == IF n > lim.byte THEN lim.byte ELSE n
AddItem(t, item, lim) ==
    [t EXCEPT !.items = Append(@, item), !.fields = Saturating(@ + 1, lim),
              !.i = IF item.k = "Positional" THEN @ + 1 ELSE @,
              !.keyed = IF item.k = "Positional" THEN @ ELSE Saturating(@ + 1, lim),
              !.pure = @ /\ item.k = "Named",
              !.names = IF item.k = "Named"
                        THEN Append(@, [name |-> item.name, item |-> Len(t.items) + 1]) ELSE @,
              !.tail = item.k = "Positional" /\ IsMulti(item.value)]

NamedEntry(p) ==
    LET q == Discard(p) IN
    Merge(q, AddItem(GotUnder(q), [k |-> "Named", name |-> Got(q), value |-> Got(p), pinned |-> 0], p.lim))
KeyedEntry(p) ==
    LET q == Discard(p) IN
    Merge(q, AddItem(GotUnder(q), [k |-> "Keyed", key |-> Got(q), value |-> Got(p)], p.lim))
PositionalEntry(p) == Merge(p, AddItem(GotUnder(p), [k |-> "Positional", value |-> Got(p)], p.lim))
ParseTableEntry(p) ==
    LET q == FlushFull(p) IN
    CASE Peek(p) = "id" /\ Peek2(p) = "=" ->
             Calls(q, <<"name", "name_index", "=", "expr", "named_entry", "more_entries">>)
      [] Peek(p) = "[" -> Calls(Next(q), <<"expr", "]", "=", "expr", "keyed_entry", "more_entries">>)
      [] OTHER -> Calls(q, <<"expr", "positional_entry", "more_entries">>)

Separators == {",", ";"}
MoreEntries(p) ==
    CASE Peek(p) \notin Separators -> p
      [] Peek(p) \in Separators /\ Peek2(p) = "}" -> Next(p)
      [] OTHER -> Calls(Next(p), <<"table_entry">>)

(* try_use_table_template: distinct names only, within the template pool *)
Distinct(names) == \A i, j \in DOMAIN names : names[i].name = names[j].name => i = j
UsesTemplate(p, t) ==
    /\ t.pure /\ t.fields > p.lim.inline /\ t.names # <<>>
    /\ Len(Func(p).templates) < p.lim.templates
    /\ Len(t.names) <= p.lim.tfields
    /\ Distinct(t.names)
AddTemplate(p, t) ==
    [p EXCEPT !.funcs[FuncAt(p)].templates =
        Append(@, [i \in DOMAIN t.names |-> t.names[i].name])]
PinItems(t) ==
    [j \in DOMAIN t.items |->
        [t.items[j] EXCEPT !.pinned = CHOOSE i \in DOMAIN t.names : t.names[i].item = j]]

TableNode(p, alloc, size, items) ==
    Replace(p, Node([e |-> "Table", alloc |-> alloc, size |-> size, items |-> items]))
FinishTable(p) ==
    LET t == Got(p)
        items == (IF t.i > 0 THEN Flush(t, t.i) ELSE t).items
        q == AddTemplate(p, t)
    IN  CASE t.tail -> TableNode(p, "NEW_TABLE_PRESIZED", t.keyed, Flush(t, Open(p.lim)).items)
          [] ~t.tail /\ UsesTemplate(p, t) ->
                 TableNode(q, "NEW_TABLE_TEMPLATE", Len(Func(q).templates), PinItems(t))
          [] ~t.tail /\ ~UsesTemplate(p, t) /\ t.fields > p.lim.inline /\ t.keyed > p.lim.cap ->
                 TableNode(p, "NEW_TABLE_PRESIZED", t.keyed, items)
          [] OTHER -> TableNode(p, "NEW_TABLE", 0, items)

ParseTable(p) ==
    CASE Peek(p) \in Separators -> Calls(Next(p), <<"table">>)
      [] Peek(p) = "}" -> Calls(Yield(p, NewConstructor), <<"}", "finish_table">>)
      [] OTHER -> Calls(Yield(p, NewConstructor), <<"table_entry", "}", "finish_table">>)

-----------------------------------------------------------------------------
(* Functions *)
Signature(params, vararg) == [params |-> params, vararg |-> vararg]
MoreParams(p) ==
    CASE Peek(p) # "," -> p
      [] Peek(p) = "," /\ Peek2(p) = "..." -> Replace(Next(Next(p)), Signature(Got(p).params, TRUE))
      [] OTHER -> Calls(Next(p), <<"variable", "param", "more_params">>)
AddParam(p) == Merge(p, [GotUnder(p) EXCEPT !.params = Append(@, Got(p))])
ParseParams(p) ==
    CASE Peek(p) = ")" -> Yield(p, Signature(<<>>, FALSE))
      [] Peek(p) = "..." -> Yield(Next(p), Signature(<<>>, TRUE))
      [] OTHER -> Calls(Yield(p, Signature(<<>>, FALSE)), <<"variable", "param", "more_params">>)

EnterFunction(p, params, vararg) ==
    FoldLeft(Declare, [p EXCEPT !.funcs = Append(@, NewFunc(Len(params), vararg))], params)

(* finish_chunk: the code is generated once every capture is known *)
StartGenerator(p) ==
    LET f == Func(p) IN
    IF f.loops # <<>> \/ f.blocks # <<>> THEN Fail(p, "internal")
    ELSE [Discard(p) EXCEPT !.gen = <<Generator([num_params |-> f.num_params, captured |-> f.decls,
                                                 stmts |-> Got(p)], p.lim)>>]
Chunk(f, g) ==
    [code |-> Code(g), max_stack |-> g.maxstack, num_params |-> f.num_params,
     num_locals |-> f.num_locals, vararg |-> f.vararg, strings |-> f.strings,
     numbers |-> f.numbers, nested |-> f.nested, templates |-> f.templates,
     upvalues |-> [i \in DOMAIN f.upvalues |-> f.upvalues[i].desc]]
FinishChunk(p) ==
    LET g == p.gen[1] IN
    IF g.err # "" THEN Fail(p, g.err) ELSE Yield([p EXCEPT !.gen = <<>>], Chunk(Func(p), g))

LeaveFunction(p) == [p EXCEPT !.funcs = Front(@)]
AddNested(p) ==
    Replace([p EXCEPT !.funcs[FuncAt(p)].nested = Append(@, Got(p))], Len(Func(p).nested) + 1)

ChunkCalls == <<"statements", "generate", "chunk">>
ParseFunctionBody(p, params, vararg) ==
    CASE Len(Func(p).nested) >= p.lim.nested -> Fail(p, "TooManyNestedFunctions")
      [] FuncAt(p) >= p.lim.chunks -> Fail(p, "TooManySyntaxLevels")
      [] Len(params) > p.lim.locals -> Fail(p, "TooManyLocals")
      [] OTHER -> Calls(EnterFunction(Discard(p), params, vararg), ChunkCalls \o <<"nested", "end">>)
ParseFndef(p, body) == Calls(p, <<"(", "params", ")", body>>)

-----------------------------------------------------------------------------
(* Statements *)
BlockFollow == {"else", "elseif", "end", "until", Eof}

ParseReturn(p) ==
    IF Peek(p) \in BlockFollow \cup {";"} THEN Calls(Yield(p, <<>>), <<"return_stmt">>)
                                         ELSE Calls(p, Append(Explist, "return_stmt"))
ReturnStatement(p) == TryPop(Replace(p, [s |-> "Return", values |-> Got(p)]), ";")

(* check_multi_assign: how many results the tail of a list has to supply *)
CheckMultiAssign(p, targets) ==
    LET values == Got(p)
        tail == targets - (Len(values) - 1)
    IN  Check(p, tail > 1 /\ values # <<>> /\ IsMulti(Last(values)) => tail <= p.lim.results,
              "TooManyFixedResults")

Place(p) ==
    IF IsPlace(Got(p)) THEN Replace(MarkGlobalWrite(p, PlaceGlobal(Got(p))), IntoPlace(Got(p)))
                       ELSE FailNear(p, "MalformedStatement")
MoreTargets(p) ==
    CASE Peek(p) # "," -> p
      [] Peek(p) = "," /\ Len(Got(p)) = p.lim.exprs -> Fail(p, "TooManyAssignmentTargets")
      [] OTHER -> Calls(Next(p), <<"prefix", "place", "gather", "more_targets">>)
AssignStmt(p) ==
    Merge(CheckMultiAssign(p, Len(GotUnder(p))),
          [s |-> "Assign", targets |-> GotUnder(p), values |-> Got(p)])
AssignOrCall(p) ==
    LET assigning == Peek(p) \in {"=", ","} IN
    CASE IsCall(Got(p)) = assigning -> FailNear(p, "MalformedStatement")
      [] IsCall(Got(p)) -> Replace(p, [s |-> "Call", x |-> IntoExpr(Got(p))])
      [] OTHER -> Calls(p, <<"place", "list", "more_targets", "=">> \o Explist \o <<"assign">>)

MoreNames(p) == IF Peek(p) = "," THEN Calls(Next(p), <<"variable", "gather", "more_names">>) ELSE p

(* The names come into scope after the values *)
LocalValues(p) ==
    IF Peek(p) = "=" THEN Calls(Next(p), Append(Explist, "locals")) ELSE Calls(Yield(p, <<>>), <<"locals">>)
LocalsStmt(p) ==
    FoldLeft(AddLocal,
             Merge(CheckMultiAssign(p, Len(GotUnder(p))),
                   [s |-> "Local", first |-> SlotCount(p), count |-> Len(GotUnder(p)), values |-> Got(p)]),
             GotUnder(p))

(* A local function is in its own scope *)
NameLocal(p) == AddLocal(Discard(p), Got(p))
LocalFunction(p) == Replace(p, [s |-> "LocalFunction", reg |-> SlotCount(p) - 1, nested |-> Got(p)])
ParseLocals(p) ==
    IF Peek(p) = "function" THEN Calls(Next(p), <<"variable", "name_local", "fndef", "local_function">>)
                            ELSE Calls(p, <<"variable", "list", "more_names", "local_values">>)

EnsureLocalCapacity(p, n) == Check(p, SlotCount(p) + n <= p.lim.locals, "TooManyLocals")
HiddenLocals == <<"", "", "">>
LoopSlot(p) == Last(Func(p).loops).slot

(* The parts of a loop below its body, its locals from the loop's slot on *)
ForStep(p) ==
    CASE Peek(p) = "," -> Calls(Next(p), <<"expr", "do">>)
      [] Peek(p) = "do" -> NumberLiteral(Next(p), Num(1))
      [] OTHER -> FailNear(p, "ExpectedToken")
EnterNumericFor(p) ==
    Calls(EnterLoop(FoldLeft(AddLocal, p, Append(HiddenLocals, p.out[Len(p.out) - 3])), SlotCount(p)),
          <<"statements", "end", "numeric_for">>)
NumericForStmt(p) ==
    LET n == Len(p.out) IN
    [ExitLoop(p) EXCEPT !.out = SubSeq(@, 1, n - 5) \o
        <<[s |-> "NumericFor", base |-> LoopSlot(p), start |-> p.out[n - 3], limit |-> p.out[n - 2],
           step |-> p.out[n - 1], body |-> p.out[n], body_close |-> LoopBodyCaptured(p),
           break_close |-> LoopClose(p), scope_close |-> None]>>]

GenericForRoom(p) == EnsureLocalCapacity(p, 3 + Len(Got(p)))
EnterGenericFor(p) ==
    Calls(FoldLeft(AddLocal, CheckMultiAssign(p, 3), HiddenLocals \o GotUnder(p)),
          <<"do", "generic_loop">>)
GenericLoop(p) ==
    Calls(EnterLoop(p, SlotCount(p) - 3 - Len(GotUnder(p))), <<"statements", "end", "generic_for">>)
GenericForStmt(p) ==
    LET n == Len(p.out) IN
    [ExitLoop(p) EXCEPT !.out = SubSeq(@, 1, n - 3) \o
        <<[s |-> "GenericFor", base |-> LoopSlot(p), vars |-> Len(p.out[n - 2]), exprs |-> p.out[n - 1],
           body |-> p.out[n], body_close |-> LoopBodyCaptured(p),
           break_close |-> LoopClose(p), scope_close |-> None]>>]

ForKind(p) ==
    CASE Peek(p) = "=" -> Calls(EnsureLocalCapacity(Next(p), 4),
                                <<"expr", ",", "expr", "for_step", "enter_numeric_for">>)
      [] Peek(p) \in {",", "in"} ->
             Calls(Listed(p), <<"more_names", "in", "generic_room">> \o Explist \o <<"enter_generic_for">>)
      [] OTHER -> FailNear(p, "ForSeparatorExpected")
ForScope(p) == LevelDown(Replace(p, [Got(p) EXCEPT !.scope_close = BlockClose(p)]))

BlockNode(p) == LevelDown(Replace(p, [stmts |-> Got(p), close |-> BlockClose(p)]))
DoStmt(p) == Replace(p, [s |-> "Do", block |-> Got(p)])

(* while and repeat close their body's locals only when there are any *)
LoopBodyClose(p) == IF SlotCount(p) > LoopSlot(p) /\ LoopBodyCaptured(p) THEN LoopSlot(p) ELSE None
LoopStmt(p, s, cond, body) ==
    LevelDown(ExitLoop(Merge(p, [s |-> s, cond |-> cond, body |-> body,
                                 body_close |-> LoopBodyClose(p),
                                 break_close |-> LoopClose(p),
                                 scope_close |-> BlockClose(p)])))
WhileLoop(p) == LoopStmt(p, "While", GotUnder(p), Got(p))
RepeatLoop(p) == LoopStmt(p, "Repeat", Got(p), GotUnder(p))

AddArm(p) ==
    Merge(Discard(p), [p.out[Len(p.out) - 2] EXCEPT
                          !.arms = Append(@, [cond |-> GotUnder(p), block |-> Got(p)])])
AddElse(p) == Merge(p, [GotUnder(p) EXCEPT !.orelse = <<Got(p)>>])
IfChain(p) ==
    Calls(Next(p), <<"expr", "then", "level_up", "statements", "block", "add_arm", "if_more">>)
IfMore(p) ==
    CASE Peek(p) = "elseif" -> IfChain(p)
      [] Peek(p) = "else" -> Calls(Next(LevelUp(p)), <<"statements", "end", "block", "add_else">>)
      [] OTHER -> Expect(p, "end")
ParseIf(p) ==
    Leveled(Yield(p, [s |-> "If", arms |-> <<>>, orelse |-> <<>>]), 1, <<"if_chain">>)

(* function a.b.c:m() *)
FunctionStatement(p) == Merge(p, [s |-> "Function", target |-> GotUnder(p), nested |-> Got(p)])
FieldPlace(p) == Merge(p, [p |-> "Field", object |-> GotUnder(p), name |-> Got(p)])
FieldObject(p) ==
    LET base == GotUnder(p)
        field == [k |-> "Field", name |-> Got(p)]
    IN  Merge(p, IF base.e = "Suffixed" THEN Suffixed(base.base, Append(base.suffixes, field))
                                        ELSE Suffixed(base, <<field>>))
PathField(p) ==
    IF Peek(p) \in {".", ":"} THEN Calls(FieldObject(p), <<"function_path">>)
                              ELSE Calls(FieldPlace(p), <<"fndef", "function_stmt">>)
MethodField(p) == Calls(FieldPlace(p), <<"method_def", "function_stmt">>)
FunctionPath(p) ==
    CASE Peek(p) = "." -> Calls(Next(p), <<"name", "name_index", "path_field">>)
      [] Peek(p) = ":" -> Calls(Next(p), <<"name", "name_index", "method_field">>)
      [] OTHER -> Calls(Replace(MarkGlobalWrite(p, GlobalRef(p)), PlaceOf(Got(p))),
                        <<"fndef", "function_stmt">>)

ParseStatement(p) ==
    LET k == Peek(p) IN
    CASE k \in {"id", "("} -> Calls(p, <<"prefix", "assign_or_call">>)
      [] k = "if" -> ParseIf(p)
      [] k = "while" ->
             Calls(LevelUp(Next(p)), <<"expr", "do", "enter_loop", "statements", "end", "while">>)
      [] k = "repeat" ->
             Calls(LevelUp(Next(p)), <<"enter_loop", "statements", "until", "expr", "repeat">>)
      [] k = "do" -> Calls(LevelUp(Next(p)), <<"statements", "end", "block", "do_stmt">>)
      [] k = "local" -> ParseLocals(Next(p))
      [] k = "for" -> Calls(Next(p), <<"variable", "level_up", "for_kind", "for_scope">>)
      [] k = "function" -> Calls(Next(p), <<"variable", "resolve", "function_path">>)
      [] k = "return" -> ParseReturn(Next(p))
StatementStart == {"id", "(", "if", "while", "repeat", "do", "local", "for", "function"}

MoreStatements(p) ==
    CASE Peek(p) = ";" -> Calls(Next(p), <<"more_statements">>)
      [] Peek(p) = "return" -> Calls(p, <<"statement", "gather">>)
      [] Peek(p) = "break" ->
             IF Func(p).loops = <<>> THEN Fail(p, "BreakOutsideLoop")
             ELSE Calls(Gather(Yield(Next(p), [s |-> "Break"])), <<"more_statements">>)
      [] Peek(p) \in StatementStart -> Calls(p, <<"statement", "gather", "more_statements">>)
      [] Peek(p) \in BlockFollow -> p
      [] OTHER -> Fail(p, "UnexpectedSymbol")

-----------------------------------------------------------------------------
(* One call of the agenda *)
OnOperator(p, call) ==
    CASE call = "expr" -> Leveled(p, 1, OrExp)
      [] call = "more_or" -> MoreOperands(p, "or", AndExp, call, "Or")
      [] call = "more_and" -> MoreOperands(p, "and", Comparison, call, "And")
      [] call = "more_comparison" -> MoreLinks(p, CompareOps, ConcatExp, call, "Compare")
      [] call = "more_concat" -> MoreConcat(p)
      [] call = "more_addition" -> MoreLinks(p, {"+", "-"}, Multiplication, call, "Arith")
      [] call = "more_multiplication" -> MoreLinks(p, {"*"}, <<"unary">>, call, "Arith")
      [] call = "unary" -> Leveled(p, 1, <<"unary_inner">>)
      [] call = "unary_inner" -> ParseUnaryInner(p)
      [] call = "chain" -> ChainStart(p)
      [] call = "link" -> ChainPush(p)
      [] call = "list" -> Replace(p, <<Got(p)>>)
      [] call = "gather" -> Merge(p, Append(GotUnder(p), Got(p)))
      [] call = "leave" -> LevelOut(p, 1)
      [] call = "leave_two" -> LevelOut(p, 2)
      [] call = "more_exprs" -> MoreExprs(p)
OperatorCalls ==
    {"expr", "more_or", "more_and", "more_comparison", "more_concat", "more_addition",
     "more_multiplication", "unary", "unary_inner", "chain", "link", "list", "gather", "leave",
     "leave_two", "more_exprs"}
OnPrimary(p, call) ==
    CASE call = "not" -> Replace(p, Node([e |-> "Not", x |-> Got(p)]))
      [] call = "len" -> Replace(p, Node([e |-> "Len", x |-> Got(p)]))
      [] call = "negate" -> Negate(p)
      [] call = "primary" -> ParsePrimary(p)
      [] call = "pow" -> ParsePow(p)
      [] call = "power" -> Power(p)
      [] call = "base" -> ParseExprBase(p)
      [] call = "closure" -> ClosureNode(p)
      [] call = "name" -> Name(p)
      [] call = "name_index" -> NameIndex(p)
      [] call = "variable" -> VariableName(p)
      [] call = "resolve" -> ResolveName(p)
      [] call = "prefix" -> ParsePrefixExp(p)
      [] call = "named_prefix" -> NamedPrefix(p)
      [] call = "paren_prefix" -> ParenPrefix(p)
      [] call = "suffixes" -> ParseSuffixes(p)
      [] call = "call_args" -> ParseCallArgs(p)
      [] call = "call_suffix" -> CallSuffix(p)
      [] call = "method_suffix" -> MethodSuffix(p)
      [] call = "field_suffix" -> FieldSuffix(p)
      [] call = "index_suffix" -> IndexSuffix(p)
      [] call = "into_expr" -> Replace(p, IntoExpr(Got(p)))
PrimaryCalls ==
    {"not", "len", "negate", "primary", "pow", "power", "base", "closure", "name", "name_index",
     "variable", "resolve", "prefix", "named_prefix", "paren_prefix", "suffixes", "call_args",
     "call_suffix", "method_suffix", "field_suffix", "index_suffix", "into_expr"}
OnStatement(p, call) ==
    CASE call = "statements" -> Leveled(Yield(p, <<>>), 1, <<"more_statements">>)
      [] call = "more_statements" -> MoreStatements(p)
      [] call = "statement" -> ParseStatement(p)
      [] call = "assign_or_call" -> AssignOrCall(p)
      [] call = "place" -> Place(p)
      [] call = "more_targets" -> MoreTargets(p)
      [] call = "assign" -> AssignStmt(p)
      [] call = "more_names" -> MoreNames(p)
      [] call = "local_values" -> LocalValues(p)
      [] call = "locals" -> LocalsStmt(p)
      [] call = "name_local" -> NameLocal(p)
      [] call = "local_function" -> LocalFunction(p)
      [] call = "function_path" -> FunctionPath(p)
      [] call = "path_field" -> PathField(p)
      [] call = "method_field" -> MethodField(p)
      [] call = "function_stmt" -> FunctionStatement(p)
      [] call = "return_stmt" -> ReturnStatement(p)
      [] call = "if_chain" -> IfChain(p)
      [] call = "if_more" -> IfMore(p)
      [] call = "add_arm" -> AddArm(p)
      [] call = "add_else" -> AddElse(p)
      [] call = "level_up" -> LevelUp(p)
      [] call = "block" -> BlockNode(p)
      [] call = "do_stmt" -> DoStmt(p)
StatementCalls ==
    {"statements", "more_statements", "statement", "assign_or_call", "place", "more_targets",
     "assign", "more_names", "local_values", "locals", "name_local", "local_function",
     "function_path", "path_field", "method_field", "function_stmt", "return_stmt", "if_chain",
     "if_more", "add_arm", "add_else", "level_up", "block", "do_stmt"}
OnLoopOrTable(p, call) ==
    CASE call = "enter_loop" -> EnterLoop(p, SlotCount(p))
      [] call = "while" -> WhileLoop(p)
      [] call = "repeat" -> RepeatLoop(p)
      [] call = "for_kind" -> ForKind(p)
      [] call = "for_step" -> ForStep(p)
      [] call = "enter_numeric_for" -> EnterNumericFor(p)
      [] call = "numeric_for" -> NumericForStmt(p)
      [] call = "generic_room" -> GenericForRoom(p)
      [] call = "enter_generic_for" -> EnterGenericFor(p)
      [] call = "generic_loop" -> GenericLoop(p)
      [] call = "generic_for" -> GenericForStmt(p)
      [] call = "for_scope" -> ForScope(p)
      [] call = "table" -> ParseTable(p)
      [] call = "table_entry" -> ParseTableEntry(p)
      [] call = "more_entries" -> MoreEntries(p)
      [] call = "named_entry" -> NamedEntry(p)
      [] call = "keyed_entry" -> KeyedEntry(p)
      [] call = "positional_entry" -> PositionalEntry(p)
      [] call = "finish_table" -> FinishTable(p)
      [] call = "fndef" -> ParseFndef(p, "function_body")
      [] call = "method_def" -> ParseFndef(p, "method_body")
      [] call = "params" -> ParseParams(p)
      [] call = "param" -> AddParam(p)
      [] call = "more_params" -> MoreParams(p)
      [] call = "function_body" -> ParseFunctionBody(p, Got(p).params, Got(p).vararg)
      [] call = "method_body" -> ParseFunctionBody(p, <<"self">> \o Got(p).params, Got(p).vararg)
      [] call = "generate" -> StartGenerator(p)
      [] call = "chunk" -> FinishChunk(p)
      [] call = "nested" -> AddNested(LeaveFunction(p))
LoopOrTableCalls ==
    {"enter_loop", "while", "repeat", "for_kind", "for_step", "enter_numeric_for", "numeric_for",
     "generic_room", "enter_generic_for", "generic_loop", "generic_for", "for_scope", "table",
     "table_entry", "more_entries", "named_entry", "keyed_entry", "positional_entry",
     "finish_table", "fndef", "method_def", "params", "param", "more_params", "function_body",
     "method_body", "generate", "chunk", "nested"}
Answer(p, call) ==
    CASE call \in OperatorCalls -> OnOperator(p, call)
      [] call \in PrimaryCalls -> OnPrimary(p, call)
      [] call \in StatementCalls -> OnStatement(p, call)
      [] call \in LoopOrTableCalls -> OnLoopOrTable(p, call)
      [] OTHER -> Expect(p, call)

(* parse: the main function takes varargs; the finished bytecode ends up on
   top, or err says why there is none *)
Parser(toks, lim) ==
    [toks |-> toks, pos |-> 1, funcs |-> <<NewFunc(0, TRUE)>>, depth |-> 0, globals |-> <<>>,
     out |-> <<>>, todo |-> Append(ChunkCalls, Eof), gen |-> <<>>, lim |-> lim, err |-> ""]
Parsed(p) == p.todo = <<>> \/ p.err # ""
ParseStep(p) ==
    CASE Parsed(p) -> p
      [] ~Parsed(p) /\ p.gen # <<>> /\ ~Generated(p.gen[1]) -> [p EXCEPT !.gen[1] = GenStep(@)]
      [] OTHER -> Answer([p EXCEPT !.todo = Tail(@)], Head(p.todo))
=============================================================================
