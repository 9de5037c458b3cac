----------------------------- MODULE LuaMeaning -----------------------------
(***************************************************************************)
(* The meaning of a source tree: what it emits and how it ends.  The state *)
(* s has the cells of variables, the scope (name to cell), tables,         *)
(* functions, globals, what was emitted, a stack of value lists (every     *)
(* expression pushes the list of its values) and the agenda of what is     *)
(* still to be evaluated, the next first.  Evaluation goes from left to    *)
(* right; end is "" until the program has ended.                           *)
(***************************************************************************)
EXTENDS RegisterCode, FiniteSets

(***************************************************************************)
(* Lua programs as trees over names: how a tree is written down as tokens, *)
(* and what it means, by evaluating the tree itself: variables are cells,  *)
(* operands are evaluated from left to right, and nothing is compiled.     *)
(* This is what the compiler and the register machine are held to.         *)
(***************************************************************************)

(* Expressions *)
Const(k) == [x |-> k]
N(n) == [x |-> "num", n |-> n]
S(a) == [x |-> "str", a |-> a]
V(name) == [x |-> "var", name |-> name]
Dots == [x |-> "..."]
CallX(f, args) == [x |-> "call", f |-> f, args |-> args]
MethodX(o, name, args) == [x |-> "method", o |-> o, name |-> name, args |-> args]
FieldX(o, name) == [x |-> "field", o |-> o, name |-> name]
IndexX(o, key) == [x |-> "index", o |-> o, key |-> key]
Fn(params, vararg, body) == [x |-> "fn", params |-> params, vararg |-> vararg, body |-> body]
TableX(items) == [x |-> "table", items |-> items]
Item(v) == [k |-> "item", v |-> v]
NamedItem(name, v) == [k |-> "named", name |-> name, v |-> v]
KeyedItem(key, v) == [k |-> "keyed", key |-> key, v |-> v]
Bin(op, l, r) == [x |-> "bin", op |-> op, l |-> l, r |-> r]
Un(op, e) == [x |-> "un", op |-> op, e |-> e]
Paren(e) == [x |-> "paren", e |-> e]

(* Statements *)
LocalS(names, values) == [s |-> "local", names |-> names, values |-> values]
LocalFn(name, fn) == [s |-> "localfn", name |-> name, fn |-> fn]
AssignS(targets, values) == [s |-> "assign", targets |-> targets, values |-> values]
FunctionS(target, method, fn) == [s |-> "function", target |-> target, method |-> method, fn |-> fn]
CallS(x) == [s |-> "call", e |-> x]
DoS(body) == [s |-> "do", body |-> body]
WhileS(cond, body) == [s |-> "while", cond |-> cond, body |-> body]
RepeatS(body, cond) == [s |-> "repeat", cond |-> cond, body |-> body]
Arm(cond, body) == [cond |-> cond, body |-> body]
IfS(arms, orelse) == [s |-> "if", arms |-> arms, orelse |-> orelse]
ForNum(name, start, limit, step, body) ==
    [s |-> "fornum", name |-> name, controls |-> <<start, limit>> \o step, body |-> body]
ForIn(names, values, body) == [s |-> "forin", names |-> names, values |-> values, body |-> body]
ReturnS(values) == [s |-> "return", values |-> values]
BreakS == [s |-> "break"]

-----------------------------------------------------------------------------
(* Writing a tree down, with the parentheses its precedences call for *)
Token(k, v) == [k |-> k, v |-> v]
T(k) == <<Token(k, "")>>
Id(name) == <<Token("id", name)>>

RECURSIVE Join(_, _)
Join(lists, sep) ==
    IF lists = <<>> THEN <<>>
    ELSE IF Len(lists) = 1 THEN lists[1] ELSE lists[1] \o T(sep) \o Join(Tail(lists), sep)

BinaryPrecedence(op) ==
    CASE op = "or" -> 1 [] op = "and" -> 2 [] op \in CompareOps -> 3 [] op = ".." -> 4
      [] op \in {"+", "-"} -> 5 [] op = "*" -> 6 [] op = "^" -> 8
Precedence(e) ==
    CASE e.x = "bin" -> BinaryPrecedence(e.op)
      [] e.x = "un" -> 7
      [] OTHER -> 9
LeftMin(op, p) == IF op = "^" THEN 9 ELSE IF op = ".." THEN p + 1 ELSE p
RightMin(op, p) == IF op = "^" THEN 7 ELSE IF op = ".." THEN p ELSE p + 1

RECURSIVE Write(_)
WriteAt(e, min) == IF Precedence(e) < min THEN T("(") \o Write(e) \o T(")") ELSE Write(e)
WritePrefix(e) ==
    IF e.x \in {"var", "call", "method", "field", "index", "paren"} THEN Write(e)
    ELSE T("(") \o Write(e) \o T(")")
WriteList(es) == Join([i \in DOMAIN es |-> Write(es[i])], ",")
WriteNames(names) == Join([i \in DOMAIN names |-> Id(names[i])], ",")
WriteArgs(args) == T("(") \o WriteList(args) \o T(")")
WriteStmts(body) == FoldLeft(LAMBDA toks, st : toks \o Write(st) \o T(";"), <<>>, body)
WriteFn(fn) ==
    T("(") \o Join([i \in DOMAIN fn.params |-> Id(fn.params[i])]
                       \o (IF fn.vararg THEN <<T("...")>> ELSE <<>>), ",")
        \o T(")") \o WriteStmts(fn.body) \o T("end")
WriteItem(it) ==
    CASE it.k = "item" -> Write(it.v)
      [] it.k = "named" -> Id(it.name) \o T("=") \o Write(it.v)
      [] it.k = "keyed" -> T("[") \o Write(it.key) \o T("]") \o T("=") \o Write(it.v)

WriteExpr(e) ==
    CASE e.x \in {"nil", "true", "false", "..."} -> T(e.x)
      [] e.x = "num" -> <<Token("num", Num(e.n))>>
      [] e.x = "str" -> <<Token("str", e.a)>>
      [] e.x = "var" -> Id(e.name)
      [] e.x = "call" -> WritePrefix(e.f) \o WriteArgs(e.args)
      [] e.x = "method" -> WritePrefix(e.o) \o T(":") \o Id(e.name) \o WriteArgs(e.args)
      [] e.x = "field" -> WritePrefix(e.o) \o T(".") \o Id(e.name)
      [] e.x = "index" -> WritePrefix(e.o) \o T("[") \o Write(e.key) \o T("]")
      [] e.x = "fn" -> T("function") \o WriteFn(e)
      [] e.x = "table" ->
             T("{") \o Join([i \in DOMAIN e.items |-> WriteItem(e.items[i])], ",") \o T("}")
      [] e.x = "bin" -> WriteAt(e.l, LeftMin(e.op, Precedence(e))) \o T(e.op)
                            \o WriteAt(e.r, RightMin(e.op, Precedence(e)))
      [] e.x = "un" -> T(e.op) \o WriteAt(e.e, 7)
      [] e.x = "paren" -> T("(") \o Write(e.e) \o T(")")

WriteArm(arm) == Write(arm.cond) \o T("then") \o WriteStmts(arm.body)
WriteStmt(st) ==
    CASE st.s = "local" ->
             T("local") \o WriteNames(st.names)
                 \o (IF st.values = <<>> THEN <<>> ELSE T("=") \o WriteList(st.values))
      [] st.s = "localfn" -> T("local") \o T("function") \o Id(st.name) \o WriteFn(st.fn)
      [] st.s = "assign" -> WriteList(st.targets) \o T("=") \o WriteList(st.values)
      [] st.s = "function" ->
             T("function")
                 \o (IF st.method THEN Write(st.target.o) \o T(":") \o Id(st.target.name)
                                  ELSE Write(st.target)) \o WriteFn(st.fn)
      [] st.s = "call" -> Write(st.e)
      [] st.s = "do" -> T("do") \o WriteStmts(st.body) \o T("end")
      [] st.s = "while" ->
             T("while") \o Write(st.cond) \o T("do") \o WriteStmts(st.body) \o T("end")
      [] st.s = "repeat" -> T("repeat") \o WriteStmts(st.body) \o T("until") \o Write(st.cond)
      [] st.s = "if" ->
             T("if") \o Join([i \in DOMAIN st.arms |-> WriteArm(st.arms[i])], "elseif")
                 \o (IF st.orelse = <<>> THEN <<>> ELSE T("else") \o WriteStmts(st.orelse))
                 \o T("end")
      [] st.s = "fornum" ->
             T("for") \o Id(st.name) \o T("=") \o WriteList(st.controls) \o T("do")
                 \o WriteStmts(st.body) \o T("end")
      [] st.s = "forin" ->
             T("for") \o WriteNames(st.names) \o T("in") \o WriteList(st.values) \o T("do")
                 \o WriteStmts(st.body) \o T("end")
      [] st.s = "return" -> T("return") \o WriteList(st.values)
      [] st.s = "break" -> T("break")

Write(tree) == IF "x" \in DOMAIN tree THEN WriteExpr(tree) ELSE WriteStmt(tree)

-----------------------------------------------------------------------------
(* The names a tree uses that no local declares, in the order of the text,
   and whether each use is a plain assignment to it *)
Use(name, kind, scope) == IF name \in scope THEN <<>> ELSE <<[name |-> name, kind |-> kind]>>

RECURSIVE Free(_, _)
FreeAll(trees, scope) == FoldLeft(LAMBDA uses, t : uses \o Free(t, scope), <<>>, trees)
Declared(st) ==
    CASE st.s = "local" -> Range(st.names) [] st.s = "localfn" -> {st.name} [] OTHER -> {}
ScopeAfter(stmts, i, scope) == scope \cup UNION {Declared(stmts[j]) : j \in 1 .. i}
FreeBody(stmts, scope) ==
    FlattenSeq([i \in DOMAIN stmts |-> Free(stmts[i], ScopeAfter(stmts, i - 1, scope))])
FreeFn(fn, implicit, scope) == FreeBody(fn.body, scope \cup implicit \cup Range(fn.params))
FreeItem(it, scope) ==
    (IF it.k = "keyed" THEN Free(it.key, scope) ELSE <<>>) \o Free(it.v, scope)
FreeTarget(target, scope) ==
    IF target.x = "var" THEN Use(target.name, "Write", scope) ELSE Free(target, scope)

FreeExpr(e, scope) ==
    CASE e.x = "var" -> Use(e.name, "Read", scope)
      [] e.x = "call" -> FreeAll(<<e.f>> \o e.args, scope)
      [] e.x = "method" -> FreeAll(<<e.o>> \o e.args, scope)
      [] e.x = "field" -> Free(e.o, scope)
      [] e.x = "index" -> FreeAll(<<e.o, e.key>>, scope)
      [] e.x = "fn" -> FreeFn(e, {}, scope)
      [] e.x = "table" -> FlattenSeq([i \in DOMAIN e.items |-> FreeItem(e.items[i], scope)])
      [] e.x = "bin" -> FreeAll(<<e.l, e.r>>, scope)
      [] e.x \in {"un", "paren"} -> Free(e.e, scope)
      [] OTHER -> <<>>
FreeStmt(st, scope) ==
    CASE st.s \in {"local", "return"} -> FreeAll(st.values, scope)
      [] st.s = "localfn" -> FreeFn(st.fn, {st.name}, scope)
      [] st.s = "assign" ->
             FlattenSeq([i \in DOMAIN st.targets |-> FreeTarget(st.targets[i], scope)])
                 \o FreeAll(st.values, scope)
      [] st.s = "function" ->
             FreeTarget(st.target, scope) \o FreeFn(st.fn, IF st.method THEN {"self"} ELSE {}, scope)
      [] st.s = "call" -> Free(st.e, scope)
      [] st.s = "do" -> FreeBody(st.body, scope)
      [] st.s = "while" -> Free(st.cond, scope) \o FreeBody(st.body, scope)
      [] st.s = "repeat" ->
             FreeBody(st.body, scope) \o Free(st.cond, ScopeAfter(st.body, Len(st.body), scope))
      [] st.s = "if" ->
             FlattenSeq([i \in DOMAIN st.arms |->
                            Free(st.arms[i].cond, scope) \o FreeBody(st.arms[i].body, scope)])
                 \o FreeBody(st.orelse, scope)
      [] st.s = "fornum" -> FreeAll(st.controls, scope) \o FreeBody(st.body, scope \cup {st.name})
      [] st.s = "forin" -> FreeAll(st.values, scope) \o FreeBody(st.body, scope \cup Range(st.names))
      [] st.s = "break" -> <<>>
Free(tree, scope) == IF "x" \in DOMAIN tree THEN FreeExpr(tree, scope) ELSE FreeStmt(tree, scope)
-----------------------------------------------------------------------------
(***************************************************************************)
(* Families of small programs for CompilerPipeline: every family varies    *)
(* one thing the compiler decides (which operands stay in their register,  *)
(* which scopes close, where a batch ends, how many results a tail gives), *)
(* under roomy limits; some under each limit in turn; and short bytecode   *)
(* that no compiler made.                                                  *)
(***************************************************************************)
Roomy ==
    [open |-> 20, jump |-> 60, depth |-> 40, locals |-> 9, upvalues |-> 4, literals |-> 12,
     exprs |-> 6, args |-> 6, results |-> 6, nested |-> 5, chunks |-> 4, batch |-> 2,
     inline |-> 2, cap |-> 2, templates |-> 2, tfields |-> 6, slots |-> 3, byte |-> 5]

Source(body, limits) ==
    [kind |-> "source", body |-> body, lim |-> limits, args |-> <<Num(7), Num(8)>>]

Emit(args) == CallS(CallX(V("emit"), args))
Local(name, e) == LocalS(<<name>>, <<e>>)
Set(target, e) == AssignS(<<target>>, <<e>>)
Thunk(body) == Fn(<<>>, FALSE, body)
Fun(name, params, vararg, body) == LocalFn(name, Fn(params, vararg, body))

-----------------------------------------------------------------------------
(* Operand order.  a is captured, and both a call of f and a read of the
   missing field t.x assign it; b is not captured *)
Assigns(v, result) == <<Set(V("a"), v), ReturnS(<<result>>)>>
Prelude ==
    <<LocalS(<<"a", "b">>, <<N(1), N(2)>>),
      Fun("f", <<>>, FALSE, Assigns(N(5), N(3))),
      Local("t", CallX(V("setmetatable"),
                      <<TableX(<<>>),
                        TableX(<<NamedItem("__index", Fn(<<"o", "k">>, FALSE, Assigns(N(6), N(4))))>>)>>))>>
F == CallX(V("f"), <<>>)
TX == FieldX(V("t"), "x")
Operands == {V("a"), V("b"), N(1), F, TX}
LeftOperands == Operands \cup {Bin("+", V("a"), N(0)), Un("-", V("a"))}
Ordered == {Bin(op, x, y) : op \in {"+", "<", ".."}, x \in LeftOperands, y \in Operands}
Shorted == {Bin(op, x, y) : op \in {"and", "or"}, x \in {V("a"), Const("nil"), F}, y \in {V("a"), F}}
Chains == {Bin("+", Bin("-", x, y), z) : x \in {V("a"), N(1)}, y \in {V("a"), N(2)}, z \in {F, N(3)}}
Folds == {Bin("*", N(0), Un("-", N(1))), Bin("..", Un("-", N(0)), N(0)),
          Bin("-", Bin("*", N(2), N(3)), Bin("^", N(2), N(2))),
          Un("-", Bin("^", N(2), N(2))), Un("not", Bin("==", V("a"), N(1)))}
OperandPrograms ==
    {Prelude \o <<Emit(<<e, V("a")>>)>> : e \in Ordered \cup Shorted \cup Chains \cup Folds}

(* Stores: objects, keys and values in order, the last target first *)
Targets == {V("a"), V("b"), V("g"), IndexX(V("t"), V("a")), FieldX(V("t"), "y")}
StorePrograms ==
    {Prelude \o <<Set(x, y), Emit(<<V("a"), V("b"), V("g"), IndexX(V("t"), N(1))>>)>> :
        x \in Targets, y \in {V("a"), F, Bin("+", V("a"), F)}}
    \cup {Prelude \o <<AssignS(<<x, y>>, vs), Emit(<<V("a"), V("b"), IndexX(V("t"), N(1))>>)>> :
             x \in {V("a"), IndexX(V("t"), V("a"))}, y \in {V("a"), V("b")},
             vs \in {<<V("b"), V("a")>>, <<F>>, <<N(8), F, V("a")>>}}
    \cup {Prelude \o <<Set(IndexX(V("t"), Const("nil")), N(1))>>,
          Prelude \o <<Set(FieldX(V("b"), "y"), F)>>}

(* Loops: what a turn declares is captured or not, left by break or not *)
Keep == Set(IndexX(V("r"), V("i")), Thunk(<<Set(V("x"), Bin("+", V("x"), N(1))), ReturnS(<<V("x")>>)>>))
Turn(captures, leaves) ==
    <<Local("x", V("i"))>> \o (IF captures THEN <<Keep>> ELSE <<>>)
        \o (IF leaves THEN <<IfS(<<Arm(Bin(">=", V("i"), N(2)), <<Emit(<<V("x")>>), BreakS>>)>>, <<>>)>>
                      ELSE <<>>)
Counting == Set(V("i"), Bin("+", V("i"), N(1)))
Iterator == Fn(<<"s", "c">>, FALSE,
                 <<IfS(<<Arm(Bin("<", V("c"), V("s")), <<ReturnS(<<Bin("+", V("c"), N(1)), V("c")>>)>>)>>,
                         <<>>)>>)
Loops(turn) ==
    {<<ForNum("i", N(1), N(3), <<>>, turn)>>,
     <<ForNum("i", N(3), N(1), <<Un("-", N(1))>>, turn)>>,
     <<ForIn(<<"i", "j">>, <<Iterator, N(3), N(0)>>, turn)>>,
     <<Local("i", N(0)), WhileS(Bin("<", V("i"), N(3)), <<Counting>> \o turn)>>,
     <<Local("i", N(0)), RepeatS(<<Counting>> \o turn, Bin(">=", V("x"), N(3)))>>}
CallKept == Emit(<<CallX(IndexX(V("r"), N(1)), <<>>), CallX(IndexX(V("r"), N(1)), <<>>),
                   CallX(IndexX(V("r"), N(2)), <<>>)>>)
LoopPrograms ==
    UNION {{<<Local("r", TableX(<<>>))>> \o loop \o (IF captures THEN <<CallKept>> ELSE <<>>) :
               loop \in Loops(Turn(captures, leaves))} : captures, leaves \in BOOLEAN}
    \cup {<<ForNum("i", x, N(2), <<>>, <<Emit(<<V("i")>>)>>)>> : x \in {S("q"), N(3)}}
    \cup {<<ForIn(<<"k">>, <<N(1)>>, <<>>)>>,
          <<ForNum("i", N(1), N(2), <<>>, <<ForNum("j", N(1), N(2), <<>>,
              <<DoS(<<Local("y", V("j")), Local("h", Thunk(<<ReturnS(<<V("y"), V("i")>>)>>)),
                        Emit(<<CallX(V("h"), <<>>)>>)>>), BreakS>>)>>)>>,
          <<WhileS(Const("true"), <<Local("y", N(1)), Local("h", Thunk(<<ReturnS(<<V("y")>>)>>)), BreakS>>),
            WhileS(Const("nil"), <<>>), RepeatS(<<>>, Const("true")), Emit(<<>>)>>}

(* Branches: each arm taken, with and without an else *)
IfProgram(n, orelse) ==
    <<Local("n", N(n)),
      IfS(<<Arm(Bin("==", V("n"), N(1)), <<Emit(<<N(1)>>)>>),
              Arm(Bin("and", Bin("==", V("n"), N(2)), V("n")), <<ReturnS(<<N(2)>>)>>)>>, orelse),
      Emit(<<V("n")>>)>>
BranchPrograms == {IfProgram(n, orelse) : n \in 1 .. 3, orelse \in {<<>>, <<Emit(<<N(3)>>)>>}}

(* Constructors: batches of two, keyed and named entries, an open tail *)
Entries == {Item(N(1)), NamedItem("x", N(2)), KeyedItem(Bin("..", V("a"), V("b")), F)}
Tails == {<<>>, <<Item(Dots)>>, <<Item(F)>>, <<Item(Paren(Dots))>>}
Shown(t) == <<Local("u", t), Emit(<<Un("#", V("u")), FieldX(V("u"), "x"), IndexX(V("u"), N(1)),
                                    IndexX(V("u"), N(3)), FieldX(V("u"), "z"),
                                    IndexX(V("u"), Bin("..", N(1), N(2)))>>)>>
Named(names) == TableX([i \in DOMAIN names |-> NamedItem(names[i], N(i))])
ConstructorPrograms ==
    {Prelude \o Shown(TableX(es \o tail)) : es \in {<<x, y>> : x, y \in Entries}, tail \in Tails}
    \cup {Shown(TableX([i \in 1 .. n |-> Item(N(i))] \o tail)) : n \in {0, 2, 4, 5}, tail \in {<<>>, <<Item(Dots)>>}}
    \cup {Shown(Named(names)) : names \in {<<"x", "y", "z">>, <<"x", "y", "x">>, <<"x", "z">>}}
    \cup {Prelude \o Shown(TableX(<<KeyedItem(V("a"), F), NamedItem("x", V("a"))>>))}
    \cup {Shown(TableX(<<KeyedItem(Const("nil"), N(1))>>))}

(* Calls: parameters and varargs, fixed and open results, tails, methods *)
Two == Fun("two", <<"p">>, TRUE, <<ReturnS(<<V("p"), Dots>>)>>)
Deep == Fun("deep", <<"n">>, TRUE,
            <<IfS(<<Arm(Bin("<", V("n"), N(2)),
                            <<ReturnS(<<CallX(V("deep"), <<Bin("+", V("n"), N(1)), V("n"), Dots>>)>>)>>)>>, <<>>),
              ReturnS(<<Dots>>)>>)
CallForms == {CallX(V("two"), <<>>), CallX(V("two"), <<Dots>>), CallX(V("two"), <<N(1), Dots>>),
              CallX(V("two"), <<CallX(V("two"), <<N(1), N(2)>>)>>), CallX(V("deep"), <<N(0)>>),
              Dots, CallX(V("b"), <<>>), CallX(V("setmetatable"), <<N(1)>>)}
CallUses(c) ==
    {<<Emit(<<c>>)>>, <<Emit(<<c, N(1)>>)>>, <<Emit(<<Paren(c), N(1)>>)>>, <<ReturnS(<<c>>)>>,
     <<ReturnS(<<N(1), c>>)>>, <<ReturnS(<<c, N(1)>>)>>,
     <<LocalS(<<"x", "y", "z">>, <<N(0), c>>), Emit(<<V("x"), V("y"), V("z")>>)>>,
     <<LocalS(<<"x">>, <<c, c>>), Emit(<<V("x")>>)>>, <<LocalS(<<"x", "y">>, <<>>), Emit(<<V("x")>>)>>}
Object ==
    <<Local("o", TableX(<<>>)),
      FunctionS(FieldX(V("o"), "m"), TRUE, Fn(<<"p">>, TRUE, <<ReturnS(<<Bin("==", V("self"), V("o")), V("p"), Dots>>)>>)),
      FunctionS(FieldX(V("o"), "s"), FALSE, Fn(<<>>, FALSE, <<ReturnS(<<N(1)>>)>>)),
      FunctionS(V("gl"), FALSE, Thunk(<<ReturnS(<<CallX(FieldX(V("o"), "s"), <<>>)>>)>>))>>
MethodForms == {MethodX(V("o"), "m", <<>>), MethodX(V("o"), "m", <<N(1), Dots>>),
                MethodX(V("o"), "q", <<>>), CallX(V("gl"), <<Const("false"), S("q")>>)}
Shadow ==
    <<Local("x", N(1)), Local("k", Thunk(<<ReturnS(<<V("x")>>)>>)), Local("x", N(2)),
      DoS(<<Local("x", N(3)), Local("m", Thunk(<<Set(V("x"), N(4)), ReturnS(<<Thunk(<<ReturnS(<<V("x")>>)>>)>>)>>)),
              Emit(<<CallX(CallX(V("m"), <<>>), <<>>), CallX(V("k"), <<>>), V("x")>>)>>),
      Set(V("k"), V("x")), FunctionS(V("x"), FALSE, Thunk(<<>>)),
      Emit(<<V("k"), CallX(V("x"), <<>>), Un("#", V("k"))>>)>>
CallPrograms ==
    UNION {{<<Two, Deep, Local("b", N(1))>> \o use : use \in CallUses(c)} : c \in CallForms}
    \cup {Object \o <<Emit(<<c>>), ReturnS(<<c>>)>> : c \in MethodForms}
    \cup {Shadow}

-----------------------------------------------------------------------------
(* One program that uses everything a limit counts, under each limit in turn *)
Rich ==
    <<LocalS(<<"a", "b">>, <<Dots>>),
      Fun("f", <<"p">>, TRUE, <<Set(V("a"), V("b")), ReturnS(<<Thunk(<<ReturnS(<<V("p")>>)>>), Dots>>)>>),
      Local("t", TableX(<<NamedItem("x", N(1)), NamedItem("y", N(2)), NamedItem("z", N(3))>>)),
      ForIn(<<"i">>, <<V("f"), N(4)>>, <<BreakS>>),
      Emit(<<Bin("..", FieldX(V("t"), "x"), V("a")), CallX(V("f"), <<N(1), V("g")>>)>>)>>
LimitPrograms ==
    UNION {{Source(Rich, [Roomy EXCEPT ![field] = n]) : n \in 0 .. (IF field \in {"depth", "jump", "open"} THEN 9 ELSE 4)} :
              field \in DOMAIN Roomy \ {"batch"}}

(* Three instructions of no compiler's making over three registers, the first
   a host function, ended by a return, called with one vararg and with none.
   The child captures register 0 *)
AllOf == Roomy.open
Alphabet ==
    {Instr("VARARG", a, n, 0) : a \in 0 .. 2, n \in {AllOf}} \cup {Instr("VARARG", 1, 2, 0)}
    \cup {Instr("CALL", 0, n, m) : n \in {1, AllOf}, m \in {0, 2, AllOf}} \cup {Instr("CALL", 2, 0, 1)}
    \cup {Instr("RETURN", a, AllOf, 0) : a \in 0 .. 2} \cup {Instr("TAILCALL", 0, AllOf, 0), Instr("TAILCALL", 0, 1, 0)}
    \cup {Instr("CLOSURE", 2, 1, 0), Instr("MOVE", 2, 0, 0), Instr("CLOSE", 0, 0, 0),
          [Instr("JMP", 0, 0, 0) EXCEPT !.sj = 1], Instr("SET_LIST", 1, AllOf, 0)}
Unit(code, nested, upvalues, params) ==
    [code |-> Append(code, Instr("RETURN", 0, 0, 0)), max_stack |-> 3, num_params |-> params, num_locals |-> 1,
     vararg |-> TRUE, strings |-> <<>>, numbers |-> <<>>, nested |-> nested, templates |-> <<>>,
     upvalues |-> upvalues, slots |-> <<0, 0, 0, 0>>]
Child == Unit(<<Instr("GET_UPVAL", 1, 1, 0), Instr("SET_UPVAL", 0, 1, 0)>>, <<>>, <<[at |-> "local", i |-> 0]>>, 0)
BytecodePrograms ==
    {[kind |-> "bytecode", body |-> Unit(<<x, y, z>>, <<Child>>, <<>>, 2), lim |-> Roomy,
      args |-> <<HostFn("emit"), Num(7)>> \o more] : x, y, z \in Alphabet, more \in {<<>>, <<Num(8)>>}}

SourcePrograms ==
    {Source(body, Roomy) : body \in OperandPrograms \cup StorePrograms \cup LoopPrograms \cup BranchPrograms
                                        \cup ConstructorPrograms \cup CallPrograms}
-----------------------------------------------------------------------------
Do(op, x) == [op |-> op, x |-> x]
Plan(s, calls) == [s EXCEPT !.todo = calls \o @]

Error(s) == [s EXCEPT !.end = "error"]
Values(s) == Last(s.out)
One(list) == IF list = <<>> THEN Nil ELSE list[1]
Value(s) == One(Values(s))
ValueUnder(s) == One(s.out[Len(s.out) - 1])
PushList(s, list) == [s EXCEPT !.out = Append(@, list)]
Pop(s) == [s EXCEPT !.out = Front(@)]

(* The n lists on top are replaced by one *)
Result(s, n, list) == [s EXCEPT !.out = Append(SubSeq(@, 1, Len(@) - n), list)]

(* A new variable, in scope from here on *)
Bind(s, name, v) ==
    [s EXCEPT !.cells = Append(@, v), !.scope = (name :> Len(s.cells) + 1) @@ @]
BindAll(s, names, values) ==
    FoldLeftDomain(LAMBDA t, i : Bind(t, names[i], IF i <= Len(values) THEN values[i] ELSE Nil),
                   s, names)

Lookup(s, name) ==
    CASE name \in DOMAIN s.scope -> s.cells[s.scope[name]]
      [] name \notin DOMAIN s.scope /\ name \in DOMAIN s.globals -> s.globals[name]
      [] OTHER -> Nil
SetVar(s, name, v) ==
    IF name \in DOMAIN s.scope THEN [s EXCEPT !.cells[s.scope[name]] = v]
    ELSE [s EXCEPT !.globals = (name :> v) @@ @]

Get(t, key) == IF KeyOf(key) \in DOMAIN t.map THEN t.map[KeyOf(key)] ELSE Nil
Put(t, key, v) ==
    [t EXCEPT !.map = IF v = Nil THEN [k \in DOMAIN @ \ {KeyOf(key)} |-> @[k]]
                                 ELSE (KeyOf(key) :> v) @@ @]
Size(t) == CHOOSE n \in 0 .. Cardinality(DOMAIN t.map) :
               Num(n + 1) \notin DOMAIN t.map /\ \A k \in 1 .. n : Num(k) \in DOMAIN t.map
StoreIn(s, object, key, v) ==
    IF object.t # "table" \/ key = Nil THEN Error(s)
    ELSE [s EXCEPT !.heap[object.i] = Put(@, key, v)]

-----------------------------------------------------------------------------
(* Expressions *)
E(e) == Do("eval", e)
ToOne == Do("one", 0)
EvalOne(e) == <<E(e), ToOne>>

(* One list: every expression gives one value, the last all of its own *)
EvalList(es) ==
    <<Do("push", <<>>)>> \o
        FlattenSeq([i \in DOMAIN es |->
                       (IF i = Len(es) THEN <<E(es[i])>> ELSE EvalOne(es[i])) \o <<Do("append", 0)>>])
Appended(s) == Result(s, 2, s.out[Len(s.out) - 1] \o Values(s))

(* Statements, and the scope they leave *)
Body(stmts) == [i \in DOMAIN stmts |-> Do("exec", stmts[i])]
Scope(s) == <<Do("scope", s.scope)>>
Block(s, stmts) == Body(stmts) \o Scope(s)

(* A function on top but one is applied to the list on top.  The caller's
   scope, varargs and values wait on the agenda *)
Caller(s) == Do("left", [scope |-> s.scope, varargs |-> s.varargs, out |-> s.out])
Enter(s, fn, args) ==
    Plan(BindAll([Pop(Pop(s)) EXCEPT !.scope = fn.scope,
                      !.varargs = IF fn.vararg THEN SubSeq(args, Len(fn.params) + 1, Len(args))
                                               ELSE <<>>],
                 fn.params, args),
         Body(fn.body) \o <<Do("push", <<>>), Caller(Pop(Pop(s)))>>)
Left(s, caller) ==
    [s EXCEPT !.scope = caller.scope, !.varargs = caller.varargs, !.out = Append(caller.out, Values(s))]
Next(s, op) == Min({i \in DOMAIN s.todo : s.todo[i].op = op})
Return(s) == [s EXCEPT !.todo = SubSeq(@, Next(s, "left"), Len(@))]
HostApply(s, h, args) ==
    CASE h = "emit" -> Result([s EXCEPT !.trace = Append(@, args)], 2, args)
      [] h = "setmetatable" ->
             IF Len(args) >= 2 /\ args[1].t = "table" /\ args[2].t \in {"nil", "table"}
             THEN Result([s EXCEPT !.heap[args[1].i].meta = IF args[2] = Nil THEN 0 ELSE args[2].i],
                         2, <<args[1]>>)
             ELSE Error(s)
Apply(s) ==
    LET f == ValueUnder(s) IN
    CASE f.t = "closure" -> Enter(s, s.fns[f.c], Values(s))
      [] f.t = "host" -> HostApply(s, f.h, Values(s))
      [] OTHER -> Error(s)

(* An object on top but one is indexed by the key on top *)
Handler(s, i) == IF s.heap[i].meta = 0 THEN Nil ELSE Get(s.heap[s.heap[i].meta], Atom("__index"))
Index(s) ==
    LET object == ValueUnder(s)
        v == Get(s.heap[object.i], Value(s))
    IN  IF object.t # "table" THEN Error(s)
        ELSE IF v = Nil /\ Handler(s, object.i).t = "closure"
        THEN Plan(PushList(Result(s, 2, <<Handler(s, object.i)>>), <<object, Value(s)>>),
                  <<Do("apply", 0), ToOne>>)
        ELSE Result(s, 2, <<v>>)

Arith(op, x, y) == IF x.t = "num" /\ y.t = "num" THEN <<ArithNum(op, x, y)>> ELSE <<>>
CompareValues(op, x, y) ==
    CASE op = "==" -> <<Bool(RawEq(x, y))>>
      [] op = "~=" -> <<Bool(~RawEq(x, y))>>
      [] OTHER -> IF x.t = "num" /\ y.t = "num"
                  THEN <<Bool(CASE op = "<" -> x.n < y.n [] op = "<=" -> x.n <= y.n
                                [] op = ">" -> x.n > y.n [] op = ">=" -> x.n >= y.n)>>
                  ELSE <<>>
ConcatValues(x, y) ==
    IF x.t \in {"num", "str"} /\ y.t \in {"num", "str"} THEN <<Str(Pieces(x) \o Pieces(y))>> ELSE <<>>

(* An operator gives one value, or none when its operands are of the wrong type *)
Operate(s, n, list) == IF list = <<>> THEN Error(s) ELSE Result(s, n, list)
Binary(s, op) ==
    Operate(s, 2, CASE op \in ArithOps -> Arith(op, ValueUnder(s), Value(s))
                    [] op \in CompareOps -> CompareValues(op, ValueUnder(s), Value(s))
                    [] op = ".." -> ConcatValues(ValueUnder(s), Value(s)))
Unary(s, op) ==
    LET x == Value(s) IN
    Operate(s, 1, CASE op = "not" -> <<Bool(~Truthy(x))>>
                    [] op = "-" -> IF x.t = "num" THEN <<NegNum(x)>> ELSE <<>>
                    [] op = "#" -> IF x.t = "table" THEN <<Num(Size(s.heap[x.i]))>> ELSE <<>>)
ShortCircuit(s, e) ==
    IF Truthy(Value(s)) = (e.op = "or") THEN s ELSE Plan(Pop(s), EvalOne(e.r))

(* The table under its items takes them in order; the last item, if it is a
   list, gives all of its values *)
PositionOf(items, i) == 1 + Len(SelectSeq(SubSeq(items, 1, i - 1), LAMBDA it : it.k = "item"))
ItemPlan(items, i) ==
    LET it == items[i] IN
    CASE it.k = "named" -> <<Do("push", <<Atom(it.name)>>)>> \o EvalOne(it.v) \o <<Do("put", 0)>>
      [] it.k = "keyed" -> EvalOne(it.key) \o EvalOne(it.v) \o <<Do("put", 0)>>
      [] it.k = "item" -> (IF i = Len(items) THEN <<E(it.v)>> ELSE EvalOne(it.v))
                              \o <<Do("put_list", PositionOf(items, i))>>
TableAt(s, depth) == One(s.out[Len(s.out) - depth])
PutItem(s) == StoreIn(Pop(Pop(s)), TableAt(s, 2), ValueUnder(s), Value(s))
PutList(s, at) ==
    Pop([s EXCEPT !.heap[TableAt(s, 1).i] =
            FoldLeftDomain(LAMBDA h, j : Put(h, Num(at + j - 1), Values(s)[j]), @, Values(s))])
NewTable(s, items) ==
    Plan(PushList([s EXCEPT !.heap = Append(@, [map |-> <<>>, meta |-> 0])],
                  <<TableRef(Len(s.heap) + 1)>>),
         FlattenSeq([i \in DOMAIN items |-> ItemPlan(items, i)]))

NewFunction(s, fn) ==
    PushList([s EXCEPT !.fns = Append(@, [params |-> fn.params, vararg |-> fn.vararg,
                                          body |-> fn.body, scope |-> s.scope])],
             <<ClosureRef(Len(s.fns) + 1)>>)

(* The receiver on top is also the first argument *)
CallMethod(s, e) ==
    Plan(s, <<Do("push", <<Atom(e.name)>>), Do("index", 0), Do("push", <<Value(s)>>)>>
                \o EvalList(e.args) \o <<Do("append", 0), Do("apply", 0)>>)

Eval(s, e) ==
    CASE e.x = "nil" -> PushList(s, <<Nil>>)
      [] e.x \in {"true", "false"} -> PushList(s, <<Bool(e.x = "true")>>)
      [] e.x = "num" -> PushList(s, <<Num(e.n)>>)
      [] e.x = "str" -> PushList(s, <<Atom(e.a)>>)
      [] e.x = "var" -> PushList(s, <<Lookup(s, e.name)>>)
      [] e.x = "..." -> PushList(s, s.varargs)
      [] e.x = "call" -> Plan(s, EvalOne(e.f) \o EvalList(e.args) \o <<Do("apply", 0)>>)
      [] e.x = "method" -> Plan(s, EvalOne(e.o) \o <<Do("method", e)>>)
      [] e.x = "field" -> Plan(s, EvalOne(e.o) \o <<Do("push", <<Atom(e.name)>>), Do("index", 0)>>)
      [] e.x = "index" -> Plan(s, EvalOne(e.o) \o EvalOne(e.key) \o <<Do("index", 0)>>)
      [] e.x = "fn" -> NewFunction(s, e)
      [] e.x = "table" -> NewTable(s, e.items)
      [] e.x = "bin" ->
             Plan(s, EvalOne(e.l) \o (IF e.op \in {"and", "or"} THEN <<Do("short", e)>>
                                      ELSE EvalOne(e.r) \o <<Do("binary", e.op)>>))
      [] e.x = "un" -> Plan(s, EvalOne(e.e) \o <<Do("unary", e.op)>>)
      [] e.x = "paren" -> Plan(s, EvalOne(e.e))

-----------------------------------------------------------------------------
(* Statements.  Assignment: the objects and keys of the targets, then the
   values, then the stores, the last target first *)
TargetOperands(target) ==
    CASE target.x = "field" -> EvalOne(target.o) \o <<Do("push", <<Atom(target.name)>>)>>
      [] target.x = "index" -> EvalOne(target.o) \o EvalOne(target.key)
      [] target.x = "var" -> <<>>
Assigned(s, target, v) ==
    IF target.x = "var" THEN SetVar(s, target.name, v)
    ELSE StoreIn(Pop(Pop(s)), ValueUnder(s), Value(s), v)
ValueAt(list, i) == IF i <= Len(list) THEN list[i] ELSE Nil
AssignTo(s, targets) ==
    Plan(Pop(s), [i \in DOMAIN targets |->
                     LET k == Len(targets) + 1 - i IN
                     Do("assign", [target |-> targets[k], value |-> ValueAt(Values(s), k)])])

(* Loops.  Each turn puts the next one on the agenda; a break drops the
   agenda up to the end of the innermost one *)
LoopEnd(s) == <<Do("loop_end", s.scope)>>
EndLoop(s, scope) == [s EXCEPT !.scope = scope]
Break(s) == [s EXCEPT !.todo = SubSeq(@, Next(s, "loop_end"), Len(@))]
WhileTurn(st) == EvalOne(st.cond) \o <<Do("while", st)>>
While(s, st) ==
    IF Truthy(Value(s)) THEN Plan(Pop(s), Block(s, st.body) \o WhileTurn(st)) ELSE Pop(s)

(* The condition of a repeat sees the locals of the body *)
RepeatTurn(s, st) == Body(st.body) \o EvalOne(st.cond) \o Scope(s) \o <<Do("repeat", st)>>
Repeat(s, st) == IF Truthy(Value(s)) THEN Pop(s) ELSE Plan(Pop(s), RepeatTurn(s, st))

Continues(var, limit, step) == (step > 0 /\ var <= limit) \/ (step < 0 /\ var >= limit)
Count(s, c) ==
    IF ~Continues(c.var.n, c.limit.n, c.step.n) THEN s
    ELSE Plan(Bind(s, c.st.name, c.var),
              Block(s, c.st.body) \o <<Do("count", [c EXCEPT !.var = ArithNum("+", c.var, c.step)])>>)
ForRange(s, st) ==
    LET c == Append(Values(s), Num(1)) IN
    IF \E i \in 1 .. 3 : c[i].t # "num" THEN Error(s)
    ELSE Plan(Pop(s), <<Do("count", [st |-> st, var |-> c[1], limit |-> c[2], step |-> c[3]])>>)

(* The iterator, state and control are the list c *)
IterateTurn(st, c) == <<Do("push", <<c[1]>>), Do("push", <<c[2], c[3]>>), Do("apply", 0),
                        Do("iterate", [st |-> st, c |-> c])>>
Iterate(s, st, c) ==
    IF Value(s) = Nil THEN Pop(s)
    ELSE Plan(BindAll(Pop(s), st.names, Values(s)),
              Block(s, st.body) \o IterateTurn(st, <<c[1], c[2], Value(s)>>))
ForEach(s, st) == Plan(Pop(s), IterateTurn(st, [i \in 1 .. 3 |-> ValueAt(Values(s), i)]))

Arms(s, st) ==
    IF st.arms = <<>> THEN Plan(s, Block(s, st.orelse))
    ELSE Plan(s, EvalOne(st.arms[1].cond) \o <<Do("arm", st)>>)
ArmTaken(s, st) ==
    IF Truthy(Value(s)) THEN Plan(Pop(s), Block(s, st.arms[1].body))
                        ELSE Arms(Pop(s), [st EXCEPT !.arms = Tail(@)])

(* A method's function has the receiver as its first parameter *)
Method(fn) == [fn EXCEPT !.params = <<"self">> \o @]
LocalFunction(s, st) ==
    LET t == NewFunction(Bind(s, st.name, Nil), st.fn) IN SetVar(Pop(t), st.name, Value(t))

Exec(s, st) ==
    CASE st.s = "local" -> Plan(s, EvalList(st.values) \o <<Do("bind", st.names)>>)
      [] st.s = "localfn" -> LocalFunction(s, st)
      [] st.s = "assign" ->
             Plan(s, FlattenSeq([i \in DOMAIN st.targets |-> TargetOperands(st.targets[i])])
                         \o EvalList(st.values) \o <<Do("assign_to", st.targets)>>)
      [] st.s = "function" ->
             Plan(s, TargetOperands(st.target)
                         \o <<E(IF st.method THEN Method(st.fn) ELSE st.fn), Do("assign_to", <<st.target>>)>>)
      [] st.s = "call" -> Plan(s, <<E(st.e), Do("drop", 0)>>)
      [] st.s = "do" -> Plan(s, Block(s, st.body))
      [] st.s = "while" -> Plan(s, WhileTurn(st) \o LoopEnd(s))
      [] st.s = "repeat" -> Plan(s, RepeatTurn(s, st) \o LoopEnd(s))
      [] st.s = "if" -> Arms(s, st)
      [] st.s = "fornum" ->
             Plan(s, EvalList([i \in DOMAIN st.controls |-> Paren(st.controls[i])])
                         \o <<Do("for_range", st)>> \o LoopEnd(s))
      [] st.s = "forin" -> Plan(s, EvalList(st.values) \o <<Do("for_each", st)>> \o LoopEnd(s))
      [] st.s = "return" -> Plan(s, EvalList(st.values) \o <<Do("return", 0)>>)
      [] st.s = "break" -> Break(s)

-----------------------------------------------------------------------------
(* One item of the agenda *)
OnExpr(s, c) ==
    CASE c.op = "eval" -> Eval(s, c.x)
      [] c.op = "one" -> Result(s, 1, <<Value(s)>>)
      [] c.op = "push" -> PushList(s, c.x)
      [] c.op = "append" -> Appended(s)
      [] c.op = "apply" -> Apply(s)
      [] c.op = "left" -> Left(s, c.x)
      [] c.op = "index" -> Index(s)
      [] c.op = "method" -> CallMethod(s, c.x)
      [] c.op = "short" -> ShortCircuit(s, c.x)
      [] c.op = "binary" -> Binary(s, c.x)
      [] c.op = "unary" -> Unary(s, c.x)
      [] c.op = "put" -> PutItem(s)
      [] c.op = "put_list" -> PutList(s, c.x)
OnStatement(s, c) ==
    CASE c.op = "exec" -> Exec(s, c.x)
      [] c.op = "drop" -> Pop(s)
      [] c.op = "bind" -> BindAll(Pop(s), c.x, Values(s))
      [] c.op = "assign_to" -> AssignTo(s, c.x)
      [] c.op = "assign" -> Assigned(s, c.x.target, c.x.value)
      [] c.op = "scope" -> [s EXCEPT !.scope = c.x]
      [] c.op = "loop_end" -> EndLoop(s, c.x)
      [] c.op = "while" -> While(s, c.x)
      [] c.op = "repeat" -> Repeat(s, c.x)
      [] c.op = "for_range" -> ForRange(s, c.x)
      [] c.op = "count" -> Count(s, c.x)
      [] c.op = "for_each" -> ForEach(s, c.x)
      [] c.op = "iterate" -> Iterate(s, c.x.st, c.x.c)
      [] c.op = "arm" -> ArmTaken(s, c.x)
      [] c.op = "return" -> Return(s)
      [] c.op = "end" -> [s EXCEPT !.end = "ok"]
ExprOps == {"eval", "one", "push", "append", "apply", "left", "index", "method", "short", "binary",
            "unary", "put", "put_list"}
MeaningStep(s) ==
    IF s.end # "" THEN s
    ELSE LET c == Head(s.todo)
             t == [s EXCEPT !.todo = Tail(@)]
         IN  IF c.op \in ExprOps THEN OnExpr(t, c) ELSE OnStatement(t, c)

(* The main function returns its values to whoever called it *)
Start(body, args, globals) ==
    [scope |-> <<>>, cells |-> <<>>, heap |-> <<>>, fns |-> <<>>, globals |-> globals,
     trace |-> <<>>, varargs |-> args, out |-> <<>>, end |-> "",
     todo |-> Body(body) \o <<Do("push", <<>>), Do("left", [scope |-> <<>>, varargs |-> <<>>, out |-> <<>>]),
                              Do("end", 0)>>]
Outcome(s) ==
    [trace |-> s.trace, outcome |-> <<s.end, IF s.end = "error" THEN <<>> ELSE Values(s)>>]
=============================================================================
