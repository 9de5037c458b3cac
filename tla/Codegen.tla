------------------------------ MODULE Codegen ------------------------------
(***************************************************************************)
(* The code generator of src/src/compiler/codegen.rs, over the tree of     *)
(* src/src/compiler/ast.rs.                                                *)
(*                                                                         *)
(* A generator g is the record of the Generator struct: the code so far,   *)
(* the register discipline (freereg, nactive, maxstack), the captured      *)
(* flags of the function's local declarations, the open loops, and the     *)
(* first error.  The value descriptors that the code holds in Rust locals  *)
(* while it generates the next operand are the stack g.vals.               *)
(*                                                                         *)
(* The recursive calls of the code are an agenda: g.todo lists the calls   *)
(* still to make, and a tree is generated by putting the calls its         *)
(* generator makes, in their order, at the front.                          *)
(***************************************************************************)
EXTENDS RegisterCode, FiniteSets

(* Expr::is_multi: the expressions that can have any number of values *)
IsMulti(e) ==
    \/ e.e = "Vararg"
    \/ e.e = "Suffixed" /\ Last(e.suffixes).k \in {"Call", "Method"}

(* ExprKind::may_execute: whether evaluating the node can run Lua code *)
MayExecute(e) ==
    CASE e.e = "Len" -> TRUE
      [] e.e = "Suffixed" -> TRUE
      [] e.e \in {"Arith", "Compare"} -> e.first.exec \/ \E i \in DOMAIN e.rest : e.rest[i].rhs.exec
      [] e.e \in {"Concat", "And", "Or"} -> \E i \in DOMAIN e.operands : e.operands[i].exec
      [] e.e \in {"Paren", "Not", "Neg"} -> e.x.exec
      [] e.e = "Pow" -> e.x.exec \/ e.exponent.exec
      [] e.e = "Table" -> \E i \in DOMAIN e.items :
                              \/ e.items[i].k # "Flush" /\ e.items[i].value.exec
                              \/ e.items[i].k = "Keyed" /\ e.items[i].key.exec
      [] OTHER -> FALSE

(* Expr::new *)
Node(e) == e @@ [exec |-> MayExecute(e)]

-----------------------------------------------------------------------------
(* Value descriptors: constants not in a register yet, a local in its own
   register, a temporary, or an instruction whose destination or result count
   is still open *)
Desc(d, x) == [d |-> d, x |-> x]
Constants == {"Nil", "True", "False", "Num", "Str"}

Top(g) == Last(g.vals)
Under(g) == g.vals[Len(g.vals) - 1]
Push(g, v) == [g EXCEPT !.vals = Append(@, v)]
Drop(g) == [g EXCEPT !.vals = Front(@)]
SetTop(g, v) == [g EXCEPT !.vals[Len(g.vals)] = v]

Fault(g, e) == IF g.err = "" THEN [g EXCEPT !.err = e] ELSE g

(* A debug assertion of the generator *)
DebugAssert(g, holds) == IF holds THEN g ELSE Fault(g, "assertion")

Emit(g, ins) == [g EXCEPT !.code = Append(@, ins)]
PushEmit(g, d, ins) == Push(Emit(g, ins), Desc(d, Len(g.code) + 1))
PushReloc(g, ins) == PushEmit(g, "Reloc", ins)
Here(g) == Len(g.code) + 1

ReserveOneMore(g, n) ==
    IF g.freereg + n <= Open(g.lim)
    THEN [g EXCEPT !.freereg = @ + n,
                   !.maxstack = IF g.freereg + n > @ THEN g.freereg + n ELSE @]
    ELSE Fault(g, "TooManyRegisters")
Reserve(g, n) ==
    IF g.freereg + n < Open(g.lim)
    THEN [g EXCEPT !.freereg = @ + n,
                   !.maxstack = IF g.freereg + n > @ THEN g.freereg + n ELSE @]
    ELSE Fault(g, "TooManyRegisters")

FreeReg(g, reg) ==
    IF reg < g.nactive THEN g
    ELSE [DebugAssert(g, reg + 1 = g.freereg) EXCEPT !.freereg = reg]

FreeVal(g, v) == IF v.d = "Reg" THEN FreeReg(g, v.x) ELSE g

(* Both temporaries, the higher first *)
FreeTwo(g, v, w) ==
    IF v.d = "Reg" /\ w.d = "Reg" /\ v.x > w.x
    THEN FreeVal(FreeVal(g, v), w) ELSE FreeVal(FreeVal(g, w), v)

(* A call or a vararg on top becomes the register of its one result *)
Discharge(g) ==
    LET v == Top(g) IN
    CASE v.d = "Call" -> SetTop([g EXCEPT !.code[v.x].c = 1], Desc("Reg", g.code[v.x].a))
      [] v.d = "Vararg" -> SetTop([g EXCEPT !.code[v.x].b = 1], Desc("Reg", g.code[v.x].a))
      [] OTHER -> g

(* The settled value v ends up in register dst *)
DischargeInto(g, v, dst) ==
    CASE v.d = "Nil" -> Emit(g, Instr("LOAD_NIL", dst, 1, 0))
      [] v.d \in {"True", "False"} ->
             Emit(g, Instr("LOAD_BOOL", dst, IF v.d = "True" THEN 1 ELSE 0, 0))
      [] v.d = "Num" -> Emit(g, Instr("LOAD_NUM", dst, v.x, 0))
      [] v.d = "Str" -> Emit(g, Instr("LOAD_STR", dst, v.x, 0))
      [] v.d \in {"Local", "Reg"} -> IF v.x = dst THEN g ELSE Emit(g, Instr("MOVE", dst, v.x, 0))
      [] v.d = "Reloc" -> [g EXCEPT !.code[v.x].a = dst]

(* The settled value on top goes to dst, and leaves the descriptor stack *)
Settle(g, dst) == Drop(DischargeInto(FreeVal(g, Top(g)), Top(g), dst))

ToNextReg(g) ==
    SetTop(DischargeInto(Reserve(g, 1), Top(g), g.freereg), Desc("Reg", g.freereg))
FreeTop(g) == FreeVal(g, Top(g))
NextReg(g) == ToNextReg(FreeTop(Discharge(g)))

SettledAnyReg(g) ==
    IF Top(g).d \in {"Local", "Reg"} THEN SetTop(g, Desc("Reg", Top(g).x)) ELSE NextReg(g)
AnyReg(g) == SettledAnyReg(Discharge(g))

Captured(g, v) == g.captured[v.id]

(* An operand that stays put while a later one is evaluated: a captured
   local is copied when the later one can run code that assigns it *)
OperandInPlace(g, laterMayExecute) == IF Top(g).d \in Constants \cup {"Local"} THEN g ELSE AnyReg(g)
OperandBefore(g, laterMayExecute) ==
    CASE Top(g).d = "Local" -> IF laterMayExecute /\ Captured(g, Top(g)) THEN NextReg(g) ELSE g
      [] Top(g).d \in Constants -> g
      [] OTHER -> AnyReg(g)

OperandReg(g) == IF Top(g).d \in {"Local", "Reg"} THEN g ELSE NextReg(g)

(* A multi-value tail on top gets its result count *)
SetReturns(g, want) ==
    LET v == Top(g)
        h == [Drop(g) EXCEPT !.freereg = g.code[v.x].a,
                             !.code[v.x] = IF v.d = "Call" THEN [@ EXCEPT !.c = want]
                                                           ELSE [@ EXCEPT !.b = want]]
    IN  IF v.d \notin {"Call", "Vararg"} THEN Fault(Drop(g), "internal")
        ELSE IF want = Open(g.lim) THEN h ELSE Reserve(h, want)

JumpOffset(pc, target) == target - (pc + 1)

(* patch, patch_here: the jumps at pcs go to target *)
Patch(g, pcs, target) ==
    IF \E pc \in pcs : JumpOffset(pc, target) \notin -g.lim.jump .. g.lim.jump
    THEN Fault(g, "JumpTooFar")
    ELSE [g EXCEPT !.code = [pc \in DOMAIN @ |-> IF pc \in pcs
                                                 THEN [@[pc] EXCEPT !.sj = JumpOffset(pc, target)]
                                                 ELSE @[pc]]]
PatchHere(g, pcs) == Patch(g, pcs, Here(g))

-----------------------------------------------------------------------------
(* The agenda *)
Do(op, x) == [op |-> op, x |-> x]
Plan(g, calls) == [g EXCEPT !.todo = calls \o @]

E(e) == Do("expr", e)
Discharged == Do("discharge", 0)
ToAnyReg == Do("any_reg", 0)
ToReg == Do("to_reg", 0)
Operand == Do("operand_reg", 0)
Before(exec) == Do("operand_before", exec)
Land == Do("land", 0)

SwapTop(g) == [g EXCEPT !.vals = Front(Front(@)) \o <<Last(@), @[Len(@) - 1]>>]
DropTwo(g) == Drop(Drop(g))

(* NOT, LEN, UNM and GET_FIELD: one register in, the instruction out *)
FromReg(g, op, c) == PushReloc(Drop(FreeTop(g)), Instr(op, 0, Top(g).x, c))

(* The two operands on top are read by one instruction *)
FromTwo(g, op, f) ==
    PushReloc(FreeTwo(DropTwo(g), Under(g), Top(g)), OpInstr(op, f, 0, Under(g).x, Top(g).x))

(* arith: number constants stay in the pool, but not on both sides *)
ArithRhs(g) == IF Top(g).d = "Num" THEN g ELSE AnyReg(g)
ArithLhs(g) == IF Under(g).d = "Num" /\ Top(g).d = "Reg" THEN g
               ELSE SwapTop(OperandReg(SwapTop(g)))
ArithForm(g) == CASE Under(g).d = "Num" -> "ARITH_KR"
                  [] Top(g).d = "Num" -> "ARITH_RK"
                  [] OTHER -> "ARITH_RR"
EmitArith(g, f) == FromTwo(g, ArithForm(g), f)
Arith(g, f) == EmitArith(ArithLhs(ArithRhs(Discharge(g))), f)
ArithLink(link) == <<Before(link.rhs.exec), E(link.rhs), Do("arith", link.op)>>

(* Left operand in a register that survives the right one, then the right *)
TwoRegs(laterMayExecute, e) == <<Before(laterMayExecute), Operand, E(e), ToAnyReg>>
CompareLink(link) == TwoRegs(link.rhs.exec, link.rhs) \o <<Do("compare", link.op)>>

ArithPlan(e) == <<E(e.first)>> \o FlattenSeq([i \in DOMAIN e.rest |-> ArithLink(e.rest[i])])
ComparePlan(first, rest) == <<E(first)>> \o FlattenSeq([i \in DOMAIN rest |-> CompareLink(rest[i])])

(* The exits collected on top of the descriptor stack *)
Exits(g) == Push(g, Desc("Jumps", {}))
AddExit(g, ins) == [Emit(g, ins) EXCEPT !.vals[Len(g.vals)].x = @ \cup {Here(g)}]
LandHere(g) == Drop(PatchHere(g, Top(g).x))

(* Each operand ends in dst; all but the last may leave with it *)
LogicalOperand(operands, i, test, dst) ==
    <<E(operands[i]), Discharged, Do("settle", dst)>>
        \o (IF i < Len(operands) THEN <<Do("exit", Instr(test, dst, 0, 0))>> ELSE <<>>)
Logical(g, operands, test) ==
    Plan(Exits(Reserve(g, 1)),
         FlattenSeq([i \in DOMAIN operands |-> LogicalOperand(operands, i, test, g.freereg)])
             \o <<Land, Do("push", Desc("Reg", g.freereg))>>)

ValueToReg(e) == <<E(e), ToReg>>
ValuesToRegs(es) == FlattenSeq([i \in DOMAIN es |-> ValueToReg(es[i])])

(* The arguments above the callee; their count, or open, ends up on top *)
CallArgs(args, implicit) ==
    IF args # <<>> /\ IsMulti(Last(args))
    THEN ValuesToRegs(Front(args)) \o <<E(Last(args)), Do("open_args", 0)>>
    ELSE ValuesToRegs(args) \o <<Do("push", Desc("Args", Len(args) + implicit))>>

(* Callee and argument count on top *)
EmitCall(g, method) ==
    LET base == Under(g).x IN
    Reserve([PushEmit(DropTwo(g), "Call", WithD(Instr("CALL", base, Top(g).x, 1), method))
                EXCEPT !.freereg = base], 1)

(* SELF takes two registers, the receiver's own first if it was temporary *)
EmitSelf(g, name) ==
    LET h == FreeTop(g) IN
    SetTop(Emit(Reserve(h, 2), Instr("SELF", h.freereg, Top(g).x, name)), Desc("Reg", h.freereg))

SuffixPlan(s) ==
    CASE s.k = "Field" -> <<ToAnyReg, Do("field", s.name)>>
      [] s.k = "Index" -> TwoRegs(s.key.exec, s.key) \o <<Do("get_table", 0)>>
      [] s.k = "Call" -> <<Do("next_reg", 0)>> \o CallArgs(s.args, 0) \o <<Do("call", 0)>>
      [] s.k = "Method" -> <<ToAnyReg, Do("self", s.name)>> \o CallArgs(s.args, 1) \o <<Do("call", 1)>>

(* A constructor's table is in reg while its items are generated *)
OpenTail(items, i, lim) ==
    /\ IsMulti(items[i].value)
    /\ i < Len(items) /\ items[i + 1].k = "Flush" /\ items[i + 1].count = Open(lim)
ItemPlan(items, i, reg, lim) ==
    LET it == items[i] IN
    CASE it.k = "Positional" ->
             IF OpenTail(items, i, lim) THEN <<E(it.value), Do("returns", Open(lim))>>
                                        ELSE ValueToReg(it.value)
      [] it.k = "Named" -> <<E(it.value), ToAnyReg, Do("init_field", [item |-> it, reg |-> reg])>>
      [] it.k = "Keyed" -> <<E(it.key)>> \o TwoRegs(it.value.exec, it.value) \o <<Do("init_index", reg)>>
      [] it.k = "Flush" -> <<Do("set_list", [item |-> it, reg |-> reg])>>
InitField(g, it, reg) ==
    IF it.pinned = 0 THEN Instr("INIT_FIELD", reg, it.name, Top(g).x)
                     ELSE WithD(Instr("INIT_FIELD_PINNED", reg, it.name, Top(g).x), it.pinned)
SetList(g, it, reg) ==
    [Emit(g, Instr("SET_LIST", reg, it.count, it.batch)) EXCEPT !.freereg = reg + 1]
Constructor(g, e) ==
    Plan(Emit(Reserve(g, 1), Instr(e.alloc, g.freereg, e.size, 0)),
         FlattenSeq([i \in DOMAIN e.items |-> ItemPlan(e.items, i, g.freereg, g.lim)])
             \o <<Do("push", Desc("Reg", g.freereg))>>)

(* The operands' registers are free again once CONCAT has read them *)
Concat(g, base, n) == PushReloc([g EXCEPT !.freereg = base], Instr("CONCAT", 0, base, n))

UnaryOp(e) == CASE e.e = "Not" -> "NOT" [] e.e = "Len" -> "LEN" [] e.e = "Neg" -> "UNM"

(* expr: pushes one descriptor *)
Expr(g, e) ==
    CASE e.e \in {"Nil", "True", "False"} -> Push(g, Desc(e.e, 0))
      [] e.e \in {"Num", "Str"} -> Push(g, Desc(e.e, e.i))
      [] e.e = "Local" -> Push(g, Desc("Local", e.reg) @@ [id |-> e.id])
      [] e.e = "Vararg" -> PushEmit(Reserve(g, 1), "Vararg", Instr("VARARG", g.freereg, 1, 0))
      [] e.e \in {"GET_UPVAL", "GET_GLOBAL", "GET_BUILTIN", "CLOSURE"} ->
             PushReloc(g, Instr(e.e, 0, e.i, 0))
      [] e.e = "Table" -> Constructor(g, e)
      [] e.e = "Suffixed" ->
             Plan(g, <<E(e.base)>> \o FlattenSeq([i \in DOMAIN e.suffixes |-> SuffixPlan(e.suffixes[i])]))
      [] e.e = "Paren" -> Plan(g, <<E(e.x), Discharged>>)
      [] e.e = "Arith" -> Plan(g, ArithPlan(e))
      [] e.e = "Pow" -> Plan(g, <<E(e.x)>> \o ArithLink([op |-> "^", rhs |-> e.exponent]))
      [] e.e = "Concat" ->
             Plan(g, ValuesToRegs(e.operands)
                         \o <<Do("concat", [base |-> g.freereg, n |-> Len(e.operands)])>>)
      [] e.e = "Compare" -> Plan(g, ComparePlan(e.first, e.rest))
      [] e.e \in {"And", "Or"} ->
             Logical(g, e.operands, IF e.e = "Or" THEN "TEST_TRUE" ELSE "TEST_FALSE")
      [] e.e \in {"Not", "Len", "Neg"} -> Plan(g, <<E(e.x), ToAnyReg, Do("unary", UnaryOp(e))>>)

-----------------------------------------------------------------------------
(* Statements.  A close slot, where a scope holds captured locals, or None *)
None == -1
CloseAt(g, slot) == IF slot = None THEN g ELSE Emit(g, Instr("CLOSE", slot, 0, 0))
CloseScope(g, slot, saved) == [CloseAt(g, slot) EXCEPT !.nactive = saved, !.freereg = saved]
Activate(g) == [g EXCEPT !.nactive = g.freereg]

StmtsPlan(stmts) == FlattenSeq([i \in DOMAIN stmts |-> <<Do("stmt", stmts[i]), Do("stmt_done", 0)>>])
Scope(close, saved) == Do("scope", [close |-> close, saved |-> saved])
BlockPlan(g, block) == StmtsPlan(block.stmts) \o <<Scope(block.close, g.nactive)>>

(* The jumps taken when the condition is false end up on top *)
CondFalse(cond) ==
    LET last == Last(cond.rest) IN
    CASE cond.e \in {"True", "Num", "Str"} -> <<Do("push", Desc("Jumps", {}))>>
      [] cond.e \in {"Nil", "False"} ->
             <<Do("push", Desc("Jumps", {})), Do("exit", Instr("JMP", 0, 0, 0))>>
      [] cond.e = "Compare" ->
             ComparePlan(cond.first, Front(cond.rest)) \o TwoRegs(last.rhs.exec, last.rhs)
                 \o <<Do("branch", last.op)>>
      [] OTHER -> <<E(cond), ToAnyReg, Do("test", None)>>
Branch(g, f) ==
    AddExit(Exits(DropTwo(FreeTwo(g, Under(g), Top(g)))), OpInstr("BR", f, Under(g).x, Top(g).x, 0))

(* A value that was computed before locals are closed is tested after *)
Test(g, close) == AddExit(Exits(CloseAt(Drop(FreeTop(g)), close)), Instr("TEST_FALSE", Top(g).x, 0, 0))

(* want values of a list in consecutive registers: the last one may supply
   several, missing ones are nil, surplus ones are evaluated and dropped *)
ListValue(values, i, want) ==
    IF i = Len(values) /\ IsMulti(values[i]) /\ want >= i
    THEN <<E(values[i]), Do("returns", want - (i - 1))>>
    ELSE ValueToReg(values[i])
AdjustList(g, base, want) ==
    LET missing == want - (g.freereg - base) IN
    IF missing > 0 THEN Emit(Reserve(g, missing), Instr("LOAD_NIL", g.freereg, missing, 0))
                   ELSE [g EXCEPT !.freereg = base + want]
ExplistToRegs(values, want, base) ==
    FlattenSeq([i \in DOMAIN values |-> ListValue(values, i, want)])
        \o <<Do("adjust", [base |-> base, want |-> want])>>

LocalStmt(g, st) ==
    IF st.values = <<>>
    THEN Activate(Emit(Reserve(g, st.count), Instr("LOAD_NIL", g.freereg, st.count, 0)))
    ELSE Plan(g, ExplistToRegs(st.values, st.count, g.freereg) \o <<Do("activate", 0)>>)

(* A variable outside the frame is stored from a register *)
StoreTo(place, src) ==
    IF place.p \in {"SET_UPVAL", "SET_GLOBAL", "SET_BUILTIN"} THEN Instr(place.p, src, place.i, 0)
                                                              ELSE Instr("MOVE", place.i, src, 0)

SingleAssign(place, value) ==
    CASE place.p = "Local" -> <<E(value), Discharged, Do("settle", place.i)>>
      [] place.p = "Field" ->
             <<E(place.object)>> \o TwoRegs(value.exec, value) \o <<Do("set_field", place.name)>>
      [] place.p = "Index" ->
             <<E(place.object), Before(place.key.exec \/ value.exec), Operand, E(place.key)>>
                 \o TwoRegs(value.exec, value) \o <<Do("set_table", 0)>>
      [] OTHER -> <<E(value), ToAnyReg, Do("store", place)>>
SetField(g, name) ==
    DropTwo(FreeTwo(Emit(g, Instr("SET_FIELD", Under(g).x, name, Top(g).x)), Under(g), Top(g)))
SetTable(g) ==
    LET object == g.vals[Len(g.vals) - 2]
        h == Emit(g, Instr("SET_TABLE", object.x, Under(g).x, Top(g).x))
    IN  Drop(DropTwo(FreeTwo(FreeTop(h), object, Under(g))))
StoreTop(g, place) == Drop(FreeTop(Emit(g, StoreTo(place, Top(g).x))))

(* Places' objects and keys in order, then the values, then the stores, the
   last target first *)
PlaceOperands(place) ==
    CASE place.p = "Field" -> <<E(place.object), Do("next_reg", 0)>>
      [] place.p = "Index" -> <<E(place.object), Do("next_reg", 0), E(place.key), Do("next_reg", 0)>>
      [] OTHER -> <<>>
StoreTarget(g, place, src) ==
    CASE place.p = "Field" -> Drop(Emit(g, Instr("SET_FIELD", Top(g).x, place.name, src)))
      [] place.p = "Index" -> DropTwo(Emit(g, Instr("SET_TABLE", Under(g).x, Top(g).x, src)))
      [] place.p = "Local" /\ place.i = src -> g
      [] OTHER -> Emit(g, StoreTo(place, src))
AssignValues(g, st, saved) ==
    Plan(g, ExplistToRegs(st.values, Len(st.targets), g.freereg)
                \o [i \in DOMAIN st.targets |->
                       Do("store_target", [place |-> st.targets[Len(st.targets) + 1 - i],
                                           src |-> g.freereg + Len(st.targets) - i])]
                \o <<Do("free_to", saved)>>)
MultiAssign(g, st) ==
    FlattenSeq([i \in DOMAIN st.targets |-> PlaceOperands(st.targets[i])])
        \o <<Do("assign_values", [st |-> st, saved |-> g.freereg])>>
(* The closure goes to a register of its own unless the place is one *)
ClosureTo(g, place, nested) ==
    LET h == Emit(Reserve(g, 1), Instr("CLOSURE", g.freereg, nested, 0)) IN
    IF place.p = "Field"
    THEN Drop(FreeTop(FreeReg(Emit(h, Instr("SET_FIELD", Top(g).x, place.name, g.freereg)), g.freereg)))
    ELSE FreeReg(Emit(h, StoreTo(place, g.freereg)), g.freereg)
FunctionStmt(g, st) ==
    CASE st.target.p = "Local" -> Emit(g, Instr("CLOSURE", st.target.i, st.nested, 0))
      [] st.target.p = "Field" -> Plan(g, <<E(st.target.object), ToAnyReg, Do("closure_to", st)>>)
      [] OTHER -> ClosureTo(g, st.target, st.nested)

(* The returned values, and the register below which nothing is freed *)
EmitReturn(g, base, count) == [Emit(g, Instr("RETURN", base, count, 0)) EXCEPT !.freereg = base]
ReturnOne(g) == Drop(FreeTop(Emit(g, Instr("RETURN", Top(g).x, 1, 0))))
TailCall(g, saved) ==
    Drop([g EXCEPT !.code[Top(g).x] = [@ EXCEPT !.op = "TAILCALL", !.c = 0], !.freereg = saved])
ReturnStmt(g, values) ==
    CASE values = <<>> -> Emit(g, Instr("RETURN", 0, 0, 0))
      [] Len(values) = 1 /\ ~IsMulti(values[1]) ->
             Plan(g, <<E(values[1]), ToAnyReg, Do("return_one", 0)>>)
      [] Len(values) = 1 /\ values[1].e = "Suffixed" ->
             Plan(g, <<E(values[1]), Do("tail_call", g.freereg)>>)
      [] OTHER ->
             LET open == IsMulti(Last(values)) IN
             Plan(g, ValuesToRegs(Front(values)) \o <<E(Last(values))>>
                         \o <<IF open THEN Do("returns", Open(g.lim)) ELSE ToReg,
                              Do("return", [base |-> g.freereg,
                                            n |-> IF open THEN Open(g.lim) ELSE Len(values)])>>)

OpenLoop(g, close) == [g EXCEPT !.loops = Append(@, [breaks |-> {}, close |-> close])]
FinishLoop(g) == PatchHere([g EXCEPT !.loops = Front(@)], Last(g.loops).breaks)
LoopBody(st) == <<Do("open_loop", st.break_close)>> \o StmtsPlan(st.body)
LoopEnd(g, st) == <<Do("finish_loop", 0), Scope(st.scope_close, g.nactive)>>

CallStmt(g) == Drop([g EXCEPT !.code[Top(g).x].c = 0, !.freereg = g.code[Top(g).x].a])

JumpBack(g, ins, target) == Patch(Emit(g, ins), {Here(g)}, target)
Jmp == Instr("JMP", 0, 0, 0)
Back(ins, target) == Do("jump_back", [ins |-> ins, target |-> target])

WhileStmt(g, st) ==
    Plan(g, CondFalse(st.cond) \o LoopBody(st)
                \o <<Do("close", st.body_close), Back(Jmp, Here(g)), Land>> \o LoopEnd(g, st))

(* The condition of a repeat that closes its body's locals is read first *)
RepeatStmt(g, st) ==
    Plan(g, LoopBody(st)
                \o (IF st.body_close = None THEN CondFalse(st.cond)
                    ELSE <<E(st.cond), ToAnyReg, Do("test", st.body_close)>>)
                \o <<Do("jumps_to", Here(g))>> \o LoopEnd(g, st))

(* An arm's end jumps over the others; its own false exits land after that *)
ArmEnd(g, jumps) ==
    LandHere(IF jumps THEN [Emit(g, Jmp) EXCEPT !.vals[Len(g.vals) - 1].x = @ \cup {Here(g)}] ELSE g)
IfArm(g, st, i) ==
    LET stmts == st.arms[i].block.stmts
        followed == i < Len(st.arms) \/ st.orelse # <<>>
        returns == stmts # <<>> /\ Last(stmts).s = "Return"
    IN  CondFalse(st.arms[i].cond) \o BlockPlan(g, st.arms[i].block)
            \o <<Do("arm_end", followed /\ ~returns)>>
IfStmt(g, st) ==
    Plan(Exits(g), FlattenSeq([i \in DOMAIN st.arms |-> IfArm(g, st, i)])
                       \o (IF st.orelse = <<>> THEN <<>> ELSE BlockPlan(g, st.orelse[1]))
                       \o <<Land>>)

BodyClose(st) == Do("close", IF st.body_close THEN st.base + 3 ELSE None)

(* The loop's head is emitted above its control registers, where the body's
   variables start; the head's own exit is on top during the body *)
ForPrep(g, st) ==
    LET h == Activate(Reserve(g, 1)) IN
    Plan(AddExit(Exits(h), Instr("FOR_PREP", st.base, 0, 0)),
         LoopBody(st) \o <<BodyClose(st), Back(Instr("FOR_LOOP", st.base, 0, 0), Here(h) + 1), Land>>)
NumericFor(g, st) ==
    Plan(DebugAssert(g, g.freereg = st.base),
         ValuesToRegs(<<st.start, st.limit, st.step>>) \o <<Do("for_prep", st)>> \o LoopEnd(g, st))

TforHead(g, st) ==
    LET h == Activate(Reserve(g, st.vars)) IN
    Plan(AddExit(Exits(Emit(h, Instr("TFOR_CALL", st.base, st.vars, 0))),
                 Instr("TFOR_LOOP", st.base, 0, 0)),
         LoopBody(st) \o <<BodyClose(st), Back(Jmp, Here(h)), Land>>)
GenericFor(g, st) ==
    Plan(DebugAssert(g, g.freereg = st.base),
         ExplistToRegs(st.exprs, 3, g.freereg) \o <<Do("tfor_head", st)>> \o LoopEnd(g, st))

BreakStmt(g) ==
    LET h == CloseAt(g, Last(g.loops).close) IN
    [Emit(h, Jmp) EXCEPT !.loops[Len(g.loops)].breaks = @ \cup {Here(h)}]

Stmt(g, st) ==
    CASE st.s = "Local" -> LocalStmt(DebugAssert(g, g.freereg = st.first), st)
      [] st.s = "LocalFunction" ->
             Emit(Activate(Reserve(DebugAssert(g, g.freereg = st.reg), 1)),
                  Instr("CLOSURE", st.reg, st.nested, 0))
      [] st.s = "Assign" ->
             Plan(g, IF Len(st.targets) = 1 /\ Len(st.values) = 1
                     THEN SingleAssign(st.targets[1], st.values[1]) ELSE MultiAssign(g, st))
      [] st.s = "Call" -> Plan(g, <<E(st.x), Do("call_stmt", 0)>>)
      [] st.s = "Do" -> Plan(g, BlockPlan(g, st.block))
      [] st.s = "While" -> WhileStmt(g, st)
      [] st.s = "Repeat" -> RepeatStmt(g, st)
      [] st.s = "If" -> IfStmt(g, st)
      [] st.s = "NumericFor" -> NumericFor(g, st)
      [] st.s = "GenericFor" -> GenericFor(g, st)
      [] st.s = "Function" -> FunctionStmt(g, st)
      [] st.s = "Return" -> ReturnStmt(g, st.values)
      [] st.s = "Break" -> BreakStmt(g)

-----------------------------------------------------------------------------
(* One call of the agenda *)
OnValue(g, c) ==
    CASE c.op = "push" -> Push(g, c.x)
      [] c.op = "discharge" -> Discharge(g)
      [] c.op = "any_reg" -> AnyReg(g)
      [] c.op = "next_reg" -> NextReg(g)
      [] c.op = "to_reg" -> Drop(NextReg(g))
      [] c.op = "settle" -> Settle(g, c.x)
      [] c.op = "operand_reg" -> OperandReg(g)
      [] c.op = "operand_before" -> OperandBefore(g, c.x)
      [] c.op = "returns" -> SetReturns(g, c.x)
      [] c.op = "open_args" -> Push(SetReturns(g, Open(g.lim)), Desc("Args", Open(g.lim)))
      [] c.op = "arith" -> Arith(g, c.x)
      [] c.op = "compare" -> FromTwo(g, "CMP", c.x)
      [] c.op = "unary" -> FromReg(g, c.x, 0)
      [] c.op = "field" -> FromReg(g, "GET_FIELD", c.x)
      [] c.op = "get_table" -> FromTwo(g, "GET_TABLE", "")
      [] c.op = "concat" -> Concat(g, c.x.base, c.x.n)
      [] c.op = "self" -> EmitSelf(g, c.x)
      [] c.op = "call" -> EmitCall(g, c.x)
      [] c.op = "init_field" -> Drop(FreeTop(Emit(g, InitField(g, c.x.item, c.x.reg))))
      [] c.op = "init_index" ->
             DropTwo(FreeTwo(Emit(g, Instr("INIT_INDEX", c.x, Under(g).x, Top(g).x)), Under(g), Top(g)))
      [] c.op = "set_list" -> SetList(g, c.x.item, c.x.reg)
OnStmt(g, c) ==
    CASE c.op = "set_field" -> SetField(g, c.x)
      [] c.op = "set_table" -> SetTable(g)
      [] c.op = "store" -> StoreTop(g, c.x)
      [] c.op = "assign_values" -> AssignValues(g, c.x.st, c.x.saved)
      [] c.op = "store_target" -> StoreTarget(g, c.x.place, c.x.src)
      [] c.op = "free_to" -> [g EXCEPT !.freereg = c.x]
      [] c.op = "closure_to" -> ClosureTo(g, c.x.target, c.x.nested)
      [] c.op = "adjust" -> AdjustList(g, c.x.base, c.x.want)
      [] c.op = "activate" -> Activate(g)
      [] c.op = "return" -> EmitReturn(g, c.x.base, c.x.n)
      [] c.op = "return_one" -> ReturnOne(g)
      [] c.op = "tail_call" -> TailCall(g, c.x)
      [] c.op = "call_stmt" -> CallStmt(g)
      [] c.op = "scope" -> CloseScope(g, c.x.close, c.x.saved)
      [] c.op = "stmt_done" -> DebugAssert(g, g.freereg = g.nactive)
OnJump(g, c) ==
    CASE c.op = "exit" -> AddExit(g, c.x)
      [] c.op = "land" -> LandHere(g)
      [] c.op = "branch" -> Branch(g, c.x)
      [] c.op = "test" -> Test(g, c.x)
      [] c.op = "close" -> CloseAt(g, c.x)
      [] c.op = "jump_back" -> JumpBack(g, c.x.ins, c.x.target)
      [] c.op = "jumps_to" -> Drop(Patch(g, Top(g).x, c.x))
      [] c.op = "arm_end" -> ArmEnd(g, c.x)
      [] c.op = "open_loop" -> OpenLoop(g, c.x)
      [] c.op = "finish_loop" -> FinishLoop(g)
      [] c.op = "for_prep" -> ForPrep(g, c.x)
      [] c.op = "tfor_head" -> TforHead(g, c.x)
JumpCalls == {"exit", "land", "branch", "test", "close", "jump_back", "jumps_to", "arm_end",
              "open_loop", "finish_loop", "for_prep", "tfor_head"}
StmtCalls == {"set_field", "set_table", "store", "assign_values", "store_target", "free_to",
              "closure_to", "adjust", "activate", "return", "return_one", "tail_call",
              "call_stmt", "scope", "stmt_done"}
Made(g, c) ==
    CASE c.op = "expr" -> Expr(g, c.x)
      [] c.op = "stmt" -> Stmt(g, c.x)
      [] c.op \in StmtCalls -> OnStmt(g, c)
      [] c.op \in JumpCalls -> OnJump(g, c)
      [] OTHER -> OnValue(g, c)

(* generate: an error ends it *)
Generator(body, lim) ==
    [code |-> <<>>, freereg |-> body.num_params, nactive |-> body.num_params,
     maxstack |-> body.num_params, captured |-> body.captured, loops |-> <<>>,
     vals |-> <<>>, todo |-> StmtsPlan(body.stmts), lim |-> lim, err |-> ""]
Generated(g) == g.todo = <<>> \/ g.err # ""
GenStep(g) == IF Generated(g) THEN g ELSE Made([g EXCEPT !.todo = Tail(@)], Head(g.todo))
Code(g) == Append(g.code, Instr("RETURN", 0, 0, 0))
=============================================================================
