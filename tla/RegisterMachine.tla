-------------------------- MODULE RegisterMachine --------------------------
(***************************************************************************)
(* The dispatch loop of src/src/vm/frame.rs with the handlers of           *)
(* registers.rs, eval_control.rs and eval.rs: register code running on one *)
(* shared value stack, where a call window is a cut of the caller's        *)
(* registers, results slide down into the callee's place, and captured     *)
(* registers are reached through open upvalues.                            *)
(*                                                                         *)
(* Left to other modules: cost, interrupts and the depth, stack and chain  *)
(* limits (CostDispatch, Calls), inline caches and metatable chains        *)
(* (FieldAccess, GlobalEnv), table storage (Table) and collection          *)
(* (Upvalues).  An error ends the program.                                 *)
(***************************************************************************)
EXTENDS RegisterCode, FiniteSets

(***************************************************************************)
(* Admission of bytecode: the cache-slot pass of src/src/compiler.rs and   *)
(* the verifier of src/src/compiler/verify.rs, which a compiled function   *)
(* and a function read from a snapshot both have to pass.  The verifier    *)
(* reports the first fault it meets; here it is the conjunction of what it *)
(* requires.                                                               *)
(*                                                                         *)
(* A bytecode bc is the record FinishChunk of LuaParser makes, with slots  *)
(* (the sizes of its four cache arrays) once slots are assigned.           *)
(***************************************************************************)

SetFieldSites == {"SET_FIELD"}
TforSites == {"TFOR_CALL"}

(* Sites of code, up to pc, that own a slot of the global cache among the
   pcs in S: every store, and the first read of each name *)
GlobalOwners(code, S, pc) ==
    {q \in S : /\ q <= pc
               /\ \/ code[q].op = "SET_GLOBAL"
                  \/ /\ code[q].op = "GET_GLOBAL"
                     /\ \A r \in S : r < q /\ code[r].op = "GET_GLOBAL" => code[r].b # code[q].b}
FamilySites(code, S, ops, pc) == {q \in S : q <= pc /\ code[q].op \in ops}

(* The site whose slot pc uses: the first read of the same name *)
OwnerOf(code, S, pc) ==
    IF code[pc].op # "GET_GLOBAL" THEN pc
    ELSE CHOOSE q \in S : /\ code[q].op = "GET_GLOBAL" /\ code[q].b = code[pc].b
                          /\ \A r \in S : code[r].op = "GET_GLOBAL" /\ code[r].b = code[pc].b => q <= r

(* The position of pc's slot in its family, or 0 for other opcodes *)
SlotRank(code, S, pc) ==
    CASE code[pc].op \in {"GET_GLOBAL", "SET_GLOBAL"} ->
             Cardinality(GlobalOwners(code, S, OwnerOf(code, S, pc)))
      [] code[pc].op \in FieldReads -> Cardinality(FamilySites(code, S, FieldReads, pc))
      [] code[pc].op \in SetFieldSites -> Cardinality(FamilySites(code, S, SetFieldSites, pc))
      [] code[pc].op \in TforSites -> Cardinality(FamilySites(code, S, TforSites, pc))
      [] OTHER -> 0

CacheSites == {"GET_GLOBAL", "SET_GLOBAL", "TFOR_CALL", "SET_FIELD"} \cup FieldReads

Capped(n, lim) == IF n < lim.slots THEN n ELSE lim.slots
SlotCounts(code, S, n) ==
    <<Cardinality(GlobalOwners(code, S, n)), Cardinality(FamilySites(code, S, FieldReads, n)),
      Cardinality(FamilySites(code, S, SetFieldSites, n)),
      Cardinality(FamilySites(code, S, TforSites, n))>>

(* assign_cache_slots: in code order, until a family's slots run out *)
AssignCacheSlots(bc, lim) ==
    LET code == bc.code
        S == DOMAIN code
        slot(pc) == LET rank == SlotRank(code, S, pc) IN IF rank > lim.slots THEN 0 ELSE rank
        counts == SlotCounts(code, S, Len(code))
    IN  [bc EXCEPT !.code = [pc \in S |-> IF code[pc].op \in CacheSites
                                          THEN WithD(code[pc], slot(pc)) ELSE code[pc]]]
        @@ [slots |-> [i \in 1..4 |-> Capped(counts[i], lim)]]

-----------------------------------------------------------------------------
(* The verifier's own account of the same policy, over the slots present *)
CachedSites(code) == {pc \in DOMAIN code : code[pc].op \in CacheSites /\ code[pc].d # 0}
SlotsValid(bc) ==
    LET S == CachedSites(bc.code) IN
    /\ \A pc \in S : bc.code[pc].d = SlotRank(bc.code, S, pc)
    /\ bc.slots = SlotCounts(bc.code, S, Len(bc.code))

JumpTarget(code, pc) == pc + 1 + code[pc].sj
Targeted(code) == {JumpTarget(code, pc) : pc \in {q \in DOMAIN code : code[q].op \in Jumps}}

(* check_registers, count_operand *)
Regs(bc, first, count) == first + count <= bc.max_stack
Reg(bc, r) == Regs(bc, r, 1)
Count(n, limit, lim) == n = Open(lim) \/ n <= limit
Fixed(n, lim) == IF n = Open(lim) THEN 0 ELSE n

OperandsValid(bc, ins, lim) ==
    LET a == ins.a  b == ins.b  c == ins.c IN
    CASE ins.op = "ARITH_RR" -> Reg(bc, a) /\ Reg(bc, b) /\ Reg(bc, c)
      [] ins.op = "ARITH_RK" -> Reg(bc, a) /\ Reg(bc, b) /\ c \in DOMAIN bc.numbers
      [] ins.op = "ARITH_KR" -> Reg(bc, a) /\ b \in DOMAIN bc.numbers /\ Reg(bc, c)
      [] ins.op \in {"MOVE", "UNM", "NOT", "LEN", "BR"} -> Reg(bc, a) /\ Reg(bc, b)
      [] ins.op \in {"GET_TABLE", "SET_TABLE", "INIT_INDEX", "CMP"} ->
             Reg(bc, a) /\ Reg(bc, b) /\ Reg(bc, c)
      [] ins.op \in {"NEW_TABLE", "TEST_FALSE", "TEST_TRUE"} -> Reg(bc, a)
      [] ins.op = "LOAD_NIL" -> b # 0 /\ Regs(bc, a, b)
      [] ins.op = "LOAD_BOOL" -> Reg(bc, a) /\ b <= 1
      [] ins.op = "LOAD_NUM" -> Reg(bc, a) /\ b \in DOMAIN bc.numbers
      [] ins.op \in {"LOAD_STR", "GET_GLOBAL", "SET_GLOBAL"} -> Reg(bc, a) /\ b \in DOMAIN bc.strings
      [] ins.op \in {"GET_UPVAL", "SET_UPVAL"} -> Reg(bc, a) /\ b \in DOMAIN bc.upvalues
      [] ins.op = "NEW_TABLE_TEMPLATE" -> Reg(bc, a) /\ b \in DOMAIN bc.templates
      [] ins.op = "CLOSURE" -> Reg(bc, a) /\ b \in DOMAIN bc.nested
      [] ins.op = "CLOSE" -> a <= bc.max_stack
      [] ins.op \in {"GET_BUILTIN", "SET_BUILTIN"} -> Reg(bc, a) /\ b \in Builtins
      [] ins.op = "NEW_TABLE_PRESIZED" -> Reg(bc, a) /\ b <= lim.byte
      [] ins.op = "GET_FIELD" -> Reg(bc, a) /\ Reg(bc, b) /\ c \in DOMAIN bc.strings
      [] ins.op = "SELF" -> Regs(bc, a, 2) /\ Reg(bc, b) /\ c \in DOMAIN bc.strings
      [] ins.op \in {"SET_FIELD", "INIT_FIELD", "INIT_FIELD_PINNED"} ->
             Reg(bc, a) /\ b \in DOMAIN bc.strings /\ Reg(bc, c)
      [] ins.op = "SET_LIST" -> Count(b, lim.batch, lim) /\ Regs(bc, a, 1 + Fixed(b, lim))
      [] ins.op = "CONCAT" -> Reg(bc, a) /\ c >= 2 /\ Regs(bc, b, c)
      [] ins.op = "JMP" -> TRUE
      [] ins.op \in {"FOR_PREP", "TFOR_LOOP"} -> ins.sj >= 0 /\ Regs(bc, a, 4)
      [] ins.op = "FOR_LOOP" -> Regs(bc, a, 4)
      [] ins.op = "TFOR_CALL" -> b \in 1 .. lim.locals /\ Regs(bc, a, 3 + b)
      [] ins.op = "CALL" ->
             /\ Count(b, lim.args, lim) /\ Count(c, lim.results, lim)
             /\ Regs(bc, a, 1 + Fixed(b, lim)) /\ Regs(bc, a, Fixed(c, lim))
      [] ins.op = "TAILCALL" -> Count(b, lim.args, lim) /\ Regs(bc, a, 1 + Fixed(b, lim))
      [] ins.op = "RETURN" -> Count(b, lim.exprs, lim) /\ Regs(bc, a, IF b = Open(lim) THEN 1 ELSE b)
      [] ins.op = "VARARG" ->
             /\ bc.vararg /\ Count(b, lim.results, lim)
             /\ Regs(bc, a, IF b = Open(lim) \/ b = 0 THEN 1 ELSE b)

(* An instruction that leaves an open number of values is followed, with no
   way to jump between, by one that takes them from its own window *)
OpenWindowTouches(consumer, producer) == consumer.a <= producer.a
OpenWindowFits(consumer, producer) ==
    (IF consumer.op \in {"CALL", "TAILCALL", "SET_LIST"} THEN consumer.a + 1 ELSE consumer.a)
        <= producer.a
OpenPair(code, pc, targeted, lim) ==
    /\ pc \in 1 .. Len(code) - 1
    /\ pc + 1 \notin targeted
    /\ ProducesOpen(code[pc], lim) /\ ConsumesOpen(code[pc + 1], lim)
    /\ OpenWindowFits(code[pc + 1], code[pc])
OpenValid(code, targeted, lim) ==
    \A pc \in DOMAIN code :
        /\ ProducesOpen(code[pc], lim) => OpenPair(code, pc, targeted, lim)
        /\ ConsumesOpen(code[pc], lim) => OpenPair(code, pc - 1, targeted, lim)

TemplatesValid(bc, lim) ==
    \A i \in DOMAIN bc.templates :
        LET keys == bc.templates[i] IN
        /\ Len(keys) <= lim.tfields
        /\ \A j \in DOMAIN keys : keys[j] \in DOMAIN bc.strings
        /\ \A j, k \in DOMAIN keys : bc.strings[keys[j]] = bc.strings[keys[k]] => j = k

PoolsFit(bc, lim) ==
    /\ Len(bc.templates) <= lim.templates
    /\ Len(bc.nested) <= lim.nested
    /\ Len(bc.upvalues) <= lim.upvalues
    /\ Len(bc.numbers) <= lim.literals /\ Len(bc.strings) <= lim.literals

ValidateBytecode(bc, lim) ==
    /\ bc.code # <<>>
    /\ PoolsFit(bc, lim)
    /\ bc.num_params + bc.num_locals <= lim.locals
    /\ bc.max_stack # Open(lim)
    /\ bc.num_params + bc.num_locals <= bc.max_stack
    /\ Last(bc.code).op = "RETURN"
    /\ TemplatesValid(bc, lim)
    /\ Targeted(bc.code) \subseteq DOMAIN bc.code
    /\ \A pc \in DOMAIN bc.code : OperandsValid(bc, bc.code[pc], lim)
    /\ OpenValid(bc.code, Targeted(bc.code), lim)
    /\ SlotsValid(bc)

ValidateChild(parent, child) ==
    \A i \in DOMAIN child.upvalues :
        LET d == child.upvalues[i] IN
        IF d.at = "local" THEN d.i < parent.num_params + parent.num_locals
                          ELSE d.i \in DOMAIN parent.upvalues

(* finalize_at_depth: slots, this function, its children's captures, then
   the children themselves *)
RECURSIVE Finalize(_, _)
Finalize(bc, lim) ==
    [AssignCacheSlots(bc, lim)
        EXCEPT !.nested = [i \in DOMAIN @ |-> Finalize(@[i], lim)]]

RECURSIVE Admitted(_, _, _)
Admitted(bc, depth, lim) ==
    /\ depth <= lim.chunks
    /\ ValidateBytecode(bc, lim)
    /\ \A i \in DOMAIN bc.nested :
           ValidateChild(bc, bc.nested[i]) /\ Admitted(bc.nested[i], depth + 1, lim)
-----------------------------------------------------------------------------
VARIABLES
    unit,      \* the finished bytecode of the main function
    lim,       \* the limits in force
    stack,     \* State::stack; register r of a frame is slot base + r
    frames,    \* the running frames, innermost last
    cells,     \* upvalues: the slot an open one is at, the value of a closed one
    closures,  \* a function's path in the unit and its upvalues
    heap,      \* tables: contents and metatable (0 is none)
    env,       \* the globals, builtins included
    trace,     \* the arguments of every call of emit
    outcome    \* <<>> while running, then how it ended

machine == <<stack, frames, cells, closures, heap, env, trace, outcome>>

Ended(how, values) == <<how, values>>
Running == outcome = <<>>

(* Vec::resize with nil, and a list adjusted to a count *)
Resized(s, n) == [i \in 1 .. n |-> IF i <= Len(s) THEN s[i] ELSE Nil]
Cut(s, n) == SubSeq(s, 1, n)

Proto(path) == FoldLeft(LAMBDA bc, i : bc.nested[i], unit, path)
FrameTop(f) == f.base + Proto(f.path).max_stack - 1

(* The instruction a suspended frame is waiting on: its cursor is past it *)
Pending(f) == Proto(f.path).code[f.pc - 1]

NewFrame(path, upvalues, base, varargs) ==
    [path |-> path, upvalues |-> upvalues, base |-> base, pc |-> 1, varargs |-> varargs]

(* A function's parameters, and the arguments a vararg function keeps *)
Params(bc, args) == Cut(args, IF Len(args) < bc.num_params THEN Len(args) ELSE bc.num_params)
Varargs(bc, args) == IF bc.vararg THEN SubSeq(args, bc.num_params + 1, Len(args)) ELSE <<>>

(* The host calls the main function of bytecode bc, which has slot 1 *)
Entered(bc, args) ==
    /\ stack' = Resized(<<Nil>> \o Params(bc, args), 1 + bc.max_stack)
    /\ frames' = <<NewFrame(<<>>, <<>>, 2, Varargs(bc, args))>>

(* The builtins, and a function of the host that reports its arguments *)
Globals == [b \in Builtins \cup {"emit"} |-> HostFn(b)]

MachineInit ==
    /\ stack = <<>> /\ frames = <<>>
    /\ cells = <<>> /\ closures = <<>> /\ heap = <<>>
    /\ env = Globals
    /\ trace = <<>> /\ outcome = <<>>

-----------------------------------------------------------------------------
(* Cursor and registers.  Every step advances past its instruction first *)
Jumped(n) == frames' = [frames EXCEPT ![Len(frames)].pc = @ + 1 + n]
Past == [frames EXCEPT ![Len(frames)].pc = @ + 1]
Advance == frames' = Past

SetSlot(slot, v) == stack' = [stack EXCEPT ![slot] = v]
SetReg(f, r, v) == SetSlot(f.base + r, v)

(* Slots first .. first + n - 1 are filled from a list, missing ones nil *)
Filled(s, first, n, values) ==
    [i \in DOMAIN s |-> IF i \in first .. first + n - 1
                        THEN Resized(values, n)[i - first + 1] ELSE s[i]]

(* close_upvalues: the open upvalues at or above a slot take their values *)
Closed(level) ==
    [i \in DOMAIN cells |-> IF cells[i].at >= level
                            THEN [at |-> 0, v |-> stack[cells[i].at]] ELSE cells[i]]

(* unwind_invocation, for every frame: the error leaves the program *)
Raise(how) ==
    /\ outcome' = Ended(how, <<>>)
    /\ cells' = Closed(1) /\ stack' = <<>> /\ frames' = <<>>
    /\ UNCHANGED <<closures, heap, env, trace>>

(* check_window *)
WindowClear(first) == \A i \in DOMAIN cells : cells[i].at < first

-----------------------------------------------------------------------------
(* Moves, constants and the operators that cannot call *)
Loaded(bc, ins, f) ==
    CASE ins.op = "LOAD_BOOL" -> Bool(ins.b # 0)
      [] ins.op = "LOAD_NUM" -> bc.numbers[ins.b]
      [] ins.op = "LOAD_STR" -> Atom(bc.strings[ins.b])
      [] ins.op = "MOVE" -> stack[f.base + ins.b]
      [] ins.op = "NOT" -> Bool(~Truthy(stack[f.base + ins.b]))
      [] ins.op = "GET_UPVAL" ->
             LET c == cells[f.upvalues[ins.b]] IN IF c.at = 0 THEN c.v ELSE stack[c.at]
      [] ins.op = "GET_GLOBAL" ->
             IF bc.strings[ins.b] \in DOMAIN env THEN env[bc.strings[ins.b]] ELSE Nil
      [] ins.op = "GET_BUILTIN" -> env[ins.b]

Load(f, bc, ins) ==
    /\ ins.op \in {"LOAD_BOOL", "LOAD_NUM", "LOAD_STR", "MOVE", "NOT", "GET_UPVAL",
                   "GET_GLOBAL", "GET_BUILTIN"}
    /\ SetReg(f, ins.a, Loaded(bc, ins, f))
    /\ Advance
    /\ UNCHANGED <<cells, closures, heap, env, trace, outcome>>

LoadNil(f, bc, ins) ==
    /\ ins.op = "LOAD_NIL"
    /\ stack' = Filled(stack, f.base + ins.a, ins.b, <<>>)
    /\ Advance
    /\ UNCHANGED <<cells, closures, heap, env, trace, outcome>>

SetUpvalue(f, bc, ins) ==
    /\ ins.op = "SET_UPVAL"
    /\ LET cell == f.upvalues[ins.b]
           v == stack[f.base + ins.a]
       IN  IF cells[cell].at = 0
           THEN cells' = [cells EXCEPT ![cell].v = v] /\ UNCHANGED stack
           ELSE SetSlot(cells[cell].at, v) /\ UNCHANGED cells
    /\ Advance
    /\ UNCHANGED <<closures, heap, env, trace, outcome>>

SetGlobal(f, bc, ins) ==
    /\ ins.op \in {"SET_GLOBAL", "SET_BUILTIN"}
    /\ LET name == IF ins.op = "SET_BUILTIN" THEN ins.b ELSE bc.strings[ins.b] IN
       env' = (name :> stack[f.base + ins.a]) @@ env
    /\ Advance
    /\ UNCHANGED <<stack, cells, closures, heap, trace, outcome>>

Close(f, bc, ins) ==
    /\ ins.op = "CLOSE"
    /\ cells' = Closed(f.base + ins.a)
    /\ Advance
    /\ UNCHANGED <<stack, closures, heap, env, trace, outcome>>

(* Arithmetic, negation, concatenation and comparison: a value, or an error *)
Operand(f, bc, r, constant) == IF constant THEN bc.numbers[r] ELSE stack[f.base + r]
ConcatOperands(f, ins) == SubSeq(stack, f.base + ins.b, f.base + ins.b + ins.c - 1)

Compare(op, x, y) ==
    CASE op = "==" -> RawEq(x, y)
      [] op = "~=" -> ~RawEq(x, y)
      [] op = "<" -> x.n < y.n
      [] op = "<=" -> x.n <= y.n
      [] op = ">" -> x.n > y.n
      [] op = ">=" -> x.n >= y.n
Comparable(op, x, y) == op \in {"==", "~="} \/ (x.t = "num" /\ y.t = "num")

Compute(f, bc, ins) ==
    /\ ins.op \in Ariths \cup {"UNM", "CMP", "CONCAT"}
    /\ \E x \in {Operand(f, bc, ins.b, ins.op = "ARITH_KR")},
          y \in {Operand(f, bc, IF ins.op \in {"UNM", "CONCAT"} THEN ins.b ELSE ins.c,
                         ins.op = "ARITH_RK")} :
          IF CASE ins.op = "CMP" -> Comparable(ins.f, x, y)
               [] ins.op = "CONCAT" ->
                      \A v \in Range(ConcatOperands(f, ins)) : v.t \in {"num", "str"}
               [] OTHER -> x.t = "num" /\ y.t = "num"
          THEN /\ SetReg(f, ins.a,
                         CASE ins.op = "UNM" -> NegNum(x)
                           [] ins.op = "CMP" -> Bool(Compare(ins.f, x, y))
                           [] ins.op = "CONCAT" ->
                                  Str(FoldLeft(LAMBDA s, v : s \o Pieces(v), <<>>,
                                               ConcatOperands(f, ins)))
                           [] OTHER -> ArithNum(ins.f, x, y))
               /\ Advance
               /\ UNCHANGED <<cells, closures, heap, env, trace, outcome>>
          ELSE Raise("error")

Branch(f, bc, ins) ==
    /\ ins.op \in {"TEST_FALSE", "TEST_TRUE", "BR"}
    /\ \E x \in {stack[f.base + ins.a]}, y \in {stack[f.base + ins.b]} :
          IF ins.op = "BR" /\ ~Comparable(ins.f, x, y) THEN Raise("error")
          ELSE /\ IF CASE ins.op = "TEST_FALSE" -> ~Truthy(x)
                       [] ins.op = "TEST_TRUE" -> Truthy(x)
                       [] ins.op = "BR" -> ~Compare(ins.f, x, y)
                  THEN Jumped(ins.sj) ELSE Advance
               /\ UNCHANGED <<stack, cells, closures, heap, env, trace, outcome>>

Jump(f, bc, ins) ==
    /\ ins.op = "JMP"
    /\ Jumped(ins.sj)
    /\ UNCHANGED <<stack, cells, closures, heap, env, trace, outcome>>

(* reg_closure: a local of this frame is found or opened as an upvalue, an
   upvalue of this closure is shared *)
Capture(cap, f, d) ==
    LET slot == f.base + d.i
        found == {i \in DOMAIN cap.cells : cap.cells[i].at = slot}
    IN  IF d.at = "upvalue" THEN [cap EXCEPT !.refs = Append(@, f.upvalues[d.i])]
        ELSE IF found # {} THEN [cap EXCEPT !.refs = Append(@, CHOOSE i \in found : TRUE)]
        ELSE [cells |-> Append(cap.cells, [at |-> slot, v |-> Nil]),
              refs |-> Append(cap.refs, Len(cap.cells) + 1)]
NewClosure(f, bc, ins) ==
    /\ ins.op = "CLOSURE"
    /\ \E cap \in {FoldLeft(LAMBDA c, d : Capture(c, f, d), [cells |-> cells, refs |-> <<>>],
                            bc.nested[ins.b].upvalues)} :
          /\ cells' = cap.cells
          /\ closures' = Append(closures, [path |-> Append(f.path, ins.b), upvalues |-> cap.refs])
    /\ SetReg(f, ins.a, ClosureRef(Len(closures) + 1))
    /\ Advance
    /\ UNCHANGED <<heap, env, trace, outcome>>

(* admit_lua_call: the callee is on top of s, its arguments go above it, and
   a frame of its own above those that stay *)
Admit(s, args, below) ==
    LET callee == closures[Last(s).c]
        bc == Proto(callee.path)
    IN  /\ stack' = Resized(s \o Params(bc, args), Len(s) + bc.max_stack)
        /\ frames' = Append(below, NewFrame(callee.path, callee.upvalues, Len(s) + 1,
                                            Varargs(bc, args)))

(* Numeric for: the controls are the start, limit and step registers *)
Controls(f, ins) == SubSeq(stack, f.base + ins.a, f.base + ins.a + 2)
ForContinues(var, limit, step) ==
    CASE step = 0 -> FALSE
      [] step > 0 -> var <= limit
      [] step < 0 -> var >= limit

ForPrep(f, bc, ins) ==
    /\ ins.op = "FOR_PREP"
    /\ \E c \in {Controls(f, ins)} :
          IF \E i \in 1 .. 3 : c[i].t # "num" THEN Raise("error")
          ELSE /\ IF ForContinues(c[1].n, c[2].n, c[3].n)
                  THEN stack' = Filled(stack, f.base + ins.a, 4, Append(c, c[1])) /\ Advance
                  ELSE Jumped(ins.sj) /\ UNCHANGED stack
               /\ UNCHANGED <<cells, closures, heap, env, trace, outcome>>

ForLoop(f, bc, ins) ==
    /\ ins.op = "FOR_LOOP"
    /\ \E c \in {Controls(f, ins)} :
          IF \E i \in 1 .. 3 : c[i].t # "num" THEN Raise("fault")
          ELSE /\ \E var \in {ArithNum("+", c[1], c[3])} :
                     IF ForContinues(var.n, c[2].n, c[3].n)
                     THEN /\ stack' = [stack EXCEPT ![f.base + ins.a] = var,
                                                    ![f.base + ins.a + 3] = var]
                          /\ Jumped(ins.sj)
                     ELSE Advance /\ UNCHANGED stack
               /\ UNCHANGED <<cells, closures, heap, env, trace, outcome>>

(* TFOR_LOOP: a nil first variable leaves the loop *)
TforLoop(f, bc, ins) ==
    /\ ins.op = "TFOR_LOOP"
    /\ \E first \in {stack[f.base + ins.a + 3]} :
          IF first = Nil THEN Jumped(ins.sj) /\ UNCHANGED stack
                         ELSE SetReg(f, ins.a + 2, first) /\ Advance
    /\ UNCHANGED <<cells, closures, heap, env, trace, outcome>>

-----------------------------------------------------------------------------
(* Tables *)
NewTable(f, bc, ins) ==
    /\ ins.op \in {"NEW_TABLE", "NEW_TABLE_PRESIZED", "NEW_TABLE_TEMPLATE"}
    /\ heap' = Append(heap, [map |-> <<>>, meta |-> 0])
    /\ SetReg(f, ins.a, TableRef(Len(heap) + 1))
    /\ Advance
    /\ UNCHANGED <<cells, closures, env, trace, outcome>>

RawGet(t, key) == IF KeyOf(key) \in DOMAIN t.map THEN t.map[KeyOf(key)] ELSE Nil
RawSet(t, key, v) ==
    [t EXCEPT !.map = IF v = Nil THEN [k \in DOMAIN @ \ {KeyOf(key)} |-> @[k]]
                                 ELSE (KeyOf(key) :> v) @@ @]

(* The __index handler a missing key of table i ends at, or nil *)
IndexHandler(i) == IF heap[i].meta = 0 THEN Nil ELSE RawGet(heap[heap[i].meta], Atom("__index"))

(* A handler's call window above the frame: the handler, then its arguments *)
PushedCall(s, callee, args) == Admit(Append(s, callee), args, Past)

ReadKey(f, bc, ins) == IF ins.op = "GET_TABLE" THEN stack[f.base + ins.c] ELSE Atom(bc.strings[ins.c])

(* GET_FIELD, SELF, GET_TABLE; SELF leaves the receiver above the method *)
WithReceiver(f, ins, v, object) ==
    Filled(stack, f.base + ins.a, IF ins.op = "SELF" THEN 2 ELSE 1, <<v, object>>)
Index(f, bc, ins) ==
    /\ ins.op \in FieldReads \cup {"GET_TABLE"}
    /\ \E object \in {stack[f.base + ins.b]}, key \in {ReadKey(f, bc, ins)} :
          IF object.t # "table" THEN Raise("error")
          ELSE /\ \E v \in {RawGet(heap[object.i], key)}, handler \in {IndexHandler(object.i)} :
                     IF v = Nil /\ handler.t = "closure"
                     THEN PushedCall(WithReceiver(f, ins, Nil, object), handler, <<object, key>>)
                     ELSE stack' = WithReceiver(f, ins, v, object) /\ Advance
               /\ UNCHANGED <<cells, closures, heap, env, trace, outcome>>

(* Stores, and the constructor's own, which meet no metatable *)
WriteKey(f, bc, ins) ==
    IF ins.op \in {"SET_TABLE", "INIT_INDEX"} THEN stack[f.base + ins.b] ELSE Atom(bc.strings[ins.b])
Store(f, bc, ins) ==
    /\ ins.op \in {"SET_FIELD", "SET_TABLE", "INIT_FIELD", "INIT_FIELD_PINNED", "INIT_INDEX"}
    /\ \E object \in {stack[f.base + ins.a]}, key \in {WriteKey(f, bc, ins)} :
          IF object.t # "table" \/ key = Nil
          THEN Raise(IF ins.op \in {"SET_FIELD", "SET_TABLE", "INIT_INDEX"} THEN "error" ELSE "fault")
          ELSE /\ heap' = [heap EXCEPT ![object.i] = RawSet(@, key, stack[f.base + ins.c])]
               /\ Advance
               /\ UNCHANGED <<stack, cells, closures, env, trace, outcome>>

SetList(f, bc, ins) ==
    /\ ins.op = "SET_LIST"
    /\ \E table \in {stack[f.base + ins.a]},
          values \in {SubSeq(stack, f.base + ins.a + 1,
                             IF ins.b = Open(lim) THEN Len(stack) ELSE f.base + ins.a + ins.b)} :
          IF table.t # "table" THEN Raise("fault")
          ELSE /\ heap' = [heap EXCEPT ![table.i] =
                              FoldLeftDomain(LAMBDA t, i : RawSet(t, Num(ins.c * lim.batch + i), values[i]),
                                             @, values)]
               /\ stack' = IF ins.b = Open(lim) THEN Resized(stack, FrameTop(f)) ELSE stack
               /\ Advance
               /\ UNCHANGED <<cells, closures, env, trace, outcome>>

(* #: the border of a sequence *)
Border(t) == CHOOSE n \in 0 .. Cardinality(DOMAIN t.map) :
                 Num(n + 1) \notin DOMAIN t.map /\ \A k \in 1 .. n : Num(k) \in DOMAIN t.map
Length(f, bc, ins) ==
    /\ ins.op = "LEN"
    /\ \E v \in {stack[f.base + ins.b]} :
          IF v.t # "table" THEN Raise("error")
          ELSE /\ SetReg(f, ins.a, Num(Border(heap[v.i])))
               /\ Advance
               /\ UNCHANGED <<cells, closures, heap, env, trace, outcome>>

-----------------------------------------------------------------------------
(* Calls.  The window of a call at register a: the callee and its arguments,
   everything the stack holds above it when their number is open *)
CallArgs(f, ins) ==
    SubSeq(stack, f.base + ins.a + 1,
           IF ins.b = Open(lim) THEN Len(stack) ELSE f.base + ins.a + ins.b)

(* A finished call's results at slot: all of them, or a fixed number, and then
   the caller's registers end where its frame does *)
Returned(slot, results, want, caller) ==
    IF want = Open(lim) THEN Cut(stack, slot - 1) \o results
    ELSE Resized(Cut(stack, slot - 1) \o Resized(results, want), FrameTop(caller))

(* emit records its arguments and returns them; setmetatable returns its table *)
HostResults(h, args) == IF h = "emit" THEN args ELSE Cut(args, 1)
HostEffect(h, args) ==
    IF h = "emit" THEN trace' = Append(trace, args) /\ UNCHANGED heap
    ELSE heap' = [heap EXCEPT ![args[1].i].meta = IF args[2] = Nil THEN 0 ELSE args[2].i]
         /\ UNCHANGED trace
HostAccepts(h, args) ==
    \/ h = "emit"
    \/ Len(args) >= 2 /\ args[1].t = "table" /\ args[2].t \in {"nil", "table"}

Call(f, bc, ins) ==
    /\ ins.op = "CALL"
    /\ \E callee \in {stack[f.base + ins.a]}, args \in {CallArgs(f, ins)} :
          CASE ~WindowClear(f.base + ins.a) -> Raise("fault")
            [] WindowClear(f.base + ins.a) /\ Len(args) <= lim.args /\ callee.t = "closure" ->
                   /\ Admit(Cut(stack, f.base + ins.a), args, Past)
                   /\ UNCHANGED <<cells, closures, heap, env, trace, outcome>>
            [] WindowClear(f.base + ins.a) /\ Len(args) <= lim.args /\ callee.t = "host"
                   /\ HostAccepts(callee.h, args) ->
                   /\ HostEffect(callee.h, args)
                   /\ stack' = Returned(f.base + ins.a, HostResults(callee.h, args), ins.c, f)
                   /\ Advance
                   /\ UNCHANGED <<cells, closures, env, outcome>>
            [] OTHER -> Raise(IF Len(args) > lim.args THEN "limit" ELSE "error")

(* collect_returns and the rest of a return: upvalues close before anything
   moves, the results slide into the function slot, and the caller's pending
   instruction takes them *)
TakesOne == FieldReads \cup {"GET_TABLE"}
Resumed(f, caller, ins, results) ==
    CASE ins.op = "CALL" -> Returned(f.base - 1, results, ins.c, caller)
      [] ins.op \in TakesOne ->
             [Cut(stack, f.base - 2) EXCEPT ![caller.base + ins.a] = Resized(results, 1)[1]]
      [] ins.op = "TFOR_CALL" ->
             Filled(Cut(stack, f.base - 2), caller.base + ins.a + 3, ins.b, results)
Leave(f, results) ==
    IF Len(results) > lim.results THEN Raise("limit")
    ELSE /\ cells' = Closed(f.base)
         /\ frames' = Front(frames)
         /\ \E rest \in {Front(frames)} :
               IF rest = <<>>
               THEN stack' = results /\ outcome' = Ended("ok", results)
               ELSE /\ stack' = Resumed(f, Last(rest), Pending(Last(rest)), results)
                    /\ UNCHANGED outcome
         /\ UNCHANGED <<closures, env>>

Return(f, bc, ins) ==
    /\ ins.op = "RETURN"
    /\ Leave(f, SubSeq(stack, f.base + ins.a,
                       IF ins.b = Open(lim) THEN Len(stack) ELSE f.base + ins.a + ins.b - 1))
    /\ UNCHANGED <<heap, trace>>

(* tail_call_from_lua: the caller's upvalues close, the window slides into
   its function slot; a Lua callee takes the frame's place, a library
   function's results are returned from there *)
TailCall(f, bc, ins) ==
    /\ ins.op = "TAILCALL"
    /\ \E callee \in {stack[f.base + ins.a]}, args \in {CallArgs(f, ins)} :
          CASE ~WindowClear(f.base + ins.a) -> Raise("fault")
            [] WindowClear(f.base + ins.a) /\ Len(args) <= lim.args /\ callee.t = "closure" ->
                   /\ cells' = Closed(f.base)
                   /\ Admit(Append(Cut(stack, f.base - 2), callee), args, Front(frames))
                   /\ UNCHANGED <<closures, heap, env, trace, outcome>>
            [] WindowClear(f.base + ins.a) /\ Len(args) <= lim.args /\ callee.t = "host"
                   /\ HostAccepts(callee.h, args) ->
                   HostEffect(callee.h, args) /\ Leave(f, HostResults(callee.h, args))
            [] OTHER -> Raise(IF Len(args) > lim.args THEN "limit" ELSE "error")

(* The iterator is called above the frame with the state and the control *)
TforCall(f, bc, ins) ==
    /\ ins.op = "TFOR_CALL"
    /\ \E c \in {Controls(f, ins)} :
          IF c[1].t = "closure"
          THEN /\ PushedCall(stack, c[1], Tail(c))
               /\ UNCHANGED <<cells, closures, heap, env, trace, outcome>>
          ELSE Raise("error")

Vararg(f, bc, ins) ==
    /\ ins.op = "VARARG"
    /\ IF ins.b = Open(lim) /\ ~WindowClear(f.base + ins.a) THEN Raise("fault")
       ELSE /\ stack' = IF ins.b = Open(lim) THEN Cut(stack, f.base + ins.a - 1) \o f.varargs
                        ELSE Filled(stack, f.base + ins.a, ins.b, f.varargs)
            /\ Advance
            /\ UNCHANGED <<cells, closures, heap, env, trace, outcome>>

Instruction(f, bc, ins) ==
    \/ Load(f, bc, ins) \/ LoadNil(f, bc, ins) \/ SetUpvalue(f, bc, ins) \/ SetGlobal(f, bc, ins)
    \/ Close(f, bc, ins) \/ Compute(f, bc, ins) \/ Branch(f, bc, ins) \/ Jump(f, bc, ins)
    \/ NewClosure(f, bc, ins) \/ ForPrep(f, bc, ins) \/ ForLoop(f, bc, ins)
    \/ TforLoop(f, bc, ins) \/ NewTable(f, bc, ins) \/ Index(f, bc, ins) \/ Store(f, bc, ins)
    \/ SetList(f, bc, ins) \/ Length(f, bc, ins) \/ Call(f, bc, ins) \/ Return(f, bc, ins)
    \/ TailCall(f, bc, ins) \/ TforCall(f, bc, ins) \/ Vararg(f, bc, ins)

Step ==
    /\ frames # <<>>
    /\ \E f \in {Last(frames)} : \E bc \in {Proto(f.path)} : Instruction(f, bc, bc.code[f.pc])
    /\ UNCHANGED <<unit, lim>>
=============================================================================
