---------------------------- MODULE RegisterCode ----------------------------
(***************************************************************************)
(* The register code of src/src/instr.rs: the 64-bit instruction word as a *)
(* record of its operands, the opcode families, and the numbers and other  *)
(* values the code works on.                                               *)
(*                                                                         *)
(* op is the opcode family; f is the operator of an arithmetic or          *)
(* comparison opcode (the code has one opcode per operator, laid out in    *)
(* rows of equal shape).  Registers are numbered from 0, pool entries,     *)
(* upvalues, nested functions and pcs from 1.  The all-ones count operand  *)
(* that means "every value there is" is Open(lim).                         *)
(*                                                                         *)
(* lim is the record of the limits of src/src/limits.rs that the compiler  *)
(* and the verifier share; a model gives it small values.                  *)
(***************************************************************************)
EXTENDS Integers, Sequences, SequencesExt

(* u16::MAX: as a count operand "all", and one past the last register count *)
Open(lim) == lim.open

Instr(op, a, b, c) == [op |-> op, f |-> "", a |-> a, b |-> b, c |-> c, d |-> 0, sj |-> 0]

(* Rows of opcodes that differ in their operator only *)
OpInstr(op, f, a, b, c) == [Instr(op, a, b, c) EXCEPT !.f = f]

(* The byte operand d: a cache slot (0 is none), a template entry, a method call *)
WithD(ins, d) == [ins EXCEPT !.d = d]

ArithOps == {"+", "-", "*", "^"}
CompareOps == {"<", "<=", ">", ">=", "==", "~="}

Ariths == {"ARITH_RR", "ARITH_RK", "ARITH_KR"}
Jumps == {"JMP", "BR", "TEST_FALSE", "TEST_TRUE", "FOR_PREP", "FOR_LOOP", "TFOR_LOOP"}

(* Builtin: the library globals that live in fixed slots *)
Builtins == {"setmetatable"}

(* Opcodes whose d operand is the 1-based slot of an inline cache *)
FieldReads == {"GET_FIELD", "SELF"}

ProducesOpen(ins, lim) ==
    \/ ins.op = "CALL" /\ ins.c = Open(lim)
    \/ ins.op = "VARARG" /\ ins.b = Open(lim)

ConsumesOpen(ins, lim) ==
    ins.op \in {"CALL", "TAILCALL", "RETURN", "SET_LIST"} /\ ins.b = Open(lim)

-----------------------------------------------------------------------------
(* Values.  A number is an integer and the sign of its zero; a string is the
   sequence of the literals and numerals it was put together from; a table,
   a closure and a host function are names *)
Nil == [t |-> "nil"]
Bool(b) == [t |-> "bool", b |-> b]
NumZ(n, z) == [t |-> "num", n |-> n, z |-> z /\ n = 0]
Num(n) == NumZ(n, FALSE)
Str(s) == [t |-> "str", s |-> s]
Atom(a) == Str(<<a>>)
TableRef(i) == [t |-> "table", i |-> i]
ClosureRef(i) == [t |-> "closure", c |-> i]
HostFn(h) == [t |-> "host", h |-> h]

Truthy(v) == v # Nil /\ v # Bool(FALSE)
Negative(v) == v.n < 0 \/ v.z

(* IEEE arithmetic on integers small enough to be exact *)
RECURSIVE IntPow(_, _)
IntPow(n, k) == IF k = 0 THEN 1 ELSE n * IntPow(n, k - 1)

ArithNum(f, x, y) ==
    CASE f = "+" -> NumZ(x.n + y.n, x.z /\ y.z)
      [] f = "-" -> NumZ(x.n - y.n, x.z /\ y.n = 0 /\ ~y.z)
      [] f = "*" -> NumZ(x.n * y.n, Negative(x) # Negative(y))
      [] f = "^" -> NumZ(IntPow(x.n, y.n), x.z /\ y.n % 2 = 1)

NegNum(x) == NumZ(-x.n, ~x.z)

(* Equality of values: the two zeros are one *)
RawEq(x, y) == IF x.t = "num" /\ y.t = "num" THEN x.n = y.n ELSE x = y

(* number_to_string, and the key a number is stored under *)
Numeral(x) == IF x.z THEN "-0" ELSE ToString(x.n)
Pieces(v) == IF v.t = "num" THEN <<Numeral(v)>> ELSE v.s
KeyOf(v) == IF v.t = "num" THEN Num(v.n) ELSE v
=============================================================================
