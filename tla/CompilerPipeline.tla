-------------------------- MODULE CompilerPipeline --------------------------
(***************************************************************************)
(* From source to execution (src/src/compiler.rs and State::load_string):  *)
(* a program is parsed, generated, given its cache slots, verified, and    *)
(* run on the register machine.  Bytecode that did not come from the       *)
(* compiler, as in a snapshot, enters at the verifier.                     *)
(***************************************************************************)
EXTENDS RegisterMachine

CONSTANTS Programs  \* what may be loaded: source, or bytecode, with its limits and arguments

VARIABLES
    program,  \* what is loaded
    parser,   \* the parser at work, or None once it is done
    report,   \* the globals the parser reported
    meaning   \* the evaluation of the source tree, once the code has run

vars == <<program, parser, report, meaning, unit, lim, machine>>

LuaC == INSTANCE LuaParser
Lua == INSTANCE LuaMeaning

Unloaded == <<>>

(* Eight calls of an agenda are one step *)
ParseTwice(p) == LuaC!ParseStep(LuaC!ParseStep(p))
ParseBurst(p) == ParseTwice(ParseTwice(ParseTwice(ParseTwice(p))))
MeanTwice(s) == Lua!MeaningStep(Lua!MeaningStep(s))
MeanBurst(s) == MeanTwice(MeanTwice(MeanTwice(MeanTwice(s))))

Init ==
    /\ program \in Programs
    /\ lim = program.lim
    /\ parser = IF program.kind = "source" THEN LuaC!Parser(Lua!WriteStmts(program.body), lim) ELSE <<>>
    /\ unit = Unloaded /\ report = <<>> /\ meaning = <<>>
    /\ MachineInit

Loading == unit = Unloaded /\ Running
Compiling == Loading /\ program.kind = "source"

Parse ==
    /\ Compiling /\ ~LuaC!Parsed(parser)
    /\ parser' = ParseBurst(parser)
    /\ UNCHANGED <<program, report, meaning, unit, lim, machine>>

Refuse ==
    /\ Compiling /\ parser.err # ""
    /\ outcome' = Ended("refused", parser.err)
    /\ parser' = <<>>
    /\ UNCHANGED <<program, report, meaning, unit, lim, stack, frames, cells, closures, heap, env, trace>>

(* A unit that passed the verifier is called; another is refused *)
Admission(bc) ==
    IF Admitted(bc, 1, lim)
    THEN /\ unit' = bc
         /\ Entered(bc, program.args)
         /\ UNCHANGED <<cells, closures, heap, env, trace, outcome>>
    ELSE /\ outcome' = Ended("rejected", <<>>)
         /\ UNCHANGED <<unit, stack, frames, cells, closures, heap, env, trace>>

(* What the parser accepted gets its cache slots and is verified *)
LoadSource ==
    /\ Compiling /\ LuaC!Parsed(parser) /\ parser.err = ""
    /\ report' = parser.globals /\ parser' = <<>>
    /\ \E bc \in {Finalize(LuaC!Got(parser), lim)} : Admission(bc)
    /\ UNCHANGED <<program, meaning, lim>>

LoadBytecode ==
    /\ Loading /\ program.kind = "bytecode"
    /\ Admission(program.body)
    /\ UNCHANGED <<program, parser, report, meaning, lim>>

Execute == Step /\ UNCHANGED <<program, parser, report, meaning>>

(* What the source means is worked out when its code has ended *)
HasRun == ~Running /\ outcome[1] \notin {"refused", "rejected"} /\ program.kind = "source"
StartMeaning ==
    /\ HasRun /\ meaning = <<>>
    /\ meaning' = Lua!Start(program.body, program.args, Globals)
    /\ UNCHANGED <<program, parser, report, unit, lim, machine>>
Mean ==
    /\ HasRun /\ meaning # <<>> /\ meaning.end = ""
    /\ meaning' = MeanBurst(meaning)
    /\ UNCHANGED <<program, parser, report, unit, lim, machine>>

Judged == IF HasRun THEN meaning # <<>> /\ meaning.end # "" ELSE ~Running
Done == Judged /\ UNCHANGED vars

Next ==
    \/ Parse \/ Refuse \/ LoadSource \/ LoadBytecode
    \/ Execute
    \/ StartMeaning \/ Mean
    \/ Done

Spec == Init /\ [][Next]_vars

-----------------------------------------------------------------------------
(***************************************************************************)
(* A program the parser accepts is code the verifier admits, and what it   *)
(* refuses it refuses for a limit or a syntax error: no internal fault and *)
(* no debug assertion of the generator is reachable from source.           *)
(***************************************************************************)
CompiledCodeIsAdmitted ==
    /\ program.kind = "source" /\ ~Running => outcome[1] # "rejected"
    /\ ~Running /\ outcome[1] = "refused" => outcome[2] \notin {"internal", "assertion"}

(***************************************************************************)
(* Compiled code emits what its source means and ends as it does; code     *)
(* stopped for too many arguments or results has emitted a prefix of it.   *)
(* (A refused program has no code; a fault is not an ending of any source.)*)
(***************************************************************************)
CompiledCodeMeansItsSource ==
    HasRun /\ Judged => IF outcome[1] = "limit" THEN IsPrefix(trace, Lua!Outcome(meaning).trace)
                        ELSE [trace |-> trace, outcome |-> outcome] = Lua!Outcome(meaning)

(***************************************************************************)
(* The uses of global names that the parser reports while it resolves      *)
(* names scope by scope, and turns from reads into writes afterwards, are  *)
(* the free names of the source in the order of the text.                  *)
(***************************************************************************)
FreeNamesAreReported == program.kind = "source" /\ unit # Unloaded /\ Running /\ trace = <<>> =>
    report = Lua!FreeBody(program.body, {})

(***************************************************************************)
(* Code that passed the verifier, whoever made it, runs inside its frames: *)
(* the registers of the running frame end where its max_stack says, except *)
(* right between an open producer and its consumer, whose own window is    *)
(* there; a suspended frame ends below the callee it waits for; and an     *)
(* open upvalue is at a slot of its own that the stack still holds.        *)
(***************************************************************************)
WindowSlot(f, ins) == f.base + (IF ins.op = "RETURN" THEN ins.a - 1 ELSE ins.a)
CalleeSlot(f) == IF Pending(f).op = "CALL" THEN f.base + Pending(f).a ELSE FrameTop(f) + 1
CodeStaysInItsFrames ==
    Running /\ frames # <<>> =>
        LET f == Last(frames)
            code == Proto(f.path).code
        IN  /\ f.pc \in DOMAIN code
            /\ IF ConsumesOpen(code[f.pc], lim) THEN WindowSlot(f, code[f.pc]) <= Len(stack)
                                                ELSE Len(stack) = FrameTop(f)
            /\ \A i \in 1 .. Len(frames) - 1 : frames[i + 1].base = CalleeSlot(frames[i]) + 1
            /\ \A i \in DOMAIN cells : cells[i].at <= Len(stack)
            /\ \A i, j \in DOMAIN cells : cells[i].at # 0 /\ cells[i].at = cells[j].at => i = j
=============================================================================
