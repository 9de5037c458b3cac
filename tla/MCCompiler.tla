----------------------------- MODULE MCCompiler -----------------------------
(***************************************************************************)
(* A behaviour compiles and runs a sample program (CompilerPipeline), or   *)
(* lexes a source (Lexer).                                                 *)
(***************************************************************************)
EXTENDS CompilerPipeline, Lexer

AllPrograms == Lua!SourcePrograms \cup Lua!LimitPrograms \cup Lua!BytecodePrograms
-----------------------------------------------------------------------------
(* Sources around strings, numerals, comments of both kinds and operators *)
UpTo(set, n) == UNION {[1 .. k -> set] : k \in 0 .. n}

StringSources == {<<"'">> \o b : b \in UpTo({"'", "\\", "x", "1", "9", "z", "LF", "CR"}, 4)}
    \cup {<<"\"", "\\", c>> \o e : c \in {"\"", "a", "d", "n", "\\"}, e \in {<<"\"">>, <<>>}}
NumeralSources == {<<c>> \o b : c \in {"0", "."}, b \in UpTo({"x", "1", "e", "p", "+", ".", "a"}, 4)}
CommentSources == {<<"-", "-">> \o b : b \in UpTo({"-", "[", "]", "=", "LF", "CR", "a"}, 3)}
    \cup {<<"-", "-", "[">> \o b \o e : b \in {<<"[">>, <<"=", "[">>}, e \in UpTo({"]", "=", "CR"}, 5)}
    \cup {[i \in 1 .. 5 |-> IF i = 5 THEN "a" ELSE e[i]] : e \in [1 .. 4 -> {"CR", "LF", " "}]}
WordSources == UpTo({"=", "~", "<", "o", "r", ".", "-", "[", "lead", "cont"}, 3)
    \cup {Goto, Goto \o <<"a">>, <<"(", "$">>}

AllSources == StringSources \cup NumeralSources \cup CommentSources \cup WordSources
SomeKeywords == {<<"o", "r">>, Goto}
-----------------------------------------------------------------------------
NoProgram == [kind |-> "none", lim |-> <<>>]
NoSource == <<>>

PipelineIdle ==
    /\ program = NoProgram /\ lim = <<>> /\ parser = <<>> /\ unit = Unloaded /\ report = <<>> /\ meaning = <<>>
    /\ MachineInit
LexerIdle ==
    /\ src = NoSource /\ scan = <<>> /\ ahead = <<>> /\ taken = <<>> /\ last = <<>> /\ fault = NoFault

CompilerInit == (Init /\ LexerIdle) \/ (PipelineIdle /\ LexInit)
CompilerNext ==
    \/ program.kind # "none" /\ Next /\ UNCHANGED lexVars
    \/ program.kind = "none" /\ LexNext /\ UNCHANGED vars
CompilerSpec == CompilerInit /\ [][CompilerNext]_<<vars, lexVars>>
=============================================================================
