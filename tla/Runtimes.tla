------------------------------ MODULE Runtimes ------------------------------
(***************************************************************************)
(* The bytecode of programs and its State-local runtimes (src/vm.rs,       *)
(* src/vm/eval.rs, src/vm/object.rs, src/vm/object/collector.rs).          *)
(*                                                                         *)
(* A State keeps one runtime (interned literals and inline caches) for     *)
(* each bytecode it has made a closure of, in a map keyed by the address   *)
(* of the bytecode.  Bytecode is freed when nothing holds it, and another  *)
(* program may then be compiled to the same address.  Interning a literal  *)
(* and allocating a closure may each run the collector, which sweeps the   *)
(* map as well as the heap.                                                *)
(***************************************************************************)
EXTENDS Naturals, Sequences, Functions, TLC

CONSTANTS
    Addrs,          \* addresses of bytecode
    Protos,         \* functions of the source programs
    Mains,          \* those that are whole programs
    Kids,           \* Kids[p]: the functions nested directly in p
    Literals,       \* Literals[p]: the string literals of p, a sequence
    Objs,           \* heap slots for closures
    Runtimes,       \* runtimes
    None,
    MaxFrames       \* bound on the call stack

Strings == UNION {Range(Literals[p]) : p \in Protos}

(* What the variables hold *)
Code == [proto : Protos, nested : SUBSET Addrs]
Entries == [proto : Protos, rt : Runtimes]
Pairs == [bc : Addrs, rt : Runtimes]

ASSUME FunctionsAreNested == Mains \subseteq Protos /\ Kids \in [Protos -> SUBSET Protos]
ASSUME LiteralsAreListed == Literals \in [Protos -> Seq(Strings)]
ASSUME NoneIsNoValue == None \notin Code \cup Entries \cup Pairs
ASSUME FramesAreBounded == MaxFrames \in Nat

VARIABLES
    code,       \* code[a]: the bytecode last placed at a, [proto, nested]
    programs,   \* the bytecode the host holds a Program for
    entries,    \* bytecode_caches: [proto, rt] or None
    literals,   \* literals[r]: the strings runtime r was built with
    closures,   \* the heap's closures: [bc, rt] or None
    rooted,     \* the closures reachable from the roots
    strings,    \* the live interned strings
    frames,     \* call_stack, oldest first: [bc, rt]
    op          \* the closure being made

vars == <<code, programs, entries, literals, closures, rooted, strings, frames, op>>

Idle == [phase |-> "idle"]

Entered == {a \in Addrs : entries[a] # None}
Closures == {o \in Objs : closures[o] # None}

Init ==
    /\ code = [a \in Addrs |-> None] /\ programs = {}
    /\ entries = [a \in Addrs |-> None]
    /\ literals = [r \in Runtimes |-> {}]
    /\ closures = [o \in Objs |-> None] /\ rooted = {}
    /\ strings = {} /\ frames = <<>> /\ op = Idle

-----------------------------------------------------------------------------
(* The nested functions of a set of bytecodes, the set itself included *)
Closed(S) == \A a \in S : code[a].nested \subseteq S

Written == {a \in Addrs : code[a] # None}

Trees(S) ==
    {a \in Written : \A T \in SUBSET Written : S \subseteq T /\ Closed(T) => a \in T}

Making == IF op = Idle THEN {} ELSE {op.bc}
Running == {frames[i].bc : i \in DOMAIN frames}

(* The bytecode some Arc keeps in memory *)
Held == Trees(programs \cup Entered \cup Running \cup Making \cup {closures[o].bc : o \in Closures})

(* The runtimes some Arc keeps in memory *)
HeldRuntimes ==
    {entries[a].rt : a \in Entered} \cup {closures[o].rt : o \in Closures}
    \cup {frames[i].rt : i \in DOMAIN frames}
    \cup (IF op.phase = "alloc" THEN {op.rt} ELSE {})

(* The functions of a program *)
Family(main) ==
    {p \in Protos : \A T \in SUBSET Protos :
        main \in T /\ (\A q \in T : Kids[q] \subseteq T) => p \in T}

(* The host, on any thread, compiles a program: its functions take free addresses *)
Compile ==
    /\ \E main \in Mains :
          LET fns == Family(main)
          IN  \E place \in [fns -> Addrs \ Held] :
                 /\ \A p, q \in fns : place[p] = place[q] => p = q
                 /\ code' = [a \in Addrs |->
                        IF \E p \in fns : place[p] = a
                        THEN LET p == CHOOSE p \in fns : place[p] = a
                             IN  [proto |-> p, nested |-> {place[k] : k \in Kids[p]}]
                        ELSE IF a \in Held THEN code[a] ELSE None]
                 /\ programs' = programs \cup {place[main]}
    /\ UNCHANGED <<entries, literals, closures, rooted, strings, frames, op>>

(* The host, on any thread, drops its Program *)
DropProgram ==
    /\ \E a \in programs : programs' = programs \ {a}
    /\ UNCHANGED <<code, entries, literals, closures, rooted, strings, frames, op>>

-----------------------------------------------------------------------------
(* push_chunk on a program, or reg_closure on a function of the running one *)
Closable ==
    programs \cup (IF frames = <<>> THEN {} ELSE code[frames[Len(frames)].bc].nested)

BeginClosure ==
    /\ op = Idle
    /\ \E a \in Closable :
          op' = IF entries[a] # None
                THEN [phase |-> "alloc", bc |-> a, rt |-> entries[a].rt]
                ELSE [phase |-> "intern", bc |-> a, done |-> {},
                      left |-> Literals[code[a].proto]]
    /\ UNCHANGED <<code, programs, entries, literals, closures, rooted, strings, frames>>

(* resolve_bytecode_runtime: one literal is interned and transiently rooted *)
InternLiteral ==
    /\ op.phase = "intern" /\ op.left # <<>>
    /\ strings' = strings \cup {Head(op.left)}
    /\ op' = [op EXCEPT !.done = @ \cup {Head(op.left)}, !.left = Tail(@)]
    /\ UNCHANGED <<code, programs, entries, literals, closures, rooted, frames>>

(* All literals are there: the runtime is built and entered *)
EnterRuntime ==
    /\ op.phase = "intern" /\ op.left = <<>>
    /\ \E r \in Runtimes \ HeldRuntimes :
          /\ literals' = [literals EXCEPT ![r] = op.done]
          /\ entries' = [entries EXCEPT ![op.bc] = [proto |-> code[op.bc].proto, rt |-> r]]
          /\ op' = [phase |-> "alloc", bc |-> op.bc, rt |-> r]
    /\ UNCHANGED <<code, programs, closures, rooted, strings, frames>>

(* alloc_closure, after its collection check; the result goes to the stack *)
AllocClosure ==
    /\ op.phase = "alloc"
    /\ \E o \in Objs \ Closures :
          /\ closures' = [closures EXCEPT ![o] = [bc |-> op.bc, rt |-> op.rt]]
          /\ rooted' = rooted \cup {o}
    /\ op' = Idle
    /\ UNCHANGED <<code, programs, entries, literals, strings, frames>>

-----------------------------------------------------------------------------
(* A call runs the closure's bytecode with the closure's runtime *)
Call ==
    /\ op = Idle /\ Len(frames) < MaxFrames
    /\ \E o \in rooted : frames' = Append(frames, closures[o])
    /\ UNCHANGED <<code, programs, entries, literals, closures, rooted, strings, op>>

Return ==
    /\ op = Idle /\ frames # <<>>
    /\ frames' = SubSeq(frames, 1, Len(frames) - 1)
    /\ UNCHANGED <<code, programs, entries, literals, closures, rooted, strings, op>>

(* replace_tail_caller: the callee's record takes the caller's place *)
TailCall ==
    /\ op = Idle /\ frames # <<>>
    /\ \E o \in rooted : frames' = [frames EXCEPT ![Len(frames)] = closures[o]]
    /\ UNCHANGED <<code, programs, entries, literals, closures, rooted, strings, op>>

(* The program overwrites its last reference, the running function's included *)
DropRoot ==
    /\ op = Idle
    /\ \E o \in rooted : rooted' = rooted \ {o}
    /\ UNCHANGED <<code, programs, entries, literals, closures, strings, frames, op>>

-----------------------------------------------------------------------------
(* The roots of strings: the literals of every entry and the values in flight *)
MarkedStrings ==
    (UNION {literals[entries[a].rt] : a \in Entered})
    \cup (IF op.phase = "intern" THEN op.done ELSE {})

(* Tracing a closure flags its runtime; the flagged entries are retained *)
Reached == {a \in Entered : \E o \in rooted : closures[o].rt = entries[a].rt}

Pending == IF op.phase = "alloc" THEN {op.bc} ELSE {}

RetainedPendingFirst == Trees((Running \cup Reached) \ Pending) \cup Pending

(* sweep_bytecode_caches: whole trees for what runs, the pending one alone *)
Retained == Trees(Running \cup Reached) \cup Pending

(* Every allocation may collect; building the runtime allocates nothing *)
CanCollect == op.phase = "intern" => op.left # <<>>

Collect ==
    /\ CanCollect
    /\ entries' = [a \in Addrs |-> IF a \in Retained THEN entries[a] ELSE None]
    /\ closures' = [o \in Objs |-> IF o \in rooted THEN closures[o] ELSE None]
    /\ strings' = strings \cap MarkedStrings
    /\ UNCHANGED <<code, programs, literals, rooted, frames, op>>

Next ==
    \/ Compile \/ DropProgram
    \/ BeginClosure \/ InternLiteral \/ EnterRuntime \/ AllocClosure
    \/ Call \/ TailCall \/ Return \/ DropRoot
    \/ Collect

Spec == Init /\ [][Next]_vars

-----------------------------------------------------------------------------
(* The pairs of a bytecode and a runtime that execute or will *)
InUse ==
    {closures[o] : o \in Closures} \cup {frames[i] : i \in DOMAIN frames}
    \cup (IF op.phase = "alloc" THEN {[bc |-> op.bc, rt |-> op.rt]} ELSE {})

TypeOK ==
    /\ code \in [Addrs -> Code \cup {None}] /\ programs \subseteq Written
    /\ entries \in [Addrs -> Entries \cup {None}]
    /\ literals \in [Runtimes -> SUBSET Strings]
    /\ closures \in [Objs -> Pairs \cup {None}] /\ rooted \subseteq Closures
    /\ strings \subseteq Strings
    /\ frames \in Seq(Pairs) /\ Len(frames) <= MaxFrames
    /\ \/ op = Idle
       \/ op \in [phase : {"intern"}, bc : Addrs, done : SUBSET Strings, left : Seq(Strings)]
       \/ op \in [phase : {"alloc"}, bc : Addrs, rt : Runtimes]

(***************************************************************************)
(* Whatever can execute uses the one runtime the map holds for its         *)
(* bytecode, with that function's literals, all alive although closures do *)
(* not mark them, and an entry describes the bytecode that is at its       *)
(* address now: no collection, inside the making of a closure or between   *)
(* two interned literals, drops a runtime or a literal in use, and no      *)
(* reused address finds another program's (check_closure_runtimes,         *)
(* alloc_closure's assertion, resolve_bytecode_runtime, mark_children).    *)
(***************************************************************************)
RuntimesAreCached ==
    /\ TypeOK
    /\ \A u \in InUse : entries[u.bc] # None /\ entries[u.bc].rt = u.rt
    /\ \A a \in Entered : code[a] # None /\ code[a].proto = entries[a].proto
    /\ \A u \in InUse :
          /\ literals[u.rt] = Range(Literals[code[u.bc].proto])
          /\ literals[u.rt] \subseteq strings
    /\ op.phase = "intern" => op.done \subseteq strings

(***************************************************************************)
(* A collection never drops the runtime of a function nested, at any       *)
(* depth, in one that runs or that a reachable closure has, even while     *)
(* another closure of the same function is being made                      *)
(* (LiveChunks, retain_bytecode_tree).                                     *)
(***************************************************************************)
NestedRuntimesSurvive ==
    [][\A a \in Entered :
          (\E u \in {frames[i] : i \in DOMAIN frames} \cup {closures[o] : o \in rooted} :
              a \in Trees({u.bc}))
          => entries'[a] = entries[a]]_vars

(***************************************************************************)
(* Both of the above: what can execute is cached, and no sweep takes the   *)
(* runtime of a nested function away (retain_bytecode_runtimes).           *)
(***************************************************************************)
RuntimesOutliveTheirUse == []RuntimesAreCached /\ NestedRuntimesSurvive

-----------------------------------------------------------------------------
(* Two programs that share a literal; one has a nested function *)
SmallProtos == {"main", "inner", "other"}
SmallMains == {"main", "other"}
SmallKids == ("main" :> {"inner"}) @@ ("inner" :> {}) @@ ("other" :> {})
SmallLiterals == ("main" :> <<"a", "b">>) @@ ("inner" :> <<"b">>) @@ ("other" :> <<"b", "c">>)

Interchangeable ==
    Permutations(Addrs) \cup Permutations(Objs) \cup Permutations(Runtimes)
=============================================================================
