------------------------------- MODULE Calls -------------------------------
(***************************************************************************)
(* Calls (src/vm/eval.rs, frame.rs, inventory.rs, the boundaries of vm.rs).*)
(* Lua functions call each other inside one dispatch-loop invocation; a    *)
(* call made from Rust (by the host, a callback, the library, or the VM    *)
(* for a metamethod) starts a native level of its own.  The module keeps   *)
(* what a call in progress holds, InFlight, and the native levels above    *)
(* it, through success, errors handled or passed on by callbacks, panics,  *)
(* tail calls, `__call` chains, and an interrupt raised by another thread. *)
(* Stack contents are left out: only lengths and bounds remain.            *)
(***************************************************************************)
EXTENDS Integers, Sequences

CONSTANTS
    MaxCallDepth,        \* limits::MAX_CALL_DEPTH
    MaxNativeCallDepth,  \* limits::MAX_NATIVE_CALL_DEPTH
    MaxMetamethodDepth,  \* limits::MAX_METAMETHOD_DEPTH
    MaxStackSize,        \* limits::MAX_STACK_SIZE
    MaxArguments,        \* limits::MAX_ARGUMENTS
    MaxResults,          \* limits::MAX_RESULTS
    FrameHeadroom,       \* eval::FRAME_HEADROOM
    Width,               \* Bytecode::max_stack of every function
    MaxHostSlots,        \* bound on the values the host pushes for itself
    Args,                \* the argument counts tried
    Expected,            \* the result counts tried
    Callees,             \* what is called: n callable objects, then a function,
                         \* or a value no one can call
    MaxCallbackCalls,    \* bound on the calls one callback makes
    MayInterrupt,        \* whether another thread holds the Interrupt
    LoopPhases           \* 1 hides a loop that does nothing else, 2 shows it

ASSUME CallsAssumption ==
    /\ MaxCallDepth \in Nat \ {0} /\ MaxNativeCallDepth \in Nat \ {0}
    /\ MaxMetamethodDepth \in Nat /\ MaxStackSize \in Nat
    /\ MaxArguments \in Nat /\ MaxResults \in Nat
    /\ FrameHeadroom \in Nat /\ Width \in Nat \ {0}
    /\ MaxHostSlots \in 0 .. MaxStackSize /\ Args \subseteq 0 .. MaxArguments /\ Expected \subseteq Nat
    /\ Callees \subseteq
          [chain : Nat, target : {"lua"}, proto : [params : Nat, vararg : BOOLEAN]]
          \cup [chain : Nat, target : {"host", "library", "none"}]
    /\ MaxCallbackCalls \in Nat /\ LoopPhases \in Nat \ {0} /\ MayInterrupt \in BOOLEAN

VARIABLES
    st,         \* the stack's length and InFlight
    natives,    \* the native levels, innermost last
    raised,     \* an error is on its way to the next boundary
    unwinding,  \* a panic is on its way: "no", "panic" or "marker"
    poisoned,   \* State::poisoned
    interrupt,  \* Interrupt, shared with other threads
    outcome,    \* what the last host call failed with, if it did
    phase       \* of a loop without calls

vars == <<st, natives, raised, unwinding, poisoned, interrupt, outcome, phase>>

AtRest(s) ==
    /\ s.bottom = 0 /\ s.records = <<>> /\ s.varargs = 0
    /\ s.callDepth = 0 /\ s.metaDepth = 0 /\ s.nativeDepth = 0
    /\ s.active = "none"

Init ==
    /\ st = [top |-> 0, bottom |-> 0, records |-> <<>>, varargs |-> 0, callDepth |-> 0,
             metaDepth |-> 0, nativeDepth |-> 0, active |-> "none"]
    /\ natives = <<>> /\ raised = FALSE /\ unwinding = "no"
    /\ poisoned = FALSE /\ interrupt = FALSE /\ outcome = "none" /\ phase = 0

Last(s) == s[Len(s)]
Front(s) == SubSeq(s, 1, Len(s) - 1)

(* CallInfo *)
Records == [chain : 0 .. MaxMetamethodDepth, tail : BOOLEAN, varargStart : Nat]

(* A call made from Rust, a callback, and an invocation of the dispatch loop *)
CallLevels == [kind : {"call"}, idx : Nat, old : Nat, results : Nat, guarded : BOOLEAN]
RustLevels ==
    [kind : {"rust"}, base : Nat, old : Nat, previous : {"none", "host", "library"},
     charges : Nat, via : {"native", "lua", "tail"}, calls : 0 .. MaxCallbackCalls]
RunLevels == [kind : {"run"}, frames : Seq(Nat)]
Natives == CallLevels \cup RustLevels \cup RunLevels

TypeOK ==
    /\ st \in [top : 0 .. MaxStackSize, bottom : Nat, records : Seq(Records), varargs : Nat,
               callDepth : 0 .. MaxCallDepth, metaDepth : 0 .. MaxMetamethodDepth,
               nativeDepth : 0 .. MaxNativeCallDepth, active : {"none", "host", "library"}]
    /\ natives \in Seq(Natives)
    /\ raised \in BOOLEAN /\ poisoned \in BOOLEAN /\ interrupt \in BOOLEAN
    /\ unwinding \in {"no", "panic", "marker"}
    /\ outcome \in {"none", "error", "poisoned", "panic"}
    /\ phase \in 0 .. LoopPhases - 1

-----------------------------------------------------------------------------
(* What is running: the host, a callback, or a Lua frame. *)
Steady == ~raised /\ unwinding = "no"
InHost == natives = <<>> /\ Steady
Innermost == Last(natives)
InCallback == Steady /\ natives # <<>> /\ Innermost.kind = "rust"
InLua == Steady /\ natives # <<>> /\ Innermost.kind = "run"
FrameBottom == Last(Innermost.frames)

(***************************************************************************)
(* pop_activation: the record gives back its chain units and its varargs.  *)
(***************************************************************************)
PopActivation(s) ==
    [s EXCEPT !.metaDepth = @ - Last(s.records).chain,
              !.varargs = Last(s.records).varargStart,
              !.records = Front(@), !.callDepth = @ - 1]

(***************************************************************************)
(* begin_callable_call: n callable objects are resolved before the callee  *)
(* is a function.  Each puts its handler in the callee's slot and itself   *)
(* before the arguments; every one but the last costs a metamethod unit.   *)
(***************************************************************************)
ChainFits(s, args, n) ==
    /\ args + n <= MaxArguments
    /\ s.top + n <= MaxStackSize
    /\ n = 0 \/ s.metaDepth + n - 1 <= MaxMetamethodDepth

Charges(n) == IF n = 0 THEN 0 ELSE n - 1

Resolved(s, n) == [s EXCEPT !.top = @ + n, !.metaDepth = @ + Charges(n)]

(***************************************************************************)
(* admit_lua_call, for the callee below the `args` topmost values.  The    *)
(* depth check discounts a caller that a tail call replaces; the interrupt *)
(* is polled before anything is pushed; the frame's registers and its      *)
(* headroom are checked against the stack cap last, and a refusal takes    *)
(* the record back.                                                        *)
(***************************************************************************)
DepthAllows(s, tail) == s.callDepth - (IF tail THEN 1 ELSE 0) < MaxCallDepth

Extra(proto, args) == IF proto.vararg /\ args > proto.params THEN args - proto.params ELSE 0

FrameFits(s, args) == s.top - args + Width + FrameHeadroom <= MaxStackSize

Admitted(s, proto, args, chain) ==
    [s EXCEPT !.callDepth = @ + 1,
              !.bottom = s.top - args,
              !.top = s.top - args + Width,
              !.records = Append(@, [chain |-> chain, tail |-> FALSE, varargStart |-> s.varargs]),
              !.varargs = @ + Extra(proto, args)]

(***************************************************************************)
(* begin_call on the callee at `idx`, from state s with the native levels  *)
(* ns; `via` says who asks.  Either a callback or a frame is entered, or   *)
(* an error is raised with the chain's units released.                     *)
(***************************************************************************)
CanBegin(s, args, callee, tail) ==
    /\ callee.target # "none"
    /\ ChainFits(s, args, callee.chain)
    /\ ~interrupt
    /\ callee.target = "lua" =>
          DepthAllows(s, tail) /\ FrameFits(Resolved(s, callee.chain), args + callee.chain)

Entered(s, idx, callee, via, ns) ==
    /\ st' = [Resolved(s, callee.chain) EXCEPT !.top = @ - 1, !.bottom = idx, !.active = callee.target]
    /\ natives' = Append(ns, [kind |-> "rust", base |-> idx, old |-> s.bottom, previous |-> s.active,
                              charges |-> Charges(callee.chain), via |-> via, calls |-> 0])
    /\ raised' = FALSE

Refused(s, ns) ==
    /\ st' = s
    /\ natives' = ns
    /\ raised' = TRUE

(***************************************************************************)
(* call_unguarded with `args` arguments above the callee.  ns are the      *)
(* levels of the caller.  At the native limit the call fails at once.      *)
(***************************************************************************)
CallUnguarded(s, args, callee, results, guarded, ns) ==
    LET idx == s.top - args - 1
        counted == [s EXCEPT !.nativeDepth = @ + 1]
        level == Append(ns, [kind |-> "call", idx |-> idx, old |-> s.bottom,
                             results |-> results, guarded |-> guarded])
    IN  IF s.nativeDepth >= MaxNativeCallDepth
        THEN IF ns # <<>> /\ Last(ns).kind = "run"
             THEN Refused([s EXCEPT !.top = idx], ns)
             ELSE st' = [s EXCEPT !.top = idx] /\ natives' = ns /\ raised' = FALSE
        ELSE IF ~CanBegin(counted, args, callee, FALSE) THEN Refused(counted, level)
        ELSE IF callee.target = "lua"
        THEN LET entry == Admitted(Resolved(counted, callee.chain), callee.proto,
                                   args + callee.chain, Charges(callee.chain))
             IN  /\ st' = entry
                 /\ natives' = Append(level, [kind |-> "run", frames |-> <<entry.bottom>>])
                 /\ raised' = FALSE
        ELSE Entered(counted, idx, callee, "native", level)

-----------------------------------------------------------------------------
(* The host pushes a value, clears the stack, or pushes a function and its *)
(* arguments and calls it.  A poisoned State refuses.                      *)
HostPush ==
    /\ InHost /\ ~poisoned /\ st.top < MaxHostSlots
    /\ st' = [st EXCEPT !.top = @ + 1]
    /\ UNCHANGED <<natives, raised, unwinding, poisoned, interrupt, outcome, phase>>

HostClear ==
    /\ InHost /\ ~poisoned
    /\ st' = [st EXCEPT !.top = 0]
    /\ UNCHANGED <<natives, raised, unwinding, poisoned, interrupt, outcome, phase>>

HostCall(args, callee, results) ==
    /\ InHost /\ ~poisoned
    /\ st.top <= MaxHostSlots /\ st.top + 1 + args <= MaxStackSize
    /\ CallUnguarded([st EXCEPT !.top = @ + 1 + args], args, callee, results, TRUE, <<>>)
    /\ outcome' = "none"
    /\ UNCHANGED <<unwinding, poisoned, interrupt, phase>>

HostRefused ==
    /\ InHost /\ poisoned
    /\ outcome' = "poisoned"
    /\ UNCHANGED <<st, natives, raised, unwinding, poisoned, interrupt, phase>>

(* Interrupt::trigger and reset, from any thread *)
Trigger ==
    /\ MayInterrupt /\ ~interrupt
    /\ interrupt' = TRUE
    /\ UNCHANGED <<st, natives, raised, unwinding, poisoned, outcome, phase>>

Reset ==
    /\ interrupt
    /\ interrupt' = FALSE
    /\ UNCHANGED <<st, natives, raised, unwinding, poisoned, outcome, phase>>

-----------------------------------------------------------------------------
(***************************************************************************)
(* A callback calls a function it pushes.  Host code calls through the     *)
(* guard, which refuses a poisoned State; the library does not.            *)
(***************************************************************************)
CallbackCall(args, callee, results) ==
    /\ InCallback /\ ~poisoned
    /\ Innermost.calls < MaxCallbackCalls
    /\ st.top + 1 + args <= MaxStackSize
    /\ CallUnguarded([st EXCEPT !.top = @ + 1 + args], args, callee, results, st.active = "host",
                     [natives EXCEPT ![Len(natives)].calls = @ + 1])
    /\ UNCHANGED <<unwinding, poisoned, interrupt, outcome, phase>>

(* finish_call at a native level: the results are adjusted to what the     *)
(* caller expects, against the stack cap.                                  *)
FinishCall(s, actual, ns) ==
    LET call == Last(ns)
        adjusted == s.top - actual + call.results
        below == Front(ns)
    IN  IF adjusted > MaxStackSize THEN Refused(s, ns)
        ELSE /\ st' = [s EXCEPT !.nativeDepth = @ - 1,
                                !.top = IF below # <<>> /\ Last(below).kind = "run"
                                        THEN Last(Last(below).frames) + Width ELSE adjusted]
             /\ natives' = below
             /\ raised' = FALSE

(***************************************************************************)
(* return_to_caller, or the end of run_invocation: the frame's results lie *)
(* from its function slot up, its record goes, and its caller continues.   *)
(***************************************************************************)
FrameReturns(s, actual, ns) ==
    LET popped == PopActivation(s)
        frames == Front(Last(ns).frames)
    IN  IF frames = <<>>
        THEN FinishCall([popped EXCEPT !.bottom = ns[Len(ns) - 1].old], actual, Front(ns))
        ELSE /\ st' = [popped EXCEPT !.bottom = Last(frames), !.top = Last(frames) + Width]
             /\ natives' = [ns EXCEPT ![Len(ns)].frames = frames]
             /\ raised' = FALSE

(***************************************************************************)
(* invoke_rust_fn after the callback returned: `pushed` values are on its  *)
(* stack above what was there and it reports `n` results.  On a State that *)
(* was poisoned meanwhile its execution is abandoned.                      *)
(***************************************************************************)
ReleasedBy(rust, s) == [s EXCEPT !.bottom = rust.old, !.active = rust.previous,
                                 !.metaDepth = @ - rust.charges]

CallbackReturns(pushed, n) ==
    /\ InCallback /\ ~poisoned
    /\ st.top + pushed <= MaxStackSize
    /\ LET rust == Innermost
           back == [ReleasedBy(rust, st) EXCEPT !.top = rust.base + n]
           ns == Front(natives)
       IN  IF n > st.top + pushed - rust.base THEN Refused(ReleasedBy(rust, st), ns)
           ELSE IF rust.via = "native" THEN FinishCall(back, n, ns)
           ELSE IF rust.via = "tail" THEN FrameReturns(back, n, ns)
           ELSE /\ st' = [back EXCEPT !.top = Last(Last(ns).frames) + Width]
                /\ natives' = ns /\ raised' = FALSE
    /\ UNCHANGED <<unwinding, poisoned, interrupt, outcome, phase>>

CallbackFailsHoldingUnits ==
    /\ InCallback /\ ~poisoned
    /\ Refused([st EXCEPT !.bottom = Innermost.old, !.active = Innermost.previous], Front(natives))
    /\ UNCHANGED <<unwinding, poisoned, interrupt, outcome, phase>>

CallbackFails ==
    /\ InCallback /\ ~poisoned
    /\ Refused(ReleasedBy(Innermost, st), Front(natives))
    /\ UNCHANGED <<unwinding, poisoned, interrupt, outcome, phase>>

CallbackResumesPoisoned ==
    /\ InCallback /\ poisoned
    /\ Refused(ReleasedBy(Innermost, st), Front(natives))
    /\ UNCHANGED <<unwinding, poisoned, interrupt, outcome, phase>>

(* A callback that swallowed a panic returns: PoisonUnwind is raised. *)
CallbackAbandoned ==
    /\ InCallback /\ poisoned
    /\ natives' = Front(natives)
    /\ unwinding' = "marker"
    /\ UNCHANGED <<st, raised, poisoned, interrupt, outcome, phase>>

CallbackPanics ==
    /\ InCallback
    /\ natives' = Front(natives)
    /\ unwinding' = "panic"
    /\ poisoned' = TRUE
    /\ UNCHANGED <<st, raised, interrupt, outcome, phase>>

-----------------------------------------------------------------------------
(* OP_CALL: the callee at register f; the window drops what lies above.    *)
LuaCall(f, args, callee) ==
    /\ InLua /\ f \in FrameBottom .. FrameBottom + Width - 1 - args
    /\ LET s == [st EXCEPT !.top = f + 1 + args]
       IN  IF ~CanBegin(s, args, callee, FALSE) THEN Refused(s, natives)
           ELSE IF callee.target = "lua"
           THEN LET entry == Admitted(Resolved(s, callee.chain), callee.proto,
                                      args + callee.chain, Charges(callee.chain))
                IN  /\ st' = entry
                    /\ natives' = [natives EXCEPT ![Len(natives)].frames = Append(@, entry.bottom)]
                    /\ raised' = FALSE
           ELSE Entered(s, f, callee, "lua", natives)
    /\ UNCHANGED <<unwinding, poisoned, interrupt, outcome, phase>>

(***************************************************************************)
(* OP_TAILCALL: the window slides into the caller's function slot and the  *)
(* caller's chain units are given back before the callee is resolved;      *)
(* replace_tail_caller then puts the callee's record in the caller's place *)
(* with the caller's vararg start.                                         *)
(***************************************************************************)
Slid(args) ==
    [st EXCEPT !.top = FrameBottom + args,
               !.bottom = FrameBottom - 1,
               !.metaDepth = @ - Last(st.records).chain,
               !.records[Len(st.records)].chain = 0]

ReplaceTailCaller(s) ==
    LET n == Len(s.records)
        callee == s.records[n]
        caller == s.records[n - 1]
    IN  [s EXCEPT !.records = Append(SubSeq(@, 1, n - 2),
                     [callee EXCEPT !.varargStart = caller.varargStart, !.tail = TRUE]),
                  !.varargs = @ - (callee.varargStart - caller.varargStart),
                  !.callDepth = @ - 1]

LuaTailCall(args, callee) ==
    /\ InLua /\ args < Width
    /\ LET s == Slid(args)
           idx == FrameBottom - 1
       IN  IF ~CanBegin(s, args, callee, TRUE) THEN Refused(s, natives)
           ELSE IF callee.target = "lua"
           THEN LET entry == ReplaceTailCaller(
                                 Admitted(Resolved(s, callee.chain), callee.proto,
                                          args + callee.chain, Charges(callee.chain)))
                IN  /\ st' = entry
                    /\ natives' = [natives EXCEPT ![Len(natives)].frames =
                                      Append(Front(@), entry.bottom)]
                    /\ raised' = FALSE
           ELSE Entered(s, idx, callee, "tail", natives)
    /\ UNCHANGED <<unwinding, poisoned, interrupt, outcome, phase>>

(* A metamethod, or an iterator of generic `for`: the window [handler,     *)
(* operands] goes above the frame, within its headroom.                    *)
MetaCall(args, callee) ==
    /\ InLua /\ args + 1 <= FrameHeadroom
    /\ CallUnguarded([st EXCEPT !.top = @ + 1 + args], args, callee, 1, FALSE, natives)
    /\ UNCHANGED <<unwinding, poisoned, interrupt, outcome, phase>>

(* OP_RETURN with n results on the stack, of which there can be too many *)
LuaReturn(n) ==
    /\ InLua /\ FrameBottom + n <= MaxStackSize
    /\ IF n > MaxResults THEN Refused(st, natives)
       ELSE FrameReturns([st EXCEPT !.top = FrameBottom - 1 + n], n, natives)
    /\ UNCHANGED <<unwinding, poisoned, interrupt, outcome, phase>>

(* A taken backward jump polls the interrupt; any instruction may fail. *)
LoopWithoutPoll ==
    /\ InLua
    /\ phase' = (phase + 1) % LoopPhases
    /\ UNCHANGED <<st, natives, raised, unwinding, poisoned, interrupt, outcome>>

Loop ==
    /\ InLua
    /\ IF interrupt THEN Refused(st, natives) /\ UNCHANGED phase
       ELSE phase' = (phase + 1) % LoopPhases /\ UNCHANGED <<st, natives, raised>>
    /\ UNCHANGED <<unwinding, poisoned, interrupt, outcome>>

LuaError ==
    /\ InLua
    /\ Refused(st, natives)
    /\ UNCHANGED <<unwinding, poisoned, interrupt, outcome, phase>>

-----------------------------------------------------------------------------
(* unwind_invocation, one frame of the failing invocation at a time *)
UnwindFrame ==
    /\ raised /\ Innermost.kind = "run"
    /\ LET below == Front(Innermost.frames)
           popped == [PopActivation(st) EXCEPT !.top = FrameBottom]
       IN  IF below = <<>>
           THEN /\ st' = [popped EXCEPT !.bottom = natives[Len(natives) - 1].old]
                /\ natives' = Front(natives)
           ELSE /\ st' = [popped EXCEPT !.bottom = Last(below)]
                /\ natives' = [natives EXCEPT ![Len(natives)].frames = below]
    /\ UNCHANGED <<raised, unwinding, poisoned, interrupt, outcome, phase>>

(* fail_call: the operands go, and the Rust caller has the error, or the   *)
(* Lua frame below is in error itself.                                     *)
FailCall ==
    /\ raised /\ Innermost.kind = "call"
    /\ st' = [st EXCEPT !.nativeDepth = @ - 1, !.top = Innermost.idx, !.bottom = Innermost.old]
    /\ natives' = Front(natives)
    /\ raised' = (natives' # <<>> /\ Last(natives').kind = "run")
    /\ outcome' = IF natives' = <<>> THEN "error" ELSE outcome
    /\ UNCHANGED <<unwinding, poisoned, interrupt, phase>>

(***************************************************************************)
(* A panic passes every level without cleanup.  A guarded boundary turns   *)
(* the marker into an error for its caller; host code there may also catch *)
(* a panic of its own.                                                     *)
(***************************************************************************)
Unwind ==
    /\ unwinding # "no" /\ natives # <<>>
    /\ LET level == Innermost
           stops == level.kind = "call" /\ level.guarded
       IN  /\ natives' = Front(natives)
           /\ \/ /\ stops /\ unwinding' = "no"
                 /\ outcome' = IF natives' = <<>>
                               THEN IF unwinding = "marker" THEN "poisoned" ELSE "panic"
                               ELSE outcome
              \/ /\ ~stops \/ (unwinding = "panic" /\ natives' # <<>>)
                 /\ UNCHANGED <<unwinding, outcome>>
    /\ UNCHANGED <<st, raised, poisoned, interrupt, phase>>

-----------------------------------------------------------------------------
VmStep ==
    \/ \E n \in 0 .. MaxResults + 1 : LuaReturn(n)
    \/ LuaError
    \/ Loop
    \/ \E args \in Args, callee \in Callees :
          \/ \E f \in 0 .. MaxStackSize : LuaCall(f, args, callee)
          \/ LuaTailCall(args, callee)
          \/ MetaCall(args, callee)
          \/ \E results \in Expected : CallbackCall(args, callee, results)
    \/ \E pushed, n \in Expected : CallbackReturns(pushed, n)
    \/ CallbackFails
    \/ CallbackAbandoned
    \/ CallbackPanics
    \/ UnwindFrame
    \/ FailCall
    \/ Unwind

HostStep ==
    \/ HostPush \/ HostClear \/ HostRefused
    \/ \E args \in Args, callee \in Callees, results \in Expected : HostCall(args, callee, results)

Next == VmStep \/ HostStep \/ Trigger \/ Reset

Spec == Init /\ [][Next]_vars /\ WF_vars(VmStep)

-----------------------------------------------------------------------------
(* What a native level holds: frames, metamethod units, a unit of native depth *)
FramesOf(level) == IF level.kind = "run" THEN Len(level.frames) ELSE 0
UnitsOf(level) == IF level.kind = "rust" THEN level.charges ELSE 0
CallsOf(level) == IF level.kind = "call" THEN 1 ELSE 0

(* The sum of a sequence of numbers *)
Total(x) ==
    LET t[n \in 0 .. Len(x)] == IF n = 0 THEN 0 ELSE t[n - 1] + x[n]
    IN  t[Len(x)]

AllFrames(ns) == Total([i \in 1 .. Len(ns) |-> FramesOf(ns[i])])
AllUnits(ns) == Total([i \in 1 .. Len(ns) |-> UnitsOf(ns[i])])
AllCalls(ns) == Total([i \in 1 .. Len(ns) |-> CallsOf(ns[i])])
AllChains(records) == Total([i \in 1 .. Len(records) |-> records[i].chain])

(* The headroom a frame reserved at admission, for its call windows *)
HeadroomHolds == InLua => st.top + FrameHeadroom <= MaxStackSize

(* The arena's bound per record, behind its u32 starts *)
VarargArenaIsBounded ==
    ~poisoned =>
        \A i \in DOMAIN st.records :
            LET end == IF i = Len(st.records) THEN st.varargs ELSE st.records[i + 1].varargStart
            IN  end - st.records[i].varargStart \in 0 .. MaxArguments

(***************************************************************************)
(* Whoever runs sees its own slots: stack_bottom is that of the innermost  *)
(* activation after every call, return, tail call and handled error, and a *)
(* Lua frame resumes with exactly its registers.                           *)
(***************************************************************************)
RunsInItsOwnSlots ==
    ~poisoned =>
        /\ InCallback => st.bottom = Innermost.base
        /\ InLua => st.bottom = FrameBottom /\ st.top = FrameBottom + Width

(***************************************************************************)
(* The accounting of a State in use, within its limits: every activation   *)
(* record belongs to one frame of one invocation, every metamethod unit is *)
(* held by one record or by one callback entered through a `__call` chain, *)
(* and the native depth is the number of calls made from Rust.  The depths *)
(* are in range, a frame still has the headroom it was admitted with when  *)
(* it pushes a call window, the vararg arena has at most MAX_ARGUMENTS     *)
(* values per record, tail calls included, and whoever runs sees its own   *)
(* slots.  When no call of the host is in progress the State is at rest    *)
(* (guarded's debug_assert_at_rest), however the calls ended.              *)
(***************************************************************************)
CountsMatch ==
    /\ TypeOK /\ HeadroomHolds /\ VarargArenaIsBounded /\ RunsInItsOwnSlots
    /\ ~poisoned =>
        /\ st.callDepth = Len(st.records)
        /\ Len(st.records) = AllFrames(natives)
        /\ st.metaDepth = AllChains(st.records) + AllUnits(natives)
        /\ st.nativeDepth = AllCalls(natives)
        /\ natives = <<>> => AtRest(st)

(***************************************************************************)
(* A call made from Rust leaves its caller's slots in place: on success    *)
(* its results, on failure nothing, where the callee was.                  *)
(***************************************************************************)
CallsKeepTheCallersSlots ==
    [][ Len(natives') < Len(natives) /\ ~poisoned' /\ (InHost' \/ InCallback') =>
            LET call == natives[Len(natives') + 1]
            IN  call.kind = "call" =>
                    /\ st'.bottom = call.old
                    /\ st'.top \in {call.idx, call.idx + call.results} ]_vars

(***************************************************************************)
(* Once a callback panicked, the State stays poisoned, no frame, call or   *)
(* invocation it abandoned runs or cleans up again, and the host's call    *)
(* never reports success or an ordinary error.                             *)
(***************************************************************************)
PoisonIsFinal ==
    [][ poisoned => /\ poisoned' /\ st' = st /\ \E n \in 0 .. Len(natives) : natives' = SubSeq(natives, 1, n)
                    /\ InHost' => outcome' \in {"panic", "poisoned"} ]_vars

(***************************************************************************)
(* Both: what an abandoned or a failed call leaves behind.                 *)
(***************************************************************************)
CallsEndCleanly == CallsKeepTheCallersSlots /\ PoisonIsFinal

(***************************************************************************)
(* An interrupt that stays raised ends every call in progress, as long as  *)
(* callbacks return: no loop, recursion or handled error outlives it.      *)
(***************************************************************************)
InterruptStops == <>[]interrupt => []<>(natives = <<>>)

(* Calls with and without a __call chain; a chain of two costs a unit and *)
(* gives the vararg function an extra argument.                           *)
SmallCallees ==
    [chain : {0, 2}, target : {"lua"}, proto : [params : {1}, vararg : {TRUE}]]
    \cup [chain : {0, 2}, target : {"host"}]
    \cup [chain : {0}, target : {"library", "none"}]
=============================================================================
