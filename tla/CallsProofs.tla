---------------------------- MODULE CallsProofs ----------------------------
(***************************************************************************)
(* The accounting of a State in use, and how calls end, for every limit,   *)
(* every argument and result count and every callee.                       *)
(***************************************************************************)
EXTENDS CallsSteps

-----------------------------------------------------------------------------
(* The end of a callback, and errors on their way *)

LEMMA CallbackFacts ==
    ASSUME Core(st, natives), natives # <<>>, Last(natives).kind = "rust"
    PROVE  LET rust == Last(natives)
               ns == Front(natives)
           IN  /\ rust \in RustLevels /\ rust.base \in Nat /\ rust.old \in Nat
               /\ natives \in Seq(Natives) /\ ns \in Seq(Natives) /\ ns # <<>> /\ Sound(ns)
               /\ Len(ns) \in Nat \ {0} /\ natives[Len(ns)] = Last(ns) /\ RustOver(rust, Last(ns))
               /\ rust.via \in {"native", "lua", "tail"}
<1> DEFINE rust == Last(natives)
           ns == Front(natives)
<1>1. /\ rust \in Natives /\ Fits(rust, ns) /\ natives \in Seq(Natives) /\ Sound(ns) /\ rust.kind = "rust"
    BY CoreTop, CoreSound, SoundPop
<1>2. rust \in RustLevels
    BY <1>1, Kinds
<1>3. ns # <<>> /\ RustOver(rust, Last(ns))
    BY <1>1 DEF Fits, Outermost, Above
<1>4. ns \in Seq(Natives) /\ Len(ns) = Len(natives) - 1 /\ \A i \in 1 .. Len(natives) - 1 : ns[i] = natives[i]
    BY <1>1, Split
<1>5. Len(ns) \in Nat \ {0}
    BY <1>3, <1>4, EmptySeq
<1>6. natives[Len(ns)] = Last(ns)
    BY <1>4, <1>5 DEF Last
<1>7. rust.base \in Nat /\ rust.old \in Nat /\ rust.via \in {"native", "lua", "tail"}
    BY <1>2 DEF RustLevels
<1> QED
    BY <1>1, <1>2, <1>3, <1>4, <1>5, <1>6, <1>7

LEMMA ReleasedCore ==
    ASSUME Core(st, natives), natives # <<>>, Last(natives).kind = "rust"
    PROVE  LET t == ReleasedBy(Last(natives), st)
           IN  Core(t, Front(natives)) /\ t.bottom = Last(natives).old
<1> DEFINE rust == Last(natives)
           t == ReleasedBy(rust, st)
<1>1. rust \in RustLevels /\ rust.old \in Nat
    BY CallbackFacts
<1>2. st \in States /\ UnitsOf(rust) \in 0 .. st.metaDepth
    BY CoreSound, CoreTop
<1>3. rust.charges \in Nat /\ UnitsOf(rust) = rust.charges /\ CallsOf(rust) = 0 /\ rust.previous \in {"none", "host", "library"}
    BY <1>1 DEF RustLevels, UnitsOf, CallsOf
<1>4. st.metaDepth \in Nat /\ st.metaDepth <= MaxMetamethodDepth /\ MaxMetamethodDepth \in Nat /\ st.nativeDepth \in Nat
    BY <1>2, Fields, CallsAssumption
<1> HIDE DEF rust
<1>5. st.metaDepth - rust.charges \in 0 .. MaxMetamethodDepth
    BY <1>2, <1>3, <1>4
<1>6. t = [st EXCEPT !.bottom = rust.old, !.active = rust.previous, !.metaDepth = st.metaDepth - rust.charges]
    BY DEF ReleasedBy
<1> HIDE DEF t
<1>7. t \in States
    BY <1>1, <1>2, <1>3, <1>5, <1>6, Zenon DEF States
<1>8. /\ t.bottom = rust.old /\ t.active = rust.previous /\ t.metaDepth = st.metaDepth - UnitsOf(rust)
      /\ t.records = st.records /\ t.varargs = st.varargs /\ t.callDepth = st.callDepth
      /\ t.nativeDepth = st.nativeDepth
    BY <1>2, <1>3, <1>6 DEF States
<1>9. t.nativeDepth = st.nativeDepth - CallsOf(rust)
    BY <1>3, <1>4, <1>8
<1>10. Core(t, Front(natives))
    BY <1>7, <1>8, <1>9, CorePop DEF rust
<1> QED
    BY <1>8, <1>10 DEF t, rust

LEMMA CallbackFailsKeeps ==
    ASSUME Core(st, natives), CallbackFails
    PROVE  Done
<1>1. natives # <<>> /\ Last(natives).kind = "rust" /\ Refused(ReleasedBy(Last(natives), st), Front(natives))
    BY DEF CallbackFails, InCallback, Innermost
<1>2. Core(ReleasedBy(Last(natives), st), Front(natives)) /\ Front(natives) # <<>>
    BY <1>1, ReleasedCore, CallbackFacts
<1> QED
    BY <1>1, <1>2, RefusedDone

LEMMA CallbackReturnsKeeps ==
    ASSUME Core(st, natives), NEW pushed \in Expected, NEW n \in Expected, CallbackReturns(pushed, n)
    PROVE  Done
<1> DEFINE rust == Last(natives)
           ns == Front(natives)
           t == ReleasedBy(rust, st)
           back == [t EXCEPT !.top = rust.base + n]
<1>1. /\ natives # <<>> /\ rust.kind = "rust" /\ st.top + pushed <= MaxStackSize
      /\ IF n > st.top + pushed - rust.base THEN Refused(t, ns)
         ELSE IF rust.via = "native" THEN FinishCall(back, n, ns)
         ELSE IF rust.via = "tail" THEN FrameReturns(back, n, ns)
         ELSE st' = [back EXCEPT !.top = Last(Last(ns).frames) + Width] /\ natives' = ns /\ raised' = FALSE
    BY DEF CallbackReturns, InCallback, Innermost
<1>2. /\ rust \in RustLevels /\ rust.base \in Nat /\ rust.old \in Nat
      /\ natives \in Seq(Natives) /\ ns \in Seq(Natives) /\ ns # <<>> /\ Sound(ns)
      /\ Len(ns) \in Nat \ {0} /\ natives[Len(ns)] = Last(ns) /\ RustOver(rust, Last(ns))
      /\ rust.via \in {"native", "lua", "tail"}
    BY <1>1, CallbackFacts
<1>3. Core(t, ns) /\ t.bottom = rust.old
    BY <1>1, ReleasedCore
<1>4. n \in Nat /\ pushed \in Nat /\ st.top \in Nat /\ MaxStackSize \in Nat
    BY CoreSound, Fields, CallsAssumption
<1> HIDE DEF rust, ns, t
<1>5. CASE n > st.top + pushed - rust.base
    BY <1>1, <1>2, <1>3, <1>5, RefusedDone
<1>6. CASE ~(n > st.top + pushed - rust.base)
  <2>1. rust.base + n \in 0 .. MaxStackSize
    <3>1. PICK x \in Nat : x = rust.base
        BY <1>2
    <3>2. ~(n > st.top + pushed - x) /\ st.top + pushed <= MaxStackSize
        BY <1>1, <1>6, <3>1
    <3>3. x + n \in 0 .. MaxStackSize
        BY <1>4, <3>2
    <3> QED
        BY <3>1, <3>3
  <2>2. Core(back, ns) /\ back \in States /\ back.top = rust.base + n /\ back.bottom = rust.old
      BY <1>3, <2>1, Moved
  <2>3. CASE rust.via = "native"
    <3>1. FinishCall(back, n, ns) /\ Last(ns).kind = "call" /\ rust.base = Last(ns).idx /\ rust.old = Last(ns).old
        BY <1>1, <1>2, <1>6, <2>3 DEF RustOver
    <3> HIDE DEF back
    <3>2. back.top - n = Last(ns).idx
        BY <1>2, <1>4, <2>2, <3>1
    <3>3. Kept(0) /\ (raised' \/ (natives' = Front(ns) /\ Over(Last(ns))))
        BY <1>2, <1>4, <2>2, <3>1, <3>2, FinishKeeps
    <3>4. CASE raised'
        BY <3>3, <3>4, RaisedEnds DEF Done, Kept
    <3>5. CASE natives' = Front(ns) /\ Over(Last(ns))
      <4>1. Ends
          BY <1>2, <3>5, EndsOver
      <4> QED
          BY <3>3, <4>1 DEF Done
    <3> QED
        BY <3>3, <3>4, <3>5
  <2>4. CASE rust.via = "tail"
    <3>1. FrameReturns(back, n, ns) /\ Last(ns).kind = "run" /\ rust.base = Last(Last(ns).frames) - 1
        BY <1>1, <1>2, <1>6, <2>4 DEF RustOver
    <3> HIDE DEF back
    <3>2. back.top = Last(Last(ns).frames) - 1 + n
        BY <2>2, <3>1
    <3>3. /\ Kept(0)
          /\ \/ raised'
             \/ natives' # <<>> /\ Last(natives').kind = "run"
             \/ natives' = Front(Front(ns)) /\ Over(Last(Front(ns)))
        BY <1>2, <1>4, <2>2, <3>1, <3>2, FrameReturnsKeeps, Zenon
    <3>4. CASE raised'
        BY <3>3, <3>4, RaisedEnds DEF Done, Kept
    <3>5. CASE natives' # <<>> /\ Last(natives').kind = "run"
        BY <3>3, <3>5 DEF Done, Ends, InHost, InCallback, Innermost
    <3>6. CASE natives' = Front(Front(ns)) /\ Over(Last(Front(ns)))
      <4>1. Front(ns) # <<>> /\ Last(Front(ns)) = ns[Len(ns) - 1]
          BY <1>2, <3>1, InvocationBelow
      <4>2. Front(ns) \in Seq(Natives) /\ Len(Front(ns)) = Len(ns) - 1
          BY <1>2, Split
      <4>3. Len(Front(ns)) \in Nat \ {0}
          BY <4>1, <4>2, EmptySeq
      <4>4. Len(ns) - 1 \in 1 .. Len(natives) - 1
        <5>1. Len(ns) = Len(natives) - 1 /\ Len(natives) \in Nat
            BY <1>1, <1>2, Split DEF ns
        <5> QED
            BY <4>2, <4>3, <5>1
      <4>5. ns[Len(ns) - 1] = natives[Len(ns) - 1]
          BY <1>1, <1>2, <4>4, Split, Zenon DEF ns
      <4>6. natives[Len(Front(ns))] = Last(Front(ns))
          BY <4>1, <4>2, <4>5
      <4>7. Ends
          BY <3>6, <4>1, <4>2, <4>6, EndsOver
      <4> QED
          BY <3>3, <4>7 DEF Done
    <3> QED
        BY <3>3, <3>4, <3>5, <3>6
  <2>5. CASE rust.via = "lua"
    <3> DEFINE u == [back EXCEPT !.top = Last(Last(ns).frames) + Width]
    <3>1. st' = u /\ natives' = ns /\ raised' = FALSE
        BY <1>1, <1>6, <2>5
    <3>2. Last(ns).kind = "run" /\ rust.old = Last(Last(ns).frames)
        BY <1>2, <2>5 DEF RustOver
    <3>3. Last(Last(ns).frames) + Width \in 0 .. MaxStackSize
      <4>1. Last(ns) \in Natives /\ LevelOK(Last(ns))
          BY <1>2, SoundPop
      <4> QED
          BY <3>2, <4>1, LastFrame
    <3> HIDE DEF back
    <3>4. Core(u, ns) /\ u.top = Last(Last(ns).frames) + Width /\ u.bottom = back.bottom
        BY <2>2, <3>3, Moved
    <3>5. Slots(u, ns)
        BY <1>2, <2>2, <3>2, <3>4 DEF Slots
    <3> QED
        BY <1>2, <3>1, <3>2, <3>4, <3>5, StillRunning, Zenon
  <2> QED
      BY <1>2, <2>3, <2>4, <2>5
<1> QED
    BY <1>5, <1>6

LEMMA FailCallKeeps ==
    ASSUME Core(st, natives), natives # <<>>, FailCall
    PROVE  Done
<1> DEFINE call == Last(natives)
           below == Front(natives)
           t == [st EXCEPT !.nativeDepth = @ - 1, !.top = call.idx, !.bottom = call.old]
<1>1. /\ call.kind = "call" /\ st' = t /\ natives' = below
      /\ raised' = (below # <<>> /\ Last(below).kind = "run")
    BY DEF FailCall, Innermost
<1>2. /\ st \in States /\ natives \in Seq(Natives) /\ Len(natives) \in Nat \ {0} /\ Len(below) = Len(natives) - 1
      /\ below \in Seq(Natives)
    BY CoreSound, Split
<1>3. call \in Natives /\ LevelOK(call) /\ Fits(call, below) /\ CallsOf(call) \in 0 .. st.nativeDepth
    BY CoreTop
<1>4. call.idx \in Nat /\ call.old \in Nat /\ call.idx <= MaxStackSize /\ UnitsOf(call) = 0 /\ CallsOf(call) = 1
  <2>1. call \in CallLevels
      BY <1>1, <1>3, Kinds
  <2> QED
      BY <1>1, <1>3, <2>1 DEF CallLevels, LevelOK, UnitsOf, CallsOf
<1>5. /\ st.nativeDepth \in Nat /\ st.nativeDepth <= MaxNativeCallDepth /\ MaxNativeCallDepth \in Nat
      /\ MaxStackSize \in Nat /\ st.metaDepth \in Nat
    BY <1>2, Fields, CallsAssumption
<1>6. natives[Len(natives)] = call
    BY DEF Last
<1> HIDE DEF call, below
<1>7. t \in States
  <2>1. st.nativeDepth - 1 \in 0 .. MaxNativeCallDepth /\ call.idx \in 0 .. MaxStackSize
      BY <1>3, <1>4, <1>5
  <2> QED
      BY <1>2, <1>4, <2>1, Zenon DEF States
<1>8. /\ t.records = st.records /\ t.varargs = st.varargs /\ t.callDepth = st.callDepth
      /\ t.metaDepth = st.metaDepth /\ t.nativeDepth = st.nativeDepth - 1 /\ t.active = st.active
      /\ t.bottom = call.old /\ t.top = call.idx
    BY <1>2 DEF States
<1> HIDE DEF t
<1>9. Core(t, below)
  <2>1. t.metaDepth = st.metaDepth - UnitsOf(call) /\ t.nativeDepth = st.nativeDepth - CallsOf(call)
      BY <1>4, <1>5, <1>8
  <2> QED
      BY <1>1, <1>7, <1>8, <2>1, CorePop DEF call, below
<1>10. ASSUME ~(below # <<>> /\ Last(below).kind = "run") PROVE Slots(t, below)
  <2>1. CASE below = <<>>
      BY <1>3, <1>8, <2>1 DEF Slots, Fits, Outermost
  <2>2. CASE below # <<>>
    <3>1. CallOver(call, Last(below))
        BY <1>1, <1>3, <2>2 DEF Fits, Above
    <3> QED
        BY <1>8, <1>10, <2>2, <3>1 DEF Slots, CallOver
  <2> QED
      BY <2>1, <2>2
<1>11. Kept(0)
  <2>1. Core(st', natives') /\ raised' \in BOOLEAN /\ Len(natives') >= 0
      BY <1>1, <1>2, <1>9
  <2>2. IF raised' THEN natives' # <<>> ELSE Slots(st', natives')
      BY <1>1, <1>10, Zenon
  <2> QED
      BY <2>1, <2>2 DEF Kept
<1>12. Ends
  <2>1. Len(natives') + 1 = Len(natives) /\ st'.bottom = call.old /\ st'.top = call.idx
      BY <1>1, <1>2, <1>8
  <2>2. natives[Len(natives') + 1] = call
      BY <1>6, <2>1
  <2> QED
      BY <2>1, <2>2 DEF Ends
<1> QED
    BY <1>11, <1>12 DEF Done

LEMMA UnwindFrameKeeps ==
    ASSUME Core(st, natives), natives # <<>>, raised = TRUE, UnwindFrame
    PROVE  Done
<1> DEFINE p == PopActivation(st)
           fs == Front(Last(natives).frames)
           ms == [natives EXCEPT ![Len(natives)].frames = fs]
           fb == Last(Last(natives).frames)
           call == Last(Front(natives))
           q == [p EXCEPT !.top = fb]
<1>1. /\ Last(natives).kind = "run" /\ raised' = TRUE
      /\ IF fs = <<>>
         THEN st' = [q EXCEPT !.bottom = natives[Len(natives) - 1].old] /\ natives' = Front(natives)
         ELSE st' = [q EXCEPT !.bottom = Last(fs)] /\ natives' = ms
    BY DEF UnwindFrame, Innermost, FrameBottom
<1>2. /\ p \in States
      /\ fs = <<>> => Core(p, Front(natives))
      /\ fs # <<>> => Core(p, ms) /\ ms # <<>> /\ Last(ms).kind = "run" /\ Last(ms).frames = fs
    BY <1>1, CorePopFrame, Zenon
<1>3. fb \in 0 .. MaxStackSize
  <2>1. Last(natives) \in Natives /\ LevelOK(Last(natives))
      BY CoreTop
  <2>2. fb \in Nat /\ fb + Width \in 0 .. MaxStackSize /\ Width \in Nat /\ MaxStackSize \in Nat
      BY <1>1, <2>1, LastFrame, CallsAssumption
  <2> QED
      BY <2>2
<1>4. /\ Front(natives) # <<>> /\ call = natives[Len(natives) - 1] /\ call.old \in Nat
    BY <1>1, CoreSound, InvocationBelow
<1> HIDE DEF p, ms, fs, fb, call
<1>5. ASSUME NEW b \in Nat, NEW ns, Core(p, ns), ns # <<>>, st' = [q EXCEPT !.bottom = b], natives' = ns
      PROVE  Done
  <2>1. Core(q, ns) /\ q \in States
      BY <1>3, <1>5, Moved
  <2> DEFINE t == [q EXCEPT !.bottom = b]
  <2> HIDE DEF q
  <2>2. /\ t \in States /\ t.records = q.records /\ t.varargs = q.varargs /\ t.callDepth = q.callDepth
        /\ t.metaDepth = q.metaDepth /\ t.nativeDepth = q.nativeDepth /\ t.active = q.active
      BY <2>1 DEF States
  <2> HIDE DEF t
  <2>3. Core(t, ns)
      BY <2>1, <2>2, CoreSame
  <2>4. Core(st', natives') /\ natives' # <<>>
      BY <1>5, <2>3 DEF t
  <2>5. Len(natives') >= 0
      BY <2>4, CoreSound
  <2>6. Kept(0)
      BY <1>1, <2>4, <2>5 DEF Kept
  <2> QED
      BY <1>1, <2>6, RaisedEnds DEF Done
<1> HIDE DEF q
<1>6. CASE fs = <<>>
    BY <1>1, <1>2, <1>4, <1>5, <1>6
<1>7. CASE fs # <<>>
  <2>1. Last(fs) \in Nat
    <3>1. Last(ms) \in Natives /\ LevelOK(Last(ms))
        BY <1>2, <1>7, CoreTop
    <3> QED
        BY <1>2, <1>7, <3>1, LastFrame
  <2> QED
      BY <1>1, <1>2, <1>5, <1>7, <2>1
<1> QED
    BY <1>6, <1>7

-----------------------------------------------------------------------------
(* Every step *)

LEMMA Calm ==
    ASSUME Inv, poisoned = FALSE, Done, UNCHANGED <<unwinding, poisoned>>, interrupt' \in BOOLEAN,
           outcome' \in {"none", "error", "poisoned", "panic"}, phase' \in 0 .. LoopPhases - 1
    PROVE  Inv' /\ Ends
<1>1. /\ Core(st', natives') /\ raised' \in BOOLEAN
      /\ IF raised' THEN natives' # <<>> ELSE Slots(st', natives')
    BY DEF Done, Kept
<1>2. Sound(natives')
    BY <1>1, CoreSound
<1>3. unwinding = "no" /\ Flags
    BY DEF Inv, Usable
<1>4. Flags'
    BY <1>1, <1>3 DEF Flags
<1>5. Usable'
    BY <1>1, <1>3 DEF Usable
<1> QED
    BY <1>2, <1>4, <1>5 DEF Inv, Done

LEMMA Unmoved ==
    ASSUME Inv, poisoned = FALSE, UNCHANGED <<st, natives, raised>>
    PROVE  Done
<1>1. Core(st, natives) /\ raised \in BOOLEAN /\ IF raised THEN natives # <<>> ELSE Slots(st, natives)
    BY DEF Inv, Usable, Flags
<1>2. Core(st', natives') /\ raised' \in BOOLEAN /\ IF raised' THEN natives' # <<>> ELSE Slots(st', natives')
    BY <1>1
<1>3. natives \in Seq(Natives) /\ Len(natives') >= Len(natives)
    BY <1>1, CoreSound
<1>4. Kept(Len(natives))
    BY <1>2, <1>3 DEF Kept
<1> QED
    BY <1>3, <1>4, NotShorter

(* A panic leaves the State as it is and starts to unwind *)
LEMMA PanicAbandons ==
    ASSUME Inv, CallbackPanics \/ CallbackAbandoned
    PROVE  Inv' /\ poisoned' = TRUE /\ unwinding' # "no" /\ natives' = Front(natives) /\ st' = st
<1>1. /\ natives # <<>> /\ Last(natives).kind = "rust" /\ natives' = Front(natives) /\ st' = st
      /\ unwinding' \in {"panic", "marker"} /\ poisoned' = TRUE /\ raised = FALSE /\ raised' = FALSE
      /\ UNCHANGED <<interrupt, outcome, phase>>
    BY DEF CallbackPanics, CallbackAbandoned, InCallback, Innermost, Steady, Inv, Flags
<1>2. Sound(Front(natives)) /\ Fits(Last(natives), Front(natives))
    BY <1>1, SoundPop DEF Inv
<1>3. Front(natives) # <<>>
    BY <1>1, <1>2 DEF Fits, Outermost
<1>4. st \in States
    BY CoreSound DEF Inv, Abandoned, Usable
<1>5. Flags'
    BY <1>1, Zenon DEF Inv, Flags
<1>6. Abandoned'
    BY <1>1, <1>3, <1>4 DEF Abandoned
<1> QED
    BY <1>1, <1>2, <1>5, <1>6 DEF Inv

LEMMA UsableStep ==
    ASSUME Inv, poisoned = FALSE, Next
    PROVE  Inv' /\ (~poisoned' => Ends)
<1>1. /\ Core(st, natives) /\ unwinding = "no" /\ raised \in BOOLEAN
      /\ IF raised THEN natives # <<>> ELSE Slots(st, natives)
    BY DEF Inv, Usable, Flags
<1>2. /\ interrupt \in BOOLEAN /\ outcome \in {"none", "error", "poisoned", "panic"}
      /\ phase \in 0 .. LoopPhases - 1
    BY DEF Inv, Flags
<1> DEFINE Quiet == UNCHANGED <<unwinding, poisoned, interrupt, outcome, phase>>
<1>3. ASSUME Done, Quiet PROVE Inv' /\ (~poisoned' => Ends)
    BY <1>2, <1>3, Calm, Zenon
<1>4. ASSUME Steady PROVE Slots(st, natives)
    BY <1>1, <1>4 DEF Steady
<1>5. ASSUME NEW n \in 0 .. MaxResults + 1, LuaReturn(n) PROVE Inv' /\ (~poisoned' => Ends)
  <2>1. Slots(st, natives) /\ n \in Nat /\ Quiet
      BY <1>4, <1>5, CallsAssumption DEF LuaReturn, InLua
  <2> QED
      BY <1>1, <1>3, <1>5, <2>1, LuaReturnKeeps
<1>6. CASE LuaError
  <2>1. Slots(st, natives) /\ InLua /\ Refused(st, natives) /\ Quiet
      BY <1>4, <1>6 DEF LuaError, InLua
  <2> QED
      BY <1>1, <1>3, <2>1, LuaFails
<1>7. CASE Loop
  <2>1. Slots(st, natives) /\ InLua /\ UNCHANGED <<unwinding, poisoned, interrupt, outcome>>
      BY <1>4, <1>7 DEF Loop, InLua
  <2>2. CASE interrupt
    <3>1. Refused(st, natives) /\ Quiet
        BY <1>7, <2>2 DEF Loop
    <3> QED
        BY <1>1, <1>3, <2>1, <3>1, LuaFails
  <2>3. CASE ~interrupt
    <3>1. phase' = (phase + 1) % LoopPhases /\ UNCHANGED <<st, natives, raised>>
        BY <1>7, <2>3 DEF Loop
    <3>2. phase' \in 0 .. LoopPhases - 1
        BY <1>2, <3>1, CallsAssumption
    <3>3. Done
        BY <1>1, <2>1, <3>1, LuaStays
    <3> QED
        BY <1>2, <2>1, <3>2, <3>3, Calm, Zenon
  <2> QED
      BY <2>2, <2>3
<1>8. ASSUME NEW args \in Args, NEW callee \in Callees, NEW f \in 0 .. MaxStackSize, LuaCall(f, args, callee)
      PROVE  Inv' /\ (~poisoned' => Ends)
  <2>1. Slots(st, natives) /\ Quiet
      BY <1>4, <1>8 DEF LuaCall, InLua
  <2> QED
      BY <1>1, <1>3, <1>8, <2>1, LuaCallKeeps
<1>9. ASSUME NEW args \in Args, NEW callee \in Callees, LuaTailCall(args, callee)
      PROVE  Inv' /\ (~poisoned' => Ends)
  <2>1. Slots(st, natives) /\ Quiet
      BY <1>4, <1>9 DEF LuaTailCall, InLua
  <2> QED
      BY <1>1, <1>3, <1>9, <2>1, LuaTailCallKeeps
<1>10. ASSUME NEW args \in Args, NEW callee \in Callees, MetaCall(args, callee)
       PROVE  Inv' /\ (~poisoned' => Ends)
  <2>1. Slots(st, natives) /\ Quiet
      BY <1>4, <1>10 DEF MetaCall, InLua
  <2> QED
      BY <1>1, <1>3, <1>10, <2>1, MetaCallKeeps
<1>11. ASSUME NEW args \in Args, NEW callee \in Callees, NEW results \in Expected,
              CallbackCall(args, callee, results)
       PROVE  Inv' /\ (~poisoned' => Ends)
  <2>1. Slots(st, natives) /\ Quiet
      BY <1>4, <1>11 DEF CallbackCall, InCallback
  <2> QED
      BY <1>1, <1>3, <1>11, <2>1, CallbackCallKeeps
<1>12. ASSUME NEW pushed \in Expected, NEW n \in Expected, CallbackReturns(pushed, n)
       PROVE  Inv' /\ (~poisoned' => Ends)
  <2>1. Quiet
      BY <1>12 DEF CallbackReturns
  <2> QED
      BY <1>1, <1>3, <1>12, <2>1, CallbackReturnsKeeps
<1>13. CASE CallbackFails
  <2>1. Quiet
      BY <1>13 DEF CallbackFails
  <2> QED
      BY <1>1, <1>3, <1>13, <2>1, CallbackFailsKeeps
<1>14. CASE CallbackAbandoned \/ CallbackPanics
    BY <1>14, PanicAbandons, Zenon
<1>15. CASE UnwindFrame
  <2>1. natives # <<>> /\ raised = TRUE /\ Quiet
      BY <1>1, <1>15 DEF UnwindFrame
  <2> QED
      BY <1>1, <1>3, <1>15, <2>1, UnwindFrameKeeps
<1>16. CASE FailCall
  <2>1. natives # <<>> /\ UNCHANGED <<unwinding, poisoned, interrupt, phase>>
      BY <1>1, <1>16 DEF FailCall
  <2>2. outcome' \in {"none", "error", "poisoned", "panic"}
      BY <1>2, <1>16 DEF FailCall
  <2>3. Done
      BY <1>1, <1>16, <2>1, FailCallKeeps
  <2> QED
      BY <1>2, <2>1, <2>2, <2>3, Calm, Zenon
<1>17. CASE Unwind
    BY <1>1, <1>17 DEF Unwind
<1>18. CASE HostPush \/ HostClear
  <2>1. natives = <<>> /\ Slots(st, natives) /\ ~raised /\ Quiet
      BY <1>4, <1>18 DEF HostPush, HostClear, InHost, Steady
  <2> QED
      BY <1>1, <1>3, <1>18, <2>1, HostMoves
<1>19. CASE HostRefused
    BY <1>19 DEF HostRefused
<1>20. ASSUME NEW args \in Args, NEW callee \in Callees, NEW results \in Expected,
              HostCall(args, callee, results)
       PROVE  Inv' /\ (~poisoned' => Ends)
  <2>1. Slots(st, natives) /\ UNCHANGED <<unwinding, poisoned, interrupt, phase>> /\ outcome' = "none"
      BY <1>4, <1>20 DEF HostCall, InHost
  <2>2. Done
      BY <1>1, <1>20, <2>1, HostCallKeeps
  <2> QED
      BY <1>2, <2>1, <2>2, Calm, Zenon
<1>21. CASE Trigger \/ Reset
  <2>1. /\ UNCHANGED <<st, natives, raised, unwinding, poisoned, outcome, phase>> /\ interrupt' \in BOOLEAN
      BY <1>21, Zenon DEF Trigger, Reset
  <2>2. Done
      BY <2>1, Unmoved, Zenon
  <2> QED
      BY <1>2, <2>1, <2>2, Calm, Zenon
<1> HIDE DEF Quiet
<1> QED
    BY <1>5, <1>6, <1>7, <1>8, <1>9, <1>10, <1>11, <1>12, <1>13, <1>14, <1>15, <1>16, <1>17, <1>18, <1>19,
       <1>20, <1>21 DEF Next, VmStep, HostStep

(* A step of an abandoned State *)
Buried ==
    /\ poisoned' /\ st' = st /\ \E n \in 0 .. Len(natives) : natives' = SubSeq(natives, 1, n)
    /\ InHost' => outcome' \in {"panic", "poisoned"}

LEMMA PoisonedStep ==
    ASSUME Inv, poisoned = TRUE, Next
    PROVE  Inv' /\ Buried
<1>1. Flags /\ Sound(natives) /\ Abandoned
    BY DEF Inv
<1>2. natives \in Seq(Natives) /\ Len(natives) \in Nat
    BY <1>1 DEF Sound
<1>3. ~raised /\ ~InLua /\ (InCallback => unwinding = "no")
    BY <1>1 DEF Abandoned, InLua, Innermost, Steady, InCallback
<1>4. \/ HostRefused \/ Trigger \/ Reset \/ CallbackAbandoned \/ CallbackPanics \/ Unwind
  <2>1. \A n : ~LuaReturn(n)
      BY <1>3, Zenon DEF LuaReturn
  <2>2. ~LuaError /\ ~Loop
      BY <1>3, Zenon DEF LuaError, Loop
  <2>3. \A f, args, callee : ~LuaCall(f, args, callee)
      BY <1>3, Zenon DEF LuaCall
  <2>4. \A args, callee : ~LuaTailCall(args, callee) /\ ~MetaCall(args, callee)
      BY <1>3, Zenon DEF LuaTailCall, MetaCall
  <2>5. \A args, callee, results : ~CallbackCall(args, callee, results) /\ ~HostCall(args, callee, results)
      BY Zenon DEF CallbackCall, HostCall
  <2>6. (\A pushed, n : ~CallbackReturns(pushed, n)) /\ ~CallbackFails
      BY Zenon DEF CallbackReturns, CallbackFails
  <2>7. ~UnwindFrame /\ ~FailCall /\ ~HostPush /\ ~HostClear
      BY <1>3, Zenon DEF UnwindFrame, FailCall, HostPush, HostClear
  <2> QED
      BY <2>1, <2>2, <2>3, <2>4, <2>5, <2>6, <2>7, Zenon DEF Next, VmStep, HostStep
<1>5. natives # <<>> => Len(natives) - 1 \in 0 .. Len(natives) /\ Front(natives) = SubSeq(natives, 1, Len(natives) - 1)
    BY <1>2, EmptySeq DEF Front
<1>6. CASE HostRefused \/ Trigger \/ Reset
  <2>1. /\ UNCHANGED <<st, natives, raised, unwinding, poisoned, phase>> /\ interrupt' \in BOOLEAN
        /\ outcome' = outcome \/ outcome' = "poisoned"
      BY <1>1, <1>6, Zenon DEF HostRefused, Trigger, Reset, Flags
  <2>2. Flags'
      BY <1>1, <2>1 DEF Flags
  <2>3. Abandoned'
      BY <1>1, <2>1 DEF Abandoned, Innermost
  <2>4. natives' = SubSeq(natives, 1, Len(natives)) /\ Len(natives) \in 0 .. Len(natives)
      BY <1>2, <2>1
  <2>5. InHost' => outcome' \in {"panic", "poisoned"}
      BY <2>3 DEF Abandoned, InHost, Steady
  <2>6. Sound(natives') /\ poisoned' = TRUE /\ st' = st
      BY <1>1, <2>1
  <2> QED
      BY <2>2, <2>3, <2>4, <2>5, <2>6 DEF Inv, Buried
<1>7. CASE CallbackAbandoned \/ CallbackPanics
  <2>1. Inv' /\ poisoned' = TRUE /\ unwinding' # "no" /\ natives' = Front(natives) /\ st' = st
      BY <1>7, PanicAbandons, Zenon
  <2>2. natives # <<>>
      BY <1>7, Zenon DEF CallbackAbandoned, CallbackPanics, InCallback
  <2>3. ~InHost'
      BY <2>1 DEF InHost, Steady
  <2> QED
      BY <1>5, <2>1, <2>2, <2>3 DEF Buried
<1>8. CASE Unwind
  <2> DEFINE l == Last(natives)
             below == Front(natives)
             stops == l.kind = "call" /\ l.guarded
  <2>1. /\ unwinding # "no" /\ natives # <<>> /\ natives' = below
        /\ UNCHANGED <<st, raised, poisoned, interrupt, phase>>
        /\ \/ /\ stops /\ unwinding' = "no"
              /\ outcome' = IF below = <<>> THEN IF unwinding = "marker" THEN "poisoned" ELSE "panic" ELSE outcome
           \/ /\ ~stops \/ (unwinding = "panic" /\ below # <<>>)
              /\ UNCHANGED <<unwinding, outcome>>
      BY <1>8 DEF Unwind, Innermost
  <2>2. Sound(below) /\ Fits(l, below)
      BY <1>1, <2>1, SoundPop
  <2>3. below = <<>> => stops
      BY <2>2 DEF Fits, Outermost
  <2>4. below # <<>> /\ stops => Last(below).kind = "rust"
      BY <2>2 DEF Fits, Above, CallOver
  <2> HIDE DEF l, below
  <2>5. Flags'
      BY <1>1, <2>1 DEF Flags
  <2>6. unwinding' = "no" /\ natives' # <<>> => Last(natives').kind = "rust"
      BY <2>1, <2>4
  <2>7. unwinding' = "no" /\ natives' = <<>> => outcome' \in {"panic", "poisoned"}
      BY <2>1
  <2>8. unwinding' # "no" => natives' # <<>>
      BY <2>1, <2>3
  <2>9. Abandoned'
      BY <1>1, <2>1, <2>6, <2>7, <2>8 DEF Abandoned, Innermost
  <2>10. InHost' => outcome' \in {"panic", "poisoned"}
      BY <2>7 DEF InHost, Steady
  <2>11. poisoned' = TRUE /\ st' = st /\ Sound(natives')
      BY <2>1, <2>2
  <2>12. \E n \in 0 .. Len(natives) : natives' = SubSeq(natives, 1, n)
      BY <1>5, <2>1 DEF below
  <2> QED
      BY <2>5, <2>9, <2>10, <2>11, <2>12 DEF Inv, Buried
<1> QED
    BY <1>4, <1>6, <1>7, <1>8

-----------------------------------------------------------------------------
(* The theorems *)

LEMMA InitInv == Init => Inv
<1> SUFFICES ASSUME Init PROVE Inv
    OBVIOUS
<1>1. /\ MaxStackSize \in Nat /\ MaxCallDepth \in Nat /\ MaxMetamethodDepth \in Nat /\ MaxNativeCallDepth \in Nat
      /\ LoopPhases \in Nat \ {0}
    BY CallsAssumption
<1>2. st \in States /\ st.records = <<>> /\ st.varargs = 0 /\ st.callDepth = 0 /\ st.metaDepth = 0
      /\ st.nativeDepth = 0 /\ st.active = "none" /\ st.bottom = 0
    BY <1>1 DEF Init, States
<1>3. AllChains(<<>>) = 0
  <2>1. [i \in 1 .. Len(<<>>) |-> <<>>[i].chain] = <<>>
      OBVIOUS
  <2> QED
      BY <2>1, TotalEmpty DEF AllChains
<1>4. Arena(<<>>, 0)
    BY DEF Arena
<1>5. Ledger(st, 0, 0, 0)
    BY <1>2, <1>3, <1>4 DEF Ledger
<1>6. natives = <<>> /\ Levels(natives, 0, 0, 0, st.active)
    BY <1>2, NoLevels DEF Init
<1>7. Core(st, natives)
    BY <1>5, <1>6 DEF Core
<1>8. Slots(st, natives)
    BY <1>2, <1>6 DEF Slots
<1>9. Sound(natives)
    BY <1>7, CoreSound
<1>10. Flags
  <2>1. 0 \in 0 .. LoopPhases - 1
      BY <1>1
  <2> QED
      BY <2>1, Zenon DEF Init, Flags
<1> QED
    BY <1>7, <1>8, <1>9, <1>10 DEF Init, Inv, Usable

LEMMA NextInv == Inv /\ [Next]_vars => Inv'
<1> SUFFICES ASSUME Inv, [Next]_vars PROVE Inv'
    OBVIOUS
<1>1. poisoned \in BOOLEAN
    BY DEF Inv, Flags
<1>2. CASE UNCHANGED vars
  <2>1. UNCHANGED <<st, natives, raised, unwinding, poisoned, interrupt, outcome, phase>>
      BY <1>2 DEF vars
  <2>2. UNCHANGED <<Flags, Sound(natives), Abandoned, Usable>>
      BY <2>1 DEF Flags, Abandoned, Usable, Innermost
  <2> QED
      BY <2>1, <2>2 DEF Inv
<1>3. CASE Next /\ poisoned = FALSE
    BY <1>3, UsableStep, Zenon
<1>4. CASE Next /\ poisoned = TRUE
    BY <1>4, PoisonedStep
<1> QED
    BY <1>1, <1>2, <1>3, <1>4, Zenon

LEMMA InvCounts == Inv => CountsMatch
<1> SUFFICES ASSUME Inv PROVE CountsMatch
    OBVIOUS
<1>1. TypeOK
  <2>1. st \in States /\ natives \in Seq(Natives) /\ Flags
      BY CoreSound DEF Inv, Usable, Abandoned, Sound
  <2> QED
      BY <2>1 DEF TypeOK, States, Flags
<1>2. CASE poisoned
  <2>1. ~InLua
      BY <1>2 DEF Inv, Abandoned, InLua, Innermost, Steady
  <2> QED
      BY <1>1, <1>2, <2>1 DEF CountsMatch, HeadroomHolds, VarargArenaIsBounded, RunsInItsOwnSlots
<1>3. CASE ~poisoned
  <2>1. Core(st, natives) /\ (~raised => Slots(st, natives)) /\ (natives = <<>> => ~raised)
      BY <1>3 DEF Inv, Usable
  <2>2. PICK f \in Nat, u \in Nat, n \in Nat : Levels(natives, f, u, n, st.active) /\ Ledger(st, f, u, n)
      BY <2>1 DEF Core
  <2>3. InLua => /\ FrameBottom + Width + FrameHeadroom <= MaxStackSize
                 /\ st.bottom = FrameBottom /\ st.top = FrameBottom + Width
      BY <2>1, LuaFacts DEF InLua, Steady
  <2>4. HeadroomHolds
      BY <2>3 DEF HeadroomHolds
  <2>5. VarargArenaIsBounded
    <3>1. st.records \in Seq(Records) /\ Arena(st.records, st.varargs)
        BY <2>2 DEF Ledger, States
    <3>2. DOMAIN st.records = 1 .. Len(st.records)
        BY <3>1
    <3> QED
        BY <3>1, <3>2 DEF VarargArenaIsBounded, Arena
  <2>6. RunsInItsOwnSlots
    <3>1. InCallback => st.bottom = Innermost.base
        BY <2>1 DEF InCallback, Steady, Slots, Innermost
    <3> QED
        BY <2>3, <3>1 DEF RunsInItsOwnSlots
  <2>7. /\ st.callDepth = Len(st.records) /\ Len(st.records) = AllFrames(natives)
        /\ st.metaDepth = AllChains(st.records) + AllUnits(natives) /\ st.nativeDepth = AllCalls(natives)
      BY <2>2 DEF Levels, Ledger
  <2>8. ASSUME natives = <<>> PROVE AtRest(st)
    <3>1. AllFrames(natives) = 0 /\ AllUnits(natives) = 0 /\ AllCalls(natives) = 0
        BY <2>8, NoLevels DEF Levels
    <3>2. st.records \in Seq(Records)
        BY <2>2 DEF Ledger, States
    <3>3. st.records = <<>>
        BY <2>7, <3>1, <3>2, EmptySeq
    <3>4. AllChains(st.records) = 0
      <4>1. [i \in 1 .. Len(<<>>) |-> <<>>[i].chain] = <<>>
          OBVIOUS
      <4> QED
          BY <3>3, <4>1, TotalEmpty DEF AllChains
    <3>5. st.varargs = 0
        BY <2>2, <3>3 DEF Ledger, Arena
    <3>6. st.active = "none"
        BY <2>2, <2>8 DEF Levels, Active
    <3>7. st.bottom = 0
        BY <2>1, <2>8 DEF Slots
    <3>8. st.callDepth = 0 /\ st.metaDepth = 0 /\ st.nativeDepth = 0
        BY <2>7, <3>1, <3>3, <3>4
    <3> QED
        BY <3>3, <3>5, <3>6, <3>7, <3>8 DEF AtRest
  <2> QED
      BY <1>1, <2>4, <2>5, <2>6, <2>7, <2>8 DEF CountsMatch
<1> QED
    BY <1>2, <1>3

(***************************************************************************)
(* The accounting of calls is exact in every reachable state, for every    *)
(* limit, width and set of callees: call_depth, metamethod_depth and       *)
(* native_call_depth count what the levels on the Rust stack hold, nothing *)
(* is charged once the host runs again, every depth stays within its       *)
(* limit, a running frame has the headroom it was admitted with and the    *)
(* slots it was given, whatever calls, tail calls, `__call` chains,        *)
(* callbacks, errors, interrupts and panics came before.                   *)
(***************************************************************************)
THEOREM CallsAreAccounted == Spec => []CountsMatch
<1>1. Init => Inv
    BY InitInv
<1>2. Inv /\ [Next]_vars => Inv'
    BY NextInv
<1>3. Inv => CountsMatch
    BY InvCounts
<1> QED
    BY <1>1, <1>2, <1>3, PTL DEF Spec

(***************************************************************************)
(* A call made from Rust gives its caller back its slots, with its results *)
(* or with nothing above them, however many frames and callbacks an error  *)
(* crossed; and a State a callback's panic poisoned is never touched       *)
(* again: eval and call_at_slot only unwind what was running, and the host *)
(* is told of the panic or of the poisoning.                               *)
(***************************************************************************)
THEOREM CallsEnd == Spec => CallsEndCleanly
<1>1. Init => Inv
    BY InitInv
<1>2. Inv /\ [Next]_vars => Inv'
    BY NextInv
<1> DEFINE Slotted == Len(natives') < Len(natives) /\ ~poisoned' /\ (InHost' \/ InCallback') =>
                          LET call == natives[Len(natives') + 1]
                          IN  call.kind = "call" =>
                                  /\ st'.bottom = call.old
                                  /\ st'.top \in {call.idx, call.idx + call.results}
           Final == poisoned => /\ poisoned' /\ st' = st
                                /\ \E n \in 0 .. Len(natives) : natives' = SubSeq(natives, 1, n)
                                /\ InHost' => outcome' \in {"panic", "poisoned"}
<1>3. Inv /\ [Next]_vars => [Slotted]_vars
  <2> SUFFICES ASSUME Inv, Next PROVE Slotted
      OBVIOUS
  <2>1. CASE poisoned = FALSE
      BY <2>1, UsableStep, Zenon DEF Ends
  <2>2. CASE poisoned = TRUE
      BY <2>2, PoisonedStep DEF Buried
  <2> QED
      BY <2>1, <2>2, Zenon DEF Inv, Flags
<1>4. Inv /\ [Next]_vars => [Final]_vars
  <2> SUFFICES ASSUME Inv, Next, poisoned PROVE Final
      OBVIOUS
  <2>1. Buried
      BY PoisonedStep DEF Inv, Flags
  <2> QED
      BY <2>1 DEF Buried
<1>5. Spec => [][Slotted]_vars
    BY <1>1, <1>2, <1>3, PTL DEF Spec
<1>6. Spec => [][Final]_vars
    BY <1>1, <1>2, <1>4, PTL DEF Spec
<1> QED
    BY <1>5, <1>6, PTL DEF CallsEndCleanly, CallsKeepTheCallersSlots, PoisonIsFinal
=============================================================================
