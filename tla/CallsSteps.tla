----------------------------- MODULE CallsSteps -----------------------------
(***************************************************************************)
(* What the inductive invariant of Calls is, and how the calls, returns    *)
(* and tail calls of Lua frames, and the calls of the host, of callbacks   *)
(* and of metamethods, keep it.                                            *)
(***************************************************************************)
EXTENDS CallsLevels

(* Whoever runs after a step that did not fail is in its own slots *)
Slots(s, ns) ==
    /\ ns = <<>> => s.bottom = 0
    /\ ns # <<>> /\ Last(ns).kind = "rust" => s.bottom = Last(ns).base
    /\ ns # <<>> /\ Last(ns).kind = "run" =>
          s.bottom = Last(Last(ns).frames) /\ s.top = Last(Last(ns).frames) + Width

Flags ==
    /\ raised \in BOOLEAN /\ poisoned \in BOOLEAN /\ interrupt \in BOOLEAN
    /\ unwinding \in {"no", "panic", "marker"}
    /\ outcome \in {"none", "error", "poisoned", "panic"}
    /\ phase \in 0 .. LoopPhases - 1

(* An abandoned State: no frame and no call is innermost while code runs *)
Abandoned ==
    /\ ~raised /\ st \in States
    /\ unwinding = "no" /\ natives # <<>> => Innermost.kind = "rust"
    /\ unwinding = "no" /\ natives = <<>> => outcome \in {"panic", "poisoned"}
    /\ unwinding # "no" => natives # <<>>

Usable ==
    /\ unwinding = "no" /\ Core(st, natives)
    /\ IF raised THEN natives # <<>> ELSE Slots(st, natives)

Inv == Flags /\ Sound(natives) /\ (IF poisoned THEN Abandoned ELSE Usable)

-----------------------------------------------------------------------------
(* What a call enters *)

LEMMA ResolvedFields ==
    ASSUME NEW s \in States, NEW args \in Nat, NEW c \in Nat, ChainFits(s, args, c)
    PROVE  LET r == Resolved(s, c)
           IN  /\ r \in States /\ r.top = s.top + c /\ r.metaDepth = s.metaDepth + Charges(c)
               /\ r.bottom = s.bottom /\ r.records = s.records /\ r.varargs = s.varargs
               /\ r.callDepth = s.callDepth /\ r.nativeDepth = s.nativeDepth /\ r.active = s.active
               /\ Charges(c) \in 0 .. MaxMetamethodDepth /\ args + c <= MaxArguments
<1>1. /\ s.top \in Nat /\ s.metaDepth \in Nat /\ s.metaDepth <= MaxMetamethodDepth
      /\ MaxMetamethodDepth \in Nat /\ MaxStackSize \in Nat
    BY Fields, CallsAssumption
<1>2. Charges(c) \in Nat /\ s.metaDepth + Charges(c) <= MaxMetamethodDepth
    BY <1>1 DEF Charges, ChainFits
<1>3. s.top + c \in 0 .. MaxStackSize /\ s.metaDepth + Charges(c) \in 0 .. MaxMetamethodDepth
      /\ Charges(c) \in 0 .. MaxMetamethodDepth /\ args + c <= MaxArguments
    BY <1>1, <1>2 DEF ChainFits
<1>4. PICK m : m = Charges(c)
    OBVIOUS
<1>5. [s EXCEPT !.top = @ + c, !.metaDepth = @ + m] \in States
    BY <1>3, <1>4, Zenon DEF States
<1>6. Resolved(s, c) = [s EXCEPT !.top = @ + c, !.metaDepth = @ + m]
    BY <1>4 DEF Resolved
<1> QED
    BY <1>3, <1>4, <1>5, <1>6 DEF States

AdmitsTo(s, t, args, chain, r, d) ==
    /\ r = [chain |-> chain, tail |-> FALSE, varargStart |-> s.varargs]
    /\ t = [s EXCEPT !.callDepth = s.callDepth + 1, !.bottom = s.top - args,
                     !.top = s.top - args + Width, !.records = Append(s.records, r),
                     !.varargs = s.varargs + d]

LEMMA AdmittedFields ==
    ASSUME NEW s \in States, NEW proto \in [params : Nat, vararg : BOOLEAN],
           NEW args \in 0 .. MaxArguments, args <= s.top, NEW chain \in 0 .. MaxMetamethodDepth
    PROVE  \E r \in Records, d \in 0 .. MaxArguments :
               AdmitsTo(s, Admitted(s, proto, args, chain), args, chain, r, d)
<1> DEFINE r == [chain |-> chain, tail |-> FALSE, varargStart |-> s.varargs]
           d == Extra(proto, args)
<1>1. s.varargs \in Nat /\ s.records \in Seq(Records) /\ MaxArguments \in Nat
    BY Fields, CallsAssumption
<1>2. r \in Records
    BY <1>1 DEF Records
<1>3. d \in 0 .. MaxArguments
    BY <1>1 DEF Extra
<1> HIDE DEF r, d
<1>4. Admitted(s, proto, args, chain)
        = [s EXCEPT !.callDepth = s.callDepth + 1, !.bottom = s.top - args,
                    !.top = s.top - args + Width, !.records = Append(s.records, r),
                    !.varargs = s.varargs + d]
    BY DEF Admitted, States, r, d
<1> QED
    BY <1>2, <1>3, <1>4, Zenon DEF r, AdmitsTo

LEMMA AdmittedPushes ==
    ASSUME NEW s \in States, NEW proto \in [params : Nat, vararg : BOOLEAN],
           NEW args \in Nat, args <= s.top, NEW c \in Nat, ChainFits(s, args, c),
           s.callDepth < MaxCallDepth, FrameFits(Resolved(s, c), args + c)
    PROVE  LET t == Admitted(Resolved(s, c), proto, args + c, Charges(c))
           IN  /\ t \in States /\ Pushes(s, t) /\ t.bottom = s.top - args
               /\ t.top = s.top - args + Width /\ s.top - args \in Nat
               /\ s.top - args + Width + FrameHeadroom <= MaxStackSize
<1> DEFINE q == Resolved(s, c)
           t == Admitted(q, proto, args + c, Charges(c))
           b == s.top - args
<1>1. /\ q \in States /\ q.top = s.top + c /\ q.metaDepth = s.metaDepth + Charges(c)
      /\ q.bottom = s.bottom /\ q.records = s.records /\ q.varargs = s.varargs
      /\ q.callDepth = s.callDepth /\ q.nativeDepth = s.nativeDepth /\ q.active = s.active
      /\ Charges(c) \in 0 .. MaxMetamethodDepth /\ args + c <= MaxArguments
    BY ResolvedFields
<1>2. FrameFits(q, args + c)
    OBVIOUS
<1> HIDE DEF q
<1>3. /\ s.top \in Nat /\ s.callDepth \in Nat /\ s.varargs \in Nat /\ s.records \in Seq(Records)
      /\ MaxCallDepth \in Nat /\ MaxStackSize \in Nat /\ Width \in Nat /\ FrameHeadroom \in Nat
      /\ MaxArguments \in Nat
    BY Fields, CallsAssumption
<1>4. args + c \in 0 .. MaxArguments /\ args + c <= q.top /\ q.top - (args + c) = b /\ b \in Nat
    BY <1>1, <1>3
<1>5. b + Width + FrameHeadroom <= MaxStackSize
    BY <1>2, <1>3, <1>4 DEF FrameFits
<1>6. PICK r \in Records, d \in 0 .. MaxArguments : AdmitsTo(q, t, args + c, Charges(c), r, d)
    BY <1>1, <1>4, AdmittedFields
<1> HIDE DEF t, b
<1>7. /\ t.records = Append(s.records, r) /\ t.varargs = s.varargs + d /\ t.callDepth = s.callDepth + 1
      /\ t.metaDepth = s.metaDepth + Charges(c) /\ t.nativeDepth = s.nativeDepth /\ t.active = s.active
      /\ t.bottom = b /\ t.top = b + Width
    BY <1>1, <1>4, <1>6 DEF States, AdmitsTo
<1>8. t \in States
  <2>1. s.callDepth + 1 \in 0 .. MaxCallDepth
      BY <1>3
  <2>2. b + Width \in 0 .. MaxStackSize /\ s.varargs + d \in Nat
      BY <1>3, <1>4, <1>5
  <2>3. Append(s.records, r) \in Seq(Records)
      BY <1>3
  <2> QED
      BY <1>1, <1>4, <1>6, <2>1, <2>2, <2>3, Zenon DEF States, AdmitsTo
<1>9. r.chain = Charges(c) /\ r.varargStart = s.varargs
    BY <1>1, <1>6 DEF AdmitsTo
<1>10. Pushes(s, t)
    BY <1>7, <1>9 DEF Pushes
<1> QED
    BY <1>4, <1>5, <1>7, <1>8, <1>10 DEF t, b, q

LEMMA CalleeFields ==
    ASSUME NEW callee \in Callees
    PROVE  /\ callee.chain \in Nat /\ callee.target \in {"lua", "host", "library", "none"}
           /\ callee.target = "lua" => callee.proto \in [params : Nat, vararg : BOOLEAN]
BY CallsAssumption

(* What a step leaves when it does not touch the panic's bookkeeping *)
Kept(m) ==
    /\ Core(st', natives') /\ raised' \in BOOLEAN /\ Len(natives') >= m
    /\ IF raised' THEN natives' # <<>> ELSE Slots(st', natives')

LEMMA RefusedKeeps ==
    ASSUME NEW s, NEW ns, Core(s, ns), ns # <<>>, Refused(s, ns)
    PROVE  Kept(Len(ns))
<1>1. Len(ns) \in Nat
    BY CoreSound
<1> QED
    BY <1>1 DEF Refused, Kept

LEMMA EnteredKeeps ==
    ASSUME NEW s, NEW ns, Core(s, ns), ns # <<>>, NEW callee \in Callees, NEW args \in Nat,
           callee.target \in {"host", "library"}, ChainFits(s, args, callee.chain), s.top >= 1,
           NEW idx \in Nat, NEW via \in {"native", "lua", "tail"},
           via = "native" => Last(ns).kind = "call" /\ idx = Last(ns).idx /\ s.bottom = Last(ns).old,
           via = "lua" => Last(ns).kind = "run" /\ s.bottom = Last(Last(ns).frames),
           via = "tail" => Last(ns).kind = "run" /\ idx = Last(Last(ns).frames) - 1,
           Entered(s, idx, callee, via, ns)
    PROVE  Kept(Len(ns))
<1> DEFINE c == callee.chain
           q == Resolved(s, c)
           t == [q EXCEPT !.top = @ - 1, !.bottom = idx, !.active = callee.target]
           l == [kind |-> "rust", base |-> idx, old |-> s.bottom, previous |-> s.active,
                 charges |-> Charges(c), via |-> via, calls |-> 0]
<1>1. s \in States /\ ns \in Seq(Natives) /\ c \in Nat
    BY CoreSound, CalleeFields
<1>2. /\ q \in States /\ q.top = s.top + c /\ q.metaDepth = s.metaDepth + Charges(c)
      /\ q.bottom = s.bottom /\ q.records = s.records /\ q.varargs = s.varargs
      /\ q.callDepth = s.callDepth /\ q.nativeDepth = s.nativeDepth /\ q.active = s.active
      /\ Charges(c) \in 0 .. MaxMetamethodDepth
    BY <1>1, ResolvedFields
<1>3. st' = t /\ natives' = Append(ns, l) /\ raised' = FALSE
    BY DEF Entered
<1> HIDE DEF q
<1>4. t \in States
  <2>1. q.top \in Nat /\ q.top <= MaxStackSize /\ s.top \in Nat /\ MaxStackSize \in Nat
      BY <1>1, <1>2, Fields, CallsAssumption, Zenon
  <2>2. q.top - 1 \in 0 .. MaxStackSize
      BY <1>1, <1>2, <2>1
  <2> QED
      BY <1>2, <2>2, Zenon DEF States
<1>5. /\ t.records = s.records /\ t.varargs = s.varargs /\ t.callDepth = s.callDepth
      /\ t.metaDepth = s.metaDepth + Charges(c) /\ t.nativeDepth = s.nativeDepth /\ t.bottom = idx
    BY <1>2 DEF States
<1>6. l \in RustLevels
  <2>1. Charges(c) \in Nat /\ s.bottom \in Nat /\ s.active \in {"none", "host", "library"}
        /\ 0 \in 0 .. MaxCallbackCalls
      BY <1>1, <1>2, Fields, CallsAssumption
  <2> QED
      BY <2>1 DEF RustLevels
<1>7. /\ l.kind = "rust" /\ l.base = idx /\ l.old = s.bottom /\ l.previous = s.active
      /\ l.charges = Charges(c) /\ l.via = via
    OBVIOUS
<1> HIDE DEF t, l
<1>8. l \in Natives /\ LevelOK(l) /\ UnitsOf(l) = Charges(c) /\ CallsOf(l) = 0
    BY <1>6, <1>7 DEF Natives, LevelOK, UnitsOf, CallsOf
<1>9. Fits(l, ns)
    BY <1>7 DEF Fits, Above, RustOver
<1>10. Core(t, Append(ns, l))
  <2>1. t.nativeDepth = s.nativeDepth + CallsOf(l)
      BY <1>1, <1>5, <1>8, Fields
  <2> QED
      BY <1>4, <1>5, <1>7, <1>8, <1>9, <2>1, CorePush
<1>11. Last(Append(ns, l)) = l /\ Len(Append(ns, l)) = Len(ns) + 1 /\ Append(ns, l) # <<>> /\ Len(ns) \in Nat
    BY <1>1, <1>8, Appended
<1>12. Slots(t, Append(ns, l))
    BY <1>5, <1>7, <1>11 DEF Slots
<1>13. Core(st', natives') /\ Slots(st', natives') /\ Len(natives') >= Len(ns)
    BY <1>3, <1>10, <1>11, <1>12
<1> QED
    BY <1>3, <1>13, Zenon DEF Kept

LEMMA KeptLess ==
    ASSUME NEW m \in Nat, NEW n \in Nat, n <= m, Kept(m)
    PROVE  Kept(n)
<1>1. Core(st', natives') /\ Len(natives') >= m
    BY DEF Kept
<1>2. Len(natives') \in Nat
    BY <1>1, CoreSound
<1>3. Len(natives') >= n
    BY <1>1, <1>2
<1> QED
    BY <1>3 DEF Kept

(* Who may make a call from Rust *)
CanCall(s, guarded, ns) ==
    IF ns = <<>> THEN guarded /\ s.bottom = 0
    ELSE /\ Last(ns).kind # "call"
         /\ guarded => Last(ns).kind = "rust"
         /\ Last(ns).kind = "rust" => s.bottom = Last(ns).base
         /\ Last(ns).kind = "run" => s.bottom = Last(Last(ns).frames)

LEMMA CallUnguardedKeeps ==
    ASSUME NEW s, NEW ns, Core(s, ns), NEW args \in Args, NEW callee \in Callees, NEW results \in Nat,
           NEW guarded \in BOOLEAN, args + 1 <= s.top, CanCall(s, guarded, ns),
           CallUnguarded(s, args, callee, results, guarded, ns)
    PROVE  Kept(Len(ns))
<1> DEFINE idx == s.top - args - 1
           counted == [s EXCEPT !.nativeDepth = @ + 1]
           l == [kind |-> "call", idx |-> idx, old |-> s.bottom, results |-> results, guarded |-> guarded]
           lv == Append(ns, l)
           c == callee.chain
           entry == Admitted(Resolved(counted, c), callee.proto, args + c, Charges(c))
<1>1. s \in States /\ ns \in Seq(Natives) /\ Len(ns) \in Nat
    BY CoreSound
<1>2. /\ args \in Nat /\ MaxStackSize \in Nat /\ MaxNativeCallDepth \in Nat /\ MaxCallDepth \in Nat
      /\ MaxArguments \in Nat /\ Width \in Nat /\ FrameHeadroom \in Nat
    BY CallsAssumption
<1>3. /\ s.top \in Nat /\ s.top <= MaxStackSize /\ s.bottom \in Nat
      /\ s.nativeDepth \in Nat /\ s.nativeDepth <= MaxNativeCallDepth
    BY <1>1, Fields
<1>4. idx \in Nat /\ idx <= MaxStackSize /\ idx + 1 + args = s.top
    BY <1>2, <1>3
<1>5. CASE s.nativeDepth >= MaxNativeCallDepth
  <2> DEFINE t == [s EXCEPT !.top = idx]
  <2>0. idx \in 0 .. MaxStackSize
      BY <1>2, <1>4
  <2>1. t \in States
    <3> HIDE DEF idx
    <3> QED
        BY <1>1, <2>0, Zenon DEF States
  <2>2. /\ t.records = s.records /\ t.varargs = s.varargs /\ t.callDepth = s.callDepth
        /\ t.metaDepth = s.metaDepth /\ t.nativeDepth = s.nativeDepth /\ t.active = s.active
        /\ t.bottom = s.bottom
      BY <1>1 DEF States
  <2>3. Core(t, ns)
      BY <2>1, <2>2, CoreSame, Zenon
  <2>4. IF ns # <<>> /\ Last(ns).kind = "run" THEN Refused(t, ns)
        ELSE st' = t /\ natives' = ns /\ raised' = FALSE
      BY <1>5, Zenon DEF CallUnguarded
  <2> HIDE DEF t
  <2>5. CASE ns # <<>> /\ Last(ns).kind = "run"
      BY <2>3, <2>4, <2>5, RefusedKeeps
  <2>6. CASE ~(ns # <<>> /\ Last(ns).kind = "run")
    <3>1. Slots(t, ns)
        BY <2>2, <2>6 DEF Slots, CanCall
    <3>2. Core(st', natives') /\ Slots(st', natives') /\ Len(natives') >= Len(ns) /\ raised' = FALSE
        BY <1>1, <2>3, <2>4, <2>6, <3>1
    <3> QED
        BY <3>2, Zenon DEF Kept
  <2> QED
      BY <2>5, <2>6
<1>6. CASE ~(s.nativeDepth >= MaxNativeCallDepth)
  <2>1. counted \in States
    <3>1. s.nativeDepth + 1 \in 0 .. MaxNativeCallDepth
        BY <1>2, <1>3, <1>6
    <3> QED
        BY <1>1, <3>1 DEF States
  <2>2. /\ counted.records = s.records /\ counted.varargs = s.varargs /\ counted.callDepth = s.callDepth
        /\ counted.metaDepth = s.metaDepth /\ counted.nativeDepth = s.nativeDepth + 1
        /\ counted.active = s.active /\ counted.bottom = s.bottom /\ counted.top = s.top
      BY <1>1 DEF States
  <2>3. l \in CallLevels
      BY <1>3, <1>4 DEF CallLevels
  <2>4. l.kind = "call" /\ l.idx = idx /\ l.old = s.bottom /\ l.guarded = guarded
      OBVIOUS
  <2>5. lv \in Seq(Natives) /\ lv # <<>> /\ Last(lv) = l /\ Len(lv) = Len(ns) + 1 /\ Core(counted, lv)
    <3> HIDE DEF counted, l, idx
    <3>1. l \in Natives /\ LevelOK(l) /\ UnitsOf(l) = 0 /\ CallsOf(l) = 1
        BY <1>4, <2>3, <2>4 DEF Natives, LevelOK, UnitsOf, CallsOf
    <3>2. Fits(l, ns)
        BY <2>4 DEF Fits, CanCall, Outermost, Above, CallOver
    <3>3. counted.metaDepth = s.metaDepth + UnitsOf(l) /\ counted.nativeDepth = s.nativeDepth + CallsOf(l)
        BY <1>1, <2>2, <3>1, Fields
    <3>4. Core(counted, lv)
        BY <2>1, <2>2, <2>4, <3>1, <3>2, <3>3, CorePush
    <3> QED
        BY <1>1, <3>1, <3>4, Appended
  <2>6. CASE ~CanBegin(counted, args, callee, FALSE)
    <3>1. Refused(counted, lv)
        BY <1>6, <2>6 DEF CallUnguarded
    <3> HIDE DEF counted, lv
    <3>2. Kept(Len(lv))
        BY <2>5, <3>1, RefusedKeeps
    <3> QED
        BY <1>1, <2>5, <3>2, KeptLess
  <2>7. CASE CanBegin(counted, args, callee, FALSE) /\ callee.target = "lua"
    <3> DEFINE k == [kind |-> "run", frames |-> <<entry.bottom>>]
    <3>1. st' = entry /\ natives' = Append(lv, k) /\ raised' = FALSE
        BY <1>6, <2>7 DEF CallUnguarded
    <3>2. /\ c \in Nat /\ callee.proto \in [params : Nat, vararg : BOOLEAN] /\ args <= counted.top
          /\ ChainFits(counted, args, c) /\ counted.callDepth < MaxCallDepth
          /\ FrameFits(Resolved(counted, c), args + c)
      <4>1. c \in Nat /\ callee.proto \in [params : Nat, vararg : BOOLEAN]
          BY <2>7, CalleeFields
      <4>2. ChainFits(counted, args, c) /\ DepthAllows(counted, FALSE) /\ FrameFits(Resolved(counted, c), args + c)
          BY <2>7, Zenon DEF CanBegin
      <4>3. counted.callDepth \in Nat
          BY <2>1, Fields, Zenon
      <4> HIDE DEF counted
      <4>4. counted.callDepth < MaxCallDepth
          BY <4>2, <4>3 DEF DepthAllows
      <4>5. args <= counted.top
          BY <1>2, <1>3, <2>2
      <4> QED
          BY <4>1, <4>2, <4>4, <4>5
    <3> HIDE DEF counted
    <3>3. /\ entry \in States /\ Pushes(counted, entry) /\ entry.bottom = counted.top - args
          /\ entry.top = counted.top - args + Width /\ counted.top - args \in Nat
          /\ counted.top - args + Width + FrameHeadroom <= MaxStackSize
        BY <1>2, <2>1, <3>2, AdmittedPushes
    <3>4. entry.bottom \in Nat /\ FrameOK(entry.bottom) /\ entry.bottom = l.idx + 1 /\ entry.top = entry.bottom + Width
        BY <1>2, <1>3, <2>2, <2>4, <3>3 DEF FrameOK
    <3> HIDE DEF entry, lv, l
    <3>5. Core(entry, Append(lv, k))
        BY <2>4, <2>5, <3>3, <3>4, CoreRun
    <3>6. k \in Natives /\ k.kind = "run" /\ Last(k.frames) = entry.bottom
        BY <3>4 DEF Natives, RunLevels, Last
    <3> HIDE DEF k
    <3>7. Last(Append(lv, k)) = k /\ Append(lv, k) # <<>> /\ Len(Append(lv, k)) = Len(lv) + 1
        BY <2>5, <3>6, Appended
    <3>8. Slots(entry, Append(lv, k))
        BY <3>4, <3>6, <3>7 DEF Slots
    <3>9. Core(st', natives') /\ Slots(st', natives') /\ Len(natives') >= Len(ns)
        BY <1>1, <2>5, <3>1, <3>5, <3>7, <3>8
    <3> QED
        BY <3>1, <3>9, Zenon DEF Kept
  <2>8. CASE CanBegin(counted, args, callee, FALSE) /\ callee.target # "lua"
    <3>1. Entered(counted, idx, callee, "native", lv)
        BY <1>6, <2>8 DEF CallUnguarded
    <3>2. callee.target \in {"host", "library"} /\ ChainFits(counted, args, callee.chain)
        BY <2>8, CalleeFields DEF CanBegin
    <3>3. counted.top >= 1
        BY <1>2, <1>3, <2>2
    <3> HIDE DEF counted, lv, l, idx
    <3>4. Kept(Len(lv))
        BY <1>2, <1>4, <2>2, <2>4, <2>5, <3>1, <3>2, <3>3, EnteredKeeps
    <3> QED
        BY <1>1, <2>5, <3>4, KeptLess
  <2> QED
      BY <2>6, <2>7, <2>8, Zenon
<1> QED
    BY <1>5, <1>6

-----------------------------------------------------------------------------
(* What a return leaves *)

LEMMA LastFrame ==
    ASSUME NEW l \in Natives, LevelOK(l), l.kind = "run"
    PROVE  /\ l.frames \in Seq(Nat) /\ l.frames # <<>> /\ Last(l.frames) \in Nat /\ FrameOK(Last(l.frames))
           /\ Last(l.frames) + Width \in 0 .. MaxStackSize
<1>1. l.frames \in Seq(Nat)
    BY Kinds DEF RunLevels
<1>2. l.frames # <<>> /\ \A j \in 1 .. Len(l.frames) : FrameOK(l.frames[j])
    BY DEF LevelOK
<1>3. Len(l.frames) \in Nat \ {0}
    BY <1>1, <1>2, EmptySeq
<1>4. Last(l.frames) \in Nat /\ FrameOK(Last(l.frames))
    BY <1>1, <1>2, <1>3 DEF Last
<1>5. Last(l.frames) + Width \in 0 .. MaxStackSize
    BY <1>4, CallsAssumption DEF FrameOK
<1> QED
    BY <1>1, <1>2, <1>4, <1>5

(* The call made from Rust at level `call` has returned *)
Over(call) ==
    /\ st'.bottom = call.old
    /\ natives' = <<>> \/ Last(natives').kind # "run" => st'.top = call.idx + call.results

LEMMA FinishKeeps ==
    ASSUME NEW s, NEW ns, Core(s, ns), ns # <<>>, Last(ns).kind = "call", s.bottom = Last(ns).old,
           NEW actual \in Nat, s.top - actual = Last(ns).idx, FinishCall(s, actual, ns)
    PROVE  /\ Kept(0)
           /\ raised' \/ (natives' = Front(ns) /\ Over(Last(ns)))
<1> DEFINE call == Last(ns)
           below == Front(ns)
           adjusted == s.top - actual + call.results
           newTop == IF below # <<>> /\ Last(below).kind = "run" THEN Last(Last(below).frames) + Width ELSE adjusted
           t == [s EXCEPT !.nativeDepth = @ - 1, !.top = newTop]
<1>1. s \in States /\ ns \in Seq(Natives) /\ Len(ns) \in Nat /\ Sound(ns)
    BY CoreSound
<1>2. call \in CallLevels /\ Fits(call, below) /\ Sound(below) /\ CallsOf(call) \in 0 .. s.nativeDepth
    BY <1>1, CoreTop, SoundPop, Kinds
<1>3. call.idx \in Nat /\ call.results \in Nat /\ UnitsOf(call) = 0 /\ CallsOf(call) = 1
    BY <1>2 DEF CallLevels, UnitsOf, CallsOf
<1>4. adjusted = call.idx + call.results /\ adjusted \in Nat
    BY <1>3
<1>5. s.nativeDepth \in Nat /\ s.nativeDepth <= MaxNativeCallDepth /\ MaxNativeCallDepth \in Nat /\ MaxStackSize \in Nat
      /\ s.metaDepth \in Nat
    BY <1>1, Fields, CallsAssumption
<1>6. CASE adjusted > MaxStackSize
  <2>1. Refused(s, ns)
      BY <1>6 DEF FinishCall
  <2>2. Kept(Len(ns)) /\ raised' = TRUE
      BY <2>1, RefusedKeeps DEF Refused
  <2> QED
      BY <1>1, <2>2, KeptLess
<1>7. CASE ~(adjusted > MaxStackSize)
  <2>1. st' = t /\ natives' = below /\ raised' = FALSE
      BY <1>7 DEF FinishCall
  <2>2. newTop \in 0 .. MaxStackSize
    <3>1. CASE below # <<>> /\ Last(below).kind = "run"
      <4>1. Last(below) \in Natives /\ LevelOK(Last(below))
          BY <1>2, <3>1, SoundPop
      <4>2. Last(Last(below).frames) + Width \in 0 .. MaxStackSize
          BY <3>1, <4>1, LastFrame
      <4> QED
          BY <3>1, <4>2
    <3>2. CASE ~(below # <<>> /\ Last(below).kind = "run")
      <4>1. adjusted \in 0 .. MaxStackSize
          BY <1>4, <1>5, <1>7
      <4> QED
          BY <3>2, <4>1
    <3> QED
        BY <3>1, <3>2
  <2>3. s.nativeDepth - 1 \in 0 .. MaxNativeCallDepth
      BY <1>2, <1>3, <1>5
  <2>4. below # <<>> /\ Last(below).kind = "run" => newTop = Last(Last(below).frames) + Width
      OBVIOUS
  <2>5. below = <<>> \/ Last(below).kind # "run" => newTop = call.idx + call.results
      BY <1>4
  <2> HIDE DEF newTop, below, call
  <2>6. t \in States
      BY <1>1, <2>2, <2>3, Zenon DEF States
  <2>7. /\ t.records = s.records /\ t.varargs = s.varargs /\ t.callDepth = s.callDepth
        /\ t.metaDepth = s.metaDepth /\ t.nativeDepth = s.nativeDepth - 1 /\ t.active = s.active
        /\ t.bottom = s.bottom /\ t.top = newTop
      BY <1>1 DEF States
  <2> HIDE DEF t
  <2>8. t.metaDepth = s.metaDepth - UnitsOf(Last(ns)) /\ t.nativeDepth = s.nativeDepth - CallsOf(Last(ns))
      BY <1>3, <1>5, <2>7 DEF call
  <2>9. Core(t, below)
      BY <2>6, <2>7, <2>8, CorePop DEF below
  <2>10. Slots(t, below)
    <3>1. t.bottom = call.old /\ call.kind = "call"
        BY <2>7 DEF call
    <3>2. CASE below = <<>>
        BY <1>2, <3>1, <3>2 DEF Slots, Fits, Outermost
    <3>3. CASE below # <<>>
      <4>1. CallOver(call, Last(below))
          BY <1>2, <3>1, <3>3 DEF Fits, Above
      <4> QED
          BY <2>4, <2>7, <3>1, <3>3, <4>1 DEF Slots, CallOver
    <3> QED
        BY <3>2, <3>3
  <2>11. Core(st', natives') /\ Slots(st', natives') /\ Len(natives') >= 0
    <3>1. Core(st', natives') /\ Slots(st', natives')
        BY <2>1, <2>9, <2>10
    <3> QED
        BY <3>1, CoreSound
  <2>12. Kept(0)
      BY <2>1, <2>11, Zenon DEF Kept
  <2>13. Over(call)
      BY <2>1, <2>5, <2>7 DEF Over, call
  <2> QED
      BY <2>1, <2>12, <2>13 DEF below, call
<1> QED
    BY <1>6, <1>7

LEMMA InvocationBelow ==
    ASSUME NEW ns, Sound(ns), ns # <<>>, Last(ns).kind = "run"
    PROVE  LET call == Last(Front(ns))
           IN  /\ Front(ns) # <<>> /\ call \in CallLevels /\ call.kind = "call" /\ call = ns[Len(ns) - 1]
               /\ LevelOK(call) /\ call.old \in Nat
               /\ Front(Last(ns).frames) = <<>> => Last(Last(ns).frames) = call.idx + 1
<1> DEFINE call == Last(Front(ns))
           fs == Last(ns).frames
<1>1. ns \in Seq(Natives) /\ Front(ns) \in Seq(Natives) /\ Len(ns) \in Nat \ {0} /\ Len(Front(ns)) = Len(ns) - 1
      /\ \A i \in 1 .. Len(ns) - 1 : Front(ns)[i] = ns[i]
    BY Split, Zenon DEF Sound
<1>2. Sound(Front(ns)) /\ Last(ns) \in Natives /\ LevelOK(Last(ns)) /\ Fits(Last(ns), Front(ns))
    BY SoundPop
<1>3. Front(ns) # <<>> /\ call.kind = "call" /\ fs[1] = call.idx + 1
    BY <1>2 DEF Fits, Outermost, Above
<1>4. call \in Natives /\ LevelOK(call)
    BY <1>2, <1>3, SoundPop
<1>5. call \in CallLevels
    BY <1>3, <1>4, Kinds
<1>6. call = ns[Len(ns) - 1]
  <2>1. Len(Front(ns)) \in Nat \ {0}
      BY <1>1, <1>3, EmptySeq
  <2> QED
      BY <1>1, <2>1 DEF Last
<1>7. ASSUME Front(fs) = <<>> PROVE Last(fs) = call.idx + 1
  <2>1. fs \in Seq(Nat) /\ fs # <<>>
      BY <1>2, LastFrame
  <2>2. Len(Front(fs)) = Len(fs) - 1 /\ Len(fs) \in Nat
      BY <2>1, Split
  <2> HIDE DEF fs, call
  <2>3. Len(Front(fs)) = 0
      BY <1>7
  <2>4. Len(fs) = 1
      BY <2>2, <2>3
  <2> QED
      BY <1>3, <2>4 DEF Last
<1>8. call.old \in Nat
    BY <1>5 DEF CallLevels
<1> QED
    BY <1>3, <1>4, <1>5, <1>6, <1>7, <1>8

LEMMA FrameReturnsKeeps ==
    ASSUME NEW s, NEW ns, Core(s, ns), ns # <<>>, Last(ns).kind = "run",
           NEW actual \in Nat, s.top = Last(Last(ns).frames) - 1 + actual, FrameReturns(s, actual, ns)
    PROVE  /\ Kept(0)
           /\ \/ raised'
              \/ natives' # <<>> /\ Last(natives').kind = "run"
              \/ natives' = Front(Front(ns)) /\ Over(Last(Front(ns)))
<1> DEFINE p == PopActivation(s)
           fs == Front(Last(ns).frames)
           ms == [ns EXCEPT ![Len(ns)].frames = fs]
           call == Last(Front(ns))
<1>1. s \in States /\ ns \in Seq(Natives) /\ Sound(ns)
    BY CoreSound
<1>2. /\ p \in States /\ p.top = s.top /\ p.bottom = s.bottom /\ p.active = s.active
      /\ fs = <<>> => Core(p, Front(ns))
      /\ fs # <<>> => Core(p, ms) /\ ms # <<>> /\ Last(ms).kind = "run" /\ Last(ms).frames = fs
    BY CorePopFrame
<1>3. /\ Front(ns) # <<>> /\ call \in CallLevels /\ call.kind = "call" /\ call = ns[Len(ns) - 1]
      /\ call.old \in Nat
      /\ fs = <<>> => Last(Last(ns).frames) = call.idx + 1
    BY <1>1, InvocationBelow
<1>4. CASE fs = <<>>
  <2> DEFINE t == [p EXCEPT !.bottom = call.old]
  <2>1. FinishCall(t, actual, Front(ns))
      BY <1>3, <1>4 DEF FrameReturns
  <2> HIDE DEF p, call
  <2>2. t \in States /\ t.bottom = call.old /\ t.top = p.top
        /\ t.records = p.records /\ t.varargs = p.varargs /\ t.callDepth = p.callDepth
        /\ t.metaDepth = p.metaDepth /\ t.nativeDepth = p.nativeDepth /\ t.active = p.active
      BY <1>2, <1>3, Zenon DEF States
  <2> HIDE DEF t
  <2>3. Core(t, Front(ns))
      BY <1>2, <1>4, <2>2, CoreSame
  <2>4. t.top - actual = call.idx
    <3>1. call.idx \in Nat
        BY <1>3 DEF CallLevels
    <3> QED
        BY <1>2, <1>3, <1>4, <2>2, <3>1
  <2>5. /\ Kept(0)
        /\ raised' \/ (natives' = Front(Front(ns)) /\ Over(Last(Front(ns))))
      BY <1>3, <2>1, <2>2, <2>3, <2>4, FinishKeeps DEF call
  <2> QED
      BY <2>5
<1>5. CASE fs # <<>>
  <2> DEFINE t == [p EXCEPT !.bottom = Last(fs), !.top = Last(fs) + Width]
  <2>1. st' = t /\ natives' = ms /\ raised' = FALSE
      BY <1>5 DEF FrameReturns
  <2>2. Core(p, ms) /\ ms # <<>> /\ Last(ms).kind = "run" /\ Last(ms).frames = fs
      BY <1>2, <1>5
  <2> HIDE DEF p, fs, ms
  <2>3. Last(fs) \in Nat /\ Last(fs) + Width \in 0 .. MaxStackSize
    <3>1. Last(ms) \in Natives /\ LevelOK(Last(ms))
        BY <2>2, CoreTop
    <3> QED
        BY <2>2, <3>1, LastFrame
  <2>4. t \in States /\ t.bottom = Last(fs) /\ t.top = Last(fs) + Width
        /\ t.records = p.records /\ t.varargs = p.varargs /\ t.callDepth = p.callDepth
        /\ t.metaDepth = p.metaDepth /\ t.nativeDepth = p.nativeDepth /\ t.active = p.active
      BY <1>2, <2>3, Zenon DEF States
  <2> HIDE DEF t
  <2>5. Core(t, ms)
      BY <2>2, <2>4, CoreSame
  <2>6. Slots(t, ms)
      BY <2>2, <2>4 DEF Slots
  <2>7. Core(st', natives') /\ Slots(st', natives') /\ natives' # <<>> /\ Last(natives').kind = "run"
      BY <2>1, <2>2, <2>5, <2>6
  <2>8. Len(natives') >= 0
      BY <2>7, CoreSound
  <2> QED
      BY <2>1, <2>7, <2>8, Zenon DEF Kept
<1> QED
    BY <1>4, <1>5

-----------------------------------------------------------------------------
(* The steps of a State that is not poisoned.  Ends is what the end of a   *)
(* call made from Rust leaves its caller.                                  *)
Ends ==
    Len(natives') < Len(natives) /\ (InHost' \/ InCallback') =>
        LET call == natives[Len(natives') + 1]
        IN  call.kind = "call" =>
                /\ st'.bottom = call.old
                /\ st'.top \in {call.idx, call.idx + call.results}

Done == Kept(0) /\ Ends

LEMMA NotShorter ==
    ASSUME natives \in Seq(Natives), Kept(Len(natives))
    PROVE  Done
<1>1. Len(natives) \in Nat
    OBVIOUS
<1>2. Kept(0)
    BY <1>1, KeptLess
<1>3. Len(natives') \in Nat /\ Len(natives') >= Len(natives)
    BY CoreSound DEF Kept
<1>4. Ends
    BY <1>1, <1>3 DEF Ends
<1> QED
    BY <1>2, <1>4 DEF Done

LEMMA RaisedEnds ==
    ASSUME raised' = TRUE
    PROVE  Ends
BY DEF Ends, InHost, InCallback, Steady

LEMMA Moved ==
    ASSUME NEW s, NEW ns, Core(s, ns), NEW n \in 0 .. MaxStackSize, NEW t, t = [s EXCEPT !.top = n]
    PROVE  Core(t, ns) /\ t \in States /\ t.top = n /\ t.bottom = s.bottom /\ t.active = s.active
<1>1. s \in States
    BY CoreSound
<1>2. t \in States
    BY <1>1 DEF States
<1>3. /\ t.top = n /\ t.bottom = s.bottom /\ t.active = s.active
      /\ t.records = s.records /\ t.varargs = s.varargs /\ t.callDepth = s.callDepth
      /\ t.metaDepth = s.metaDepth /\ t.nativeDepth = s.nativeDepth
    BY <1>1 DEF States
<1>4. Core(t, ns)
    BY <1>2, <1>3, CoreSame, Zenon
<1> QED
    BY <1>2, <1>3, <1>4

LEMMA HostMoves ==
    ASSUME Core(st, natives), natives = <<>>, Slots(st, natives), ~raised, HostPush \/ HostClear
    PROVE  Done
<1>1. PICK n \in 0 .. MaxStackSize : st' = [st EXCEPT !.top = n]
  <2>1. st.top \in Nat /\ MaxStackSize \in Nat /\ MaxHostSlots \in Nat /\ MaxHostSlots <= MaxStackSize
      BY CoreSound, Fields, CallsAssumption
  <2>2. CASE HostPush
    <3>1. st.top + 1 \in 0 .. MaxStackSize /\ st' = [st EXCEPT !.top = st.top + 1]
        BY <2>1, <2>2 DEF HostPush
    <3> QED
        BY <3>1
  <2>3. CASE HostClear
    <3>1. 0 \in 0 .. MaxStackSize /\ st' = [st EXCEPT !.top = 0]
        BY <2>1, <2>3 DEF HostClear
    <3> QED
        BY <3>1
  <2> QED
      BY <2>2, <2>3
<1>2. natives' = natives /\ raised' = FALSE
    BY DEF HostPush, HostClear
<1>3. Core(st', natives) /\ st'.bottom = st.bottom
    BY <1>1, Moved
<1>4. Slots(st', natives')
    BY <1>2, <1>3 DEF Slots
<1>5. natives \in Seq(Natives)
    BY CoreSound
<1>6. Len(natives') >= Len(natives) /\ Core(st', natives')
    BY <1>2, <1>3, <1>5
<1>7. Kept(Len(natives))
    BY <1>2, <1>4, <1>6, Zenon DEF Kept
<1> QED
    BY <1>5, <1>7, NotShorter

(* A call from Rust by whoever runs, of a function pushed with its arguments *)
LEMMA PushedCallKeeps ==
    ASSUME NEW ns, Core(st, ns), NEW args \in Args, NEW callee \in Callees, NEW results \in Nat,
           NEW guarded \in BOOLEAN, st.top + 1 + args <= MaxStackSize, CanCall(st, guarded, ns),
           CallUnguarded([st EXCEPT !.top = @ + 1 + args], args, callee, results, guarded, ns)
    PROVE  Kept(Len(ns))
<1> DEFINE s == [st EXCEPT !.top = @ + 1 + args]
<1>1. st.top \in Nat /\ MaxStackSize \in Nat /\ args \in Nat
    BY CoreSound, Fields, CallsAssumption
<1>2. st.top + 1 + args \in 0 .. MaxStackSize /\ s = [st EXCEPT !.top = st.top + 1 + args]
    BY <1>1
<1>3. CallUnguarded(s, args, callee, results, guarded, ns)
    OBVIOUS
<1> HIDE DEF s
<1>4. Core(s, ns) /\ s.top = st.top + 1 + args /\ s.bottom = st.bottom
    BY <1>2, Moved
<1>5. args + 1 <= s.top
    BY <1>1, <1>4
<1>6. CanCall(s, guarded, ns)
    BY <1>4 DEF CanCall
<1> QED
    BY <1>3, <1>4, <1>5, <1>6, CallUnguardedKeeps

LEMMA HostCallKeeps ==
    ASSUME Core(st, natives), Slots(st, natives),
           NEW args \in Args, NEW callee \in Callees, NEW results \in Expected, HostCall(args, callee, results)
    PROVE  Done
<1>1. natives = <<>> /\ st.top + 1 + args <= MaxStackSize
    BY DEF HostCall, InHost
<1>2. CallUnguarded([st EXCEPT !.top = @ + 1 + args], args, callee, results, TRUE, natives)
    BY <1>1, Zenon DEF HostCall
<1>3. CanCall(st, TRUE, natives) /\ results \in Nat
    BY <1>1, CallsAssumption DEF CanCall, Slots
<1>4. Kept(Len(natives))
    BY <1>1, <1>2, <1>3, PushedCallKeeps, Zenon
<1> QED
    BY <1>4, NotShorter, CoreSound

LEMMA CallbackCallKeeps ==
    ASSUME Core(st, natives), Slots(st, natives),
           NEW args \in Args, NEW callee \in Callees, NEW results \in Expected, CallbackCall(args, callee, results)
    PROVE  Done
<1> DEFINE l == Last(natives)
           k == [l EXCEPT !.calls = @ + 1]
           ms == [natives EXCEPT ![Len(natives)].calls = @ + 1]
<1>1. natives # <<>> /\ l.kind = "rust" /\ l.calls < MaxCallbackCalls /\ st.top + 1 + args <= MaxStackSize
    BY DEF CallbackCall, InCallback, Innermost
<1>2. CallUnguarded([st EXCEPT !.top = @ + 1 + args], args, callee, results, st.active = "host", ms)
    BY DEF CallbackCall
<1>3. natives \in Seq(Natives) /\ Front(natives) \in Seq(Natives) /\ l \in RustLevels /\ Len(natives) \in Nat
    BY <1>1, CoreSound, CoreTop, Kinds, Split
<1>4. k \in RustLevels /\ k.kind = "rust" /\ Alike(k, l) /\ k.base = l.base
  <2>1. l.calls + 1 \in 0 .. MaxCallbackCalls
      BY <1>1, <1>3, CallsAssumption DEF RustLevels
  <2> HIDE DEF l
  <2>2. k \in RustLevels /\ k.kind = "rust" /\ k.base = l.base
      BY <1>3, <2>1 DEF RustLevels
  <2>3. Alike(k, l)
      BY <1>3 DEF RustLevels, Alike
  <2> QED
      BY <2>2, <2>3
<1>5. ms = [natives EXCEPT ![Len(natives)] = k]
    BY DEF Last
<1> HIDE DEF k, l, ms
<1>6. k \in Natives /\ LevelOK(k)
    BY <1>4 DEF Natives, LevelOK
<1>7. Core(st, ms)
    BY <1>1, <1>4, <1>5, <1>6, CoreSwap, Zenon DEF l
<1>8. ms = Append(Front(natives), k)
    BY <1>1, <1>3, <1>5, <1>6, Replaced
<1>9. ms # <<>> /\ Last(ms) = k /\ Len(ms) = Len(natives)
  <2>1. Len(Front(natives)) = Len(natives) - 1
      BY <1>1, <1>3, Split
  <2>2. ms # <<>> /\ Last(ms) = k /\ Len(ms) = Len(Front(natives)) + 1
      BY <1>3, <1>6, <1>8, Appended
  <2> QED
      BY <1>3, <2>1, <2>2
<1>10. st.bottom = l.base
    BY <1>1 DEF Slots, l
<1>11. CanCall(st, st.active = "host", ms) /\ results \in Nat /\ (st.active = "host") \in BOOLEAN
    BY <1>4, <1>9, <1>10, CallsAssumption DEF CanCall
<1>12. Kept(Len(ms))
    BY <1>1, <1>2, <1>7, <1>11, PushedCallKeeps, Zenon
<1> QED
    BY <1>3, <1>9, <1>12, NotShorter

LEMMA MetaCallKeeps ==
    ASSUME Core(st, natives), Slots(st, natives),
           NEW args \in Args, NEW callee \in Callees, MetaCall(args, callee)
    PROVE  Done
<1>1. natives # <<>> /\ Last(natives).kind = "run" /\ args + 1 <= FrameHeadroom
      /\ CallUnguarded([st EXCEPT !.top = @ + 1 + args], args, callee, 1, FALSE, natives)
    BY Zenon DEF MetaCall, InLua, Innermost
<1>2. Last(natives) \in Natives /\ LevelOK(Last(natives)) /\ natives \in Seq(Natives)
    BY <1>1, CoreTop, CoreSound
<1>3. st.bottom = Last(Last(natives).frames) /\ st.top = Last(Last(natives).frames) + Width
    BY <1>1 DEF Slots
<1>4. st.top + 1 + args <= MaxStackSize
  <2>1. FrameOK(Last(Last(natives).frames)) /\ Last(Last(natives).frames) \in Nat
      BY <1>1, <1>2, LastFrame
  <2>2. args \in Nat /\ Width \in Nat /\ FrameHeadroom \in Nat /\ MaxStackSize \in Nat
      BY CallsAssumption
  <2> QED
      BY <1>1, <1>3, <2>1, <2>2 DEF FrameOK
<1>5. CanCall(st, FALSE, natives)
    BY <1>1, <1>3 DEF CanCall
<1>6. Kept(Len(natives))
    BY <1>1, <1>4, <1>5, PushedCallKeeps, Zenon
<1> QED
    BY <1>2, <1>6, NotShorter

-----------------------------------------------------------------------------
(* The steps of a Lua frame *)

LEMMA StillRunning ==
    ASSUME NEW s, NEW ns, Core(s, ns), Slots(s, ns), ns # <<>>, Last(ns).kind = "run",
           st' = s, natives' = ns, raised' = FALSE
    PROVE  Done
<1>1. Core(st', natives') /\ Slots(st', natives') /\ Last(natives').kind = "run" /\ natives' # <<>>
    OBVIOUS
<1>2. Len(natives') >= 0
    BY <1>1, CoreSound
<1>3. Kept(0)
    BY <1>1, <1>2, Zenon DEF Kept
<1>4. Ends
    BY <1>1 DEF Ends, InHost, InCallback, Innermost
<1> QED
    BY <1>3, <1>4 DEF Done

LEMMA RefusedDone ==
    ASSUME NEW s, NEW ns, Core(s, ns), ns # <<>>, Refused(s, ns)
    PROVE  Done
<1>1. Kept(Len(ns)) /\ raised' = TRUE /\ Len(ns) \in Nat
    BY RefusedKeeps, CoreSound DEF Refused
<1>2. Kept(0)
    BY <1>1, KeptLess
<1> QED
    BY <1>1, <1>2, RaisedEnds DEF Done

(* The running frame *)
LEMMA LuaFacts ==
    ASSUME Core(st, natives), Slots(st, natives), InLua
    PROVE  /\ natives # <<>> /\ Last(natives).kind = "run" /\ natives \in Seq(Natives)
           /\ Last(natives) \in Natives /\ Last(natives) \in RunLevels /\ LevelOK(Last(natives))
           /\ FrameBottom = Last(Last(natives).frames) /\ FrameBottom \in Nat /\ FrameBottom >= 1
           /\ FrameBottom + Width + FrameHeadroom <= MaxStackSize
           /\ st.bottom = FrameBottom /\ st.top = FrameBottom + Width
           /\ st.records \in Seq(Records) /\ st.records # <<>>
<1>1. natives # <<>> /\ Last(natives).kind = "run" /\ FrameBottom = Last(Last(natives).frames)
    BY DEF InLua, Innermost, FrameBottom
<1>2. /\ natives \in Seq(Natives) /\ Last(natives) \in Natives /\ LevelOK(Last(natives))
      /\ FramesOf(Last(natives)) \in 0 .. Len(st.records) /\ st \in States
    BY <1>1, CoreTop, CoreSound
<1>3. /\ Last(natives).frames \in Seq(Nat) /\ Last(natives).frames # <<>>
      /\ FrameBottom \in Nat /\ FrameOK(FrameBottom)
    BY <1>1, <1>2, LastFrame
<1>4. st.bottom = FrameBottom /\ st.top = FrameBottom + Width
    BY <1>1 DEF Slots
<1>5. Len(Last(natives).frames) \in Nat \ {0}
    BY <1>3, EmptySeq
<1>6. st.records \in Seq(Records) /\ st.records # <<>>
  <2>1. st.records \in Seq(Records)
      BY <1>2, Fields
  <2>2. Len(st.records) >= 1
      BY <1>1, <1>2, <1>5, <2>1 DEF FramesOf
  <2> QED
      BY <2>1, <2>2
<1>7. Last(natives) \in RunLevels
    BY <1>1, <1>2, Kinds
<1> QED
    BY <1>1, <1>2, <1>3, <1>4, <1>6, <1>7 DEF FrameOK

LEMMA LuaCallKeeps ==
    ASSUME Core(st, natives), Slots(st, natives),
           NEW f, NEW args \in Args, NEW callee \in Callees, LuaCall(f, args, callee)
    PROVE  Done
<1> DEFINE s == [st EXCEPT !.top = f + 1 + args]
           c == callee.chain
           entry == Admitted(Resolved(s, c), callee.proto, args + c, Charges(c))
           ms == [natives EXCEPT ![Len(natives)].frames = Append(@, entry.bottom)]
<1>1. InLua /\ f \in FrameBottom .. FrameBottom + Width - 1 - args
    BY DEF LuaCall
<1>2. /\ natives # <<>> /\ Last(natives).kind = "run" /\ natives \in Seq(Natives)
      /\ FrameBottom = Last(Last(natives).frames) /\ FrameBottom \in Nat /\ FrameBottom >= 1
      /\ FrameBottom + Width + FrameHeadroom <= MaxStackSize
      /\ st.bottom = FrameBottom
    BY <1>1, LuaFacts
<1>3. args \in Nat /\ Width \in Nat /\ FrameHeadroom \in Nat /\ MaxStackSize \in Nat /\ MaxCallDepth \in Nat
    BY CallsAssumption
<1>4. f \in Nat /\ f + 1 + args \in 0 .. MaxStackSize
    BY <1>1, <1>2, <1>3
<1>5. IF ~CanBegin(s, args, callee, FALSE) THEN Refused(s, natives)
      ELSE IF callee.target = "lua" THEN st' = entry /\ natives' = ms /\ raised' = FALSE
      ELSE Entered(s, f, callee, "lua", natives)
    BY Zenon DEF LuaCall
<1>6. Core(s, natives) /\ s \in States /\ s.top = f + 1 + args /\ s.bottom = st.bottom
    BY <1>4, Moved
<1> HIDE DEF s
<1>7. CASE ~CanBegin(s, args, callee, FALSE)
    BY <1>2, <1>5, <1>6, <1>7, RefusedDone
<1>8. CASE CanBegin(s, args, callee, FALSE) /\ callee.target = "lua"
  <2>1. /\ c \in Nat /\ callee.proto \in [params : Nat, vararg : BOOLEAN]
        /\ ChainFits(s, args, c) /\ FrameFits(Resolved(s, c), args + c) /\ DepthAllows(s, FALSE)
      BY <1>8, CalleeFields, Zenon DEF CanBegin
  <2>2. s.callDepth < MaxCallDepth
    <3>1. s.callDepth \in Nat
        BY <1>6, Fields
    <3> QED
        BY <2>1, <3>1 DEF DepthAllows
  <2>3. args <= s.top /\ s.top - args = f + 1
      BY <1>3, <1>4, <1>6
  <2>4. /\ entry \in States /\ Pushes(s, entry) /\ entry.bottom = s.top - args
        /\ entry.top = s.top - args + Width /\ s.top - args + Width + FrameHeadroom <= MaxStackSize
    <3>1. /\ s \in States /\ callee.proto \in [params : Nat, vararg : BOOLEAN] /\ args \in Nat /\ args <= s.top
          /\ c \in Nat /\ ChainFits(s, args, c) /\ s.callDepth < MaxCallDepth
          /\ FrameFits(Resolved(s, c), args + c)
        BY <1>3, <1>6, <2>1, <2>2, <2>3, Zenon
    <3> HIDE DEF c
    <3> QED
        BY <3>1, AdmittedPushes, ZenonT(40)
  <2>5. st' = entry /\ natives' = ms /\ raised' = FALSE
      BY <1>5, <1>8
  <2> HIDE DEF entry
  <2>6. entry.bottom \in Nat /\ FrameOK(entry.bottom) /\ entry.top = entry.bottom + Width
      BY <1>3, <1>4, <2>3, <2>4 DEF FrameOK
  <2>7. Core(entry, ms) /\ ms # <<>> /\ Last(ms).kind = "run" /\ Last(Last(ms).frames) = entry.bottom
    <3>1. /\ Core(s, natives) /\ natives # <<>> /\ Last(natives).kind = "run" /\ entry \in States
          /\ Pushes(s, entry) /\ entry.bottom \in Nat /\ FrameOK(entry.bottom)
        BY <1>2, <1>6, <2>4, <2>6, Zenon
    <3>2. ms = FrameOn(natives, entry.bottom)
        BY DEF FrameOn
    <3> HIDE DEF ms
    <3> QED
        BY <3>1, <3>2, CoreFrame, SMTT(30)
  <2> HIDE DEF ms
  <2>8. Slots(entry, ms)
      BY <2>6, <2>7 DEF Slots
  <2> QED
      BY <2>5, <2>7, <2>8, StillRunning, Zenon
<1>9. CASE CanBegin(s, args, callee, FALSE) /\ callee.target # "lua"
  <2>1. callee.target \in {"host", "library"} /\ ChainFits(s, args, callee.chain)
      BY <1>9, CalleeFields DEF CanBegin
  <2>2. Entered(s, f, callee, "lua", natives)
      BY <1>5, <1>9
  <2>3. s.top >= 1
      BY <1>3, <1>4, <1>6
  <2>4. Kept(Len(natives))
      BY <1>2, <1>3, <1>4, <1>6, <2>1, <2>2, <2>3, EnteredKeeps
  <2> QED
      BY <1>2, <2>4, NotShorter
<1> QED
    BY <1>7, <1>8, <1>9, Zenon

LEMMA EndsOver ==
    ASSUME NEW ns \in Seq(Natives), ns # <<>>, natives' = Front(ns), Over(Last(ns)),
           natives[Len(ns)] = Last(ns)
    PROVE  Ends
<1>1. Len(natives') + 1 = Len(ns)
    BY Split
<1>2. natives[Len(natives') + 1] = Last(ns)
    BY <1>1
<1>3. ASSUME InHost' \/ InCallback' PROVE natives' = <<>> \/ Last(natives').kind # "run"
    BY <1>3 DEF InHost, InCallback, Innermost
<1>4. ASSUME InHost' \/ InCallback'
      PROVE  st'.bottom = Last(ns).old /\ st'.top = Last(ns).idx + Last(ns).results
    BY <1>3, <1>4 DEF Over
<1> QED
    BY <1>2, <1>4 DEF Ends

LEMMA LuaReturnKeeps ==
    ASSUME Core(st, natives), Slots(st, natives), NEW n \in Nat, LuaReturn(n)
    PROVE  Done
<1> DEFINE s == [st EXCEPT !.top = FrameBottom - 1 + n]
<1>1. InLua /\ FrameBottom + n <= MaxStackSize
      /\ IF n > MaxResults THEN Refused(st, natives) ELSE FrameReturns(s, n, natives)
    BY DEF LuaReturn
<1>2. /\ natives # <<>> /\ Last(natives).kind = "run" /\ natives \in Seq(Natives)
      /\ FrameBottom = Last(Last(natives).frames) /\ FrameBottom \in Nat /\ FrameBottom >= 1
    BY <1>1, LuaFacts
<1>3. CASE n > MaxResults
    BY <1>1, <1>2, <1>3, RefusedDone
<1>4. CASE ~(n > MaxResults)
  <2>1. FrameBottom - 1 + n \in 0 .. MaxStackSize
      BY <1>1, <1>2, CallsAssumption, SMTT(20)
  <2>2. Core(s, natives) /\ s.top = FrameBottom - 1 + n
      BY <2>1, Moved
  <2>3. FrameReturns(s, n, natives)
      BY <1>1, <1>4
  <2> HIDE DEF s
  <2>4. /\ Kept(0)
        /\ \/ raised'
           \/ natives' # <<>> /\ Last(natives').kind = "run"
           \/ natives' = Front(Front(natives)) /\ Over(Last(Front(natives)))
      BY <1>2, <2>2, <2>3, FrameReturnsKeeps
  <2>5. CASE raised'
      BY <2>4, <2>5, RaisedEnds DEF Done, Kept
  <2>6. CASE natives' # <<>> /\ Last(natives').kind = "run"
      BY <2>4, <2>6 DEF Done, Ends, InHost, InCallback, Innermost
  <2>7. CASE natives' = Front(Front(natives)) /\ Over(Last(Front(natives)))
    <3>1. Front(natives) # <<>> /\ Last(Front(natives)) = natives[Len(natives) - 1]
        BY <1>2, CoreSound, InvocationBelow
    <3>2. Front(natives) \in Seq(Natives) /\ Len(Front(natives)) = Len(natives) - 1
        BY <1>2, Split
    <3>3. Ends
        BY <2>7, <3>1, <3>2, EndsOver
    <3> QED
        BY <2>4, <3>3 DEF Done
  <2> QED
      BY <2>4, <2>5, <2>6, <2>7
<1> QED
    BY <1>3, <1>4

LEMMA LuaFails ==
    ASSUME Core(st, natives), Slots(st, natives), InLua, Refused(st, natives)
    PROVE  Done
BY LuaFacts, RefusedDone

LEMMA LuaStays ==
    ASSUME Core(st, natives), Slots(st, natives), InLua, raised \in BOOLEAN,
           UNCHANGED <<st, natives, raised>>
    PROVE  Done
<1>1. natives # <<>> /\ Last(natives).kind = "run" /\ raised = FALSE
    BY LuaFacts DEF InLua, Steady
<1>2. st' = st /\ natives' = natives /\ raised' = FALSE
    BY <1>1
<1>3. Core(st', natives') /\ Slots(st', natives') /\ natives' # <<>> /\ Last(natives').kind = "run"
    BY <1>1, <1>2
<1>4. Len(natives') >= 0
    BY <1>3, CoreSound
<1>5. Kept(0)
    BY <1>2, <1>3, <1>4 DEF Kept
<1>6. Ends
    BY <1>3 DEF Ends, InHost, InCallback, Innermost
<1> QED
    BY <1>5, <1>6 DEF Done

-----------------------------------------------------------------------------
(* Tail calls *)

LEMMA TopRecord ==
    ASSUME NEW s, NEW ns, Core(s, ns), s.records # <<>>
    PROVE  LET la == Last(s.records)
           IN  /\ s \in States /\ s.records \in Seq(Records) /\ Len(s.records) \in Nat \ {0}
               /\ la \in Records /\ la.chain \in Nat /\ la.varargStart \in Nat
               /\ Front(s.records) \in Seq(Records)
               /\ s.metaDepth - la.chain \in 0 .. MaxMetamethodDepth
               /\ s.varargs - la.varargStart \in 0 .. MaxArguments
<1> DEFINE la == Last(s.records)
           p == PopActivation(s)
<1>1. PICK f, u, n \in Nat : Levels(ns, f, u, n, s.active) /\ Ledger(s, f, u, n)
    BY DEF Core
<1>2. s \in States /\ s.records \in Seq(Records) /\ Arena(s.records, s.varargs)
    BY <1>1, Fields DEF Ledger
<1>3. Len(s.records) \in Nat \ {0} /\ la \in Records /\ Front(s.records) \in Seq(Records)
    BY <1>2, Split
<1>4. p \in States
    BY <1>1, LedgerPop DEF Ledger
<1>5. p.metaDepth = s.metaDepth - la.chain
    BY <1>2 DEF PopActivation, States
<1>6. p.metaDepth \in 0 .. MaxMetamethodDepth
    BY <1>4 DEF States
<1>7. s.varargs - la.varargStart \in 0 .. MaxArguments
    BY <1>2, <1>3 DEF Arena, Last
<1>8. la.chain \in Nat /\ la.varargStart \in Nat
    BY <1>3, CallsAssumption DEF Records
<1> QED
    BY <1>2, <1>3, <1>5, <1>6, <1>7, <1>8

LEMMA SlidCore ==
    ASSUME Core(st, natives), Slots(st, natives), InLua, NEW args \in Args, args < Width
    PROVE  LET s == Slid(args)
           IN  /\ Core(s, natives) /\ s \in States /\ s.top = FrameBottom + args /\ s.bottom = FrameBottom - 1
               /\ s.records # <<>> /\ Last(s.records).chain = 0
<1> DEFINE s == Slid(args)
           la == Last(st.records)
           r == [la EXCEPT !.chain = 0]
           d == st.varargs - la.varargStart
           n == Len(st.records)
<1>1. /\ FrameBottom \in Nat /\ FrameBottom >= 1 /\ FrameBottom + Width + FrameHeadroom <= MaxStackSize
      /\ st.records # <<>>
    BY LuaFacts
<1>2. /\ st \in States /\ st.records \in Seq(Records) /\ n \in Nat \ {0}
      /\ la \in Records /\ la.chain \in Nat /\ la.varargStart \in Nat
      /\ Front(st.records) \in Seq(Records)
      /\ st.metaDepth - la.chain \in 0 .. MaxMetamethodDepth
      /\ d \in 0 .. MaxArguments
    BY <1>1, TopRecord
<1>3. r \in Records /\ r.chain = 0 /\ r.varargStart = la.varargStart
  <2> HIDE DEF la, d, n
  <2>1. 0 \in 0 .. MaxMetamethodDepth
      BY CallsAssumption
  <2> QED
      BY <1>2, <2>1 DEF Records
<1>4. [st.records EXCEPT ![n].chain = 0] = [st.records EXCEPT ![n] = r]
    BY DEF Last
<1> HIDE DEF r
<1>5. [st.records EXCEPT ![n] = r] = Append(Front(st.records), r)
    BY <1>1, <1>2, <1>3, Replaced, Zenon
<1> DEFINE rs == Append(Front(st.records), r)
<1>6. s = [st EXCEPT !.top = FrameBottom + args, !.bottom = FrameBottom - 1,
                     !.metaDepth = st.metaDepth - la.chain, !.records = rs]
    BY <1>2, <1>4, <1>5, Zenon DEF Slid, States
<1>7. rs \in Seq(Records) /\ rs # <<>> /\ Last(rs) = r
    BY <1>2, <1>3, Appended
<1>8. FrameBottom + args \in 0 .. MaxStackSize /\ FrameBottom - 1 \in Nat
    BY <1>1, CallsAssumption
<1> HIDE DEF rs, s
<1>9. s \in States
    BY <1>2, <1>6, <1>7, <1>8, Zenon DEF States
<1>10. /\ s.top = FrameBottom + args /\ s.bottom = FrameBottom - 1 /\ s.records = rs
       /\ s.metaDepth = st.metaDepth - la.chain /\ s.varargs = st.varargs /\ s.callDepth = st.callDepth
       /\ s.nativeDepth = st.nativeDepth /\ s.active = st.active
    BY <1>2, <1>6 DEF States
<1>11. s.varargs = r.varargStart + d /\ s.metaDepth = st.metaDepth - la.chain + r.chain
  <2>1. st.varargs \in Nat /\ st.metaDepth \in Nat
      BY <1>2, Fields
  <2> QED
      BY <1>2, <1>3, <1>10, <2>1
<1> HIDE DEF d
<1>12. Replaces(st, s)
    BY <1>2, <1>3, <1>10, <1>11 DEF Replaces, rs
<1>13. Core(s, natives)
    BY <1>1, <1>9, <1>12, CoreTail
<1> QED
    BY <1>3, <1>7, <1>9, <1>10, <1>13 DEF s

(* The state in which a tail call's callee starts *)
LEMMA TailEntry ==
    ASSUME NEW s, NEW ns, Core(s, ns), s.records # <<>>, Last(s.records).chain = 0,
           NEW proto \in [params : Nat, vararg : BOOLEAN], NEW args \in Nat, args <= s.top, NEW c \in Nat,
           ChainFits(s, args, c), FrameFits(Resolved(s, c), args + c)
    PROVE  LET t == ReplaceTailCaller(Admitted(Resolved(s, c), proto, args + c, Charges(c)))
           IN  /\ Core(t, ns) /\ t \in States /\ t.bottom = s.top - args /\ t.top = s.top - args + Width
<1> DEFINE q == Resolved(s, c)
           a == Admitted(q, proto, args + c, Charges(c))
           t == ReplaceTailCaller(a)
           la == Last(s.records)
           b == s.top - args
<1>1. /\ s \in States /\ s.records \in Seq(Records) /\ Len(s.records) \in Nat \ {0}
      /\ la \in Records /\ la.varargStart \in Nat /\ Front(s.records) \in Seq(Records)
    BY TopRecord
<1>2. /\ q \in States /\ q.top = s.top + c /\ q.metaDepth = s.metaDepth + Charges(c)
      /\ q.records = s.records /\ q.varargs = s.varargs
      /\ q.callDepth = s.callDepth /\ q.nativeDepth = s.nativeDepth /\ q.active = s.active
      /\ Charges(c) \in 0 .. MaxMetamethodDepth /\ args + c <= MaxArguments
    BY <1>1, ResolvedFields
<1>3. FrameFits(q, args + c)
    OBVIOUS
<1> HIDE DEF q
<1>4. /\ s.top \in Nat /\ s.callDepth \in Nat /\ s.callDepth <= MaxCallDepth /\ s.varargs \in Nat
      /\ s.metaDepth \in Nat /\ MaxArguments \in Nat /\ MaxMetamethodDepth \in Nat
      /\ MaxCallDepth \in Nat /\ MaxStackSize \in Nat /\ Width \in Nat /\ FrameHeadroom \in Nat
    BY <1>1, Fields, CallsAssumption
<1>5. args + c \in 0 .. MaxArguments /\ args + c <= q.top /\ q.top - (args + c) = b /\ b \in Nat
  <2>1. PICK x \in Nat : x = s.top /\ q.top = x + c /\ args <= x
      BY <1>2, <1>4
  <2>2. args + c \in 0 .. MaxArguments
      BY <1>2, <1>4
  <2> QED
      BY <2>1, <2>2
<1>6. b + Width \in 0 .. MaxStackSize
  <2> HIDE DEF b
  <2>1. b + Width + FrameHeadroom <= MaxStackSize
      BY <1>3, <1>5 DEF FrameFits
  <2> QED
      BY <1>4, <1>5, <2>1, SMTT(20)
<1>7. PICK r \in Records, d \in 0 .. MaxArguments : AdmitsTo(q, a, args + c, Charges(c), r, d)
    BY <1>2, <1>5, AdmittedFields
<1> HIDE DEF a, b
<1>8. r.chain = Charges(c) /\ r.varargStart = s.varargs
    BY <1>2, <1>7 DEF AdmitsTo
<1>9. a = [q EXCEPT !.callDepth = s.callDepth + 1, !.bottom = b, !.top = b + Width,
                    !.records = Append(s.records, r), !.varargs = s.varargs + d]
    BY <1>2, <1>5, <1>7, Zenon DEF AdmitsTo
<1> DEFINE k == [r EXCEPT !.varargStart = la.varargStart, !.tail = TRUE]
           rs == Append(Front(s.records), k)
<1>10. a.records = Append(s.records, r) /\ a.varargs = s.varargs + d /\ a.callDepth = s.callDepth + 1
    BY <1>2, <1>9 DEF States
<1>11. /\ Len(a.records) = Len(s.records) + 1 /\ a.records[Len(a.records)] = r
       /\ a.records[Len(a.records) - 1] = la /\ SubSeq(a.records, 1, Len(a.records) - 2) = Front(s.records)
  <2>1. Len(a.records) = Len(s.records) + 1 /\ a.records[Len(s.records) + 1] = r
        /\ \A i \in 1 .. Len(s.records) : a.records[i] = s.records[i]
      BY <1>1, <1>10
  <2>2. Len(a.records) - 1 = Len(s.records) /\ Len(a.records) - 2 = Len(s.records) - 1
      BY <1>1, <2>1
  <2>3. a.records[Len(s.records)] = la
    <3>1. Len(s.records) \in 1 .. Len(s.records)
        BY <1>1
    <3>2. a.records[Len(s.records)] = s.records[Len(s.records)]
        BY <2>1, <3>1, Zenon
    <3> QED
        BY <3>2 DEF Last
  <2>4. SubSeq(Append(s.records, r), 1, Len(s.records) - 1) = SubSeq(s.records, 1, Len(s.records) - 1)
      BY <1>1
  <2> QED
      BY <1>10, <2>1, <2>2, <2>3, <2>4 DEF Front
<1>12. k \in Records /\ k.chain = Charges(c) /\ k.varargStart = la.varargStart
    BY <1>1, <1>8, Zenon DEF Records
<1>13. t = [a EXCEPT !.records = rs, !.varargs = s.varargs + d - (s.varargs - la.varargStart),
                     !.callDepth = s.callDepth + 1 - 1]
  <2> DEFINE n == Len(a.records)
             e == [a.records[n] EXCEPT !.varargStart = a.records[n - 1].varargStart, !.tail = TRUE]
  <2>1. t = [a EXCEPT !.records = Append(SubSeq(a.records, 1, n - 2), e),
                      !.varargs = a.varargs - (a.records[n].varargStart - a.records[n - 1].varargStart),
                      !.callDepth = a.callDepth - 1]
      BY DEF ReplaceTailCaller
  <2>2. e = k /\ a.records[n].varargStart = s.varargs /\ a.records[n - 1].varargStart = la.varargStart
      BY <1>8, <1>11
  <2>3. Append(SubSeq(a.records, 1, n - 2), e) = rs
      BY <1>11, <2>2, Zenon
  <2> HIDE DEF n, e, t, k, la, rs
  <2>4. PICK x, y, z : /\ x = rs /\ y = s.varargs + d - (s.varargs - la.varargStart)
                       /\ z = s.callDepth + 1 - 1
      OBVIOUS
  <2>5. /\ Append(SubSeq(a.records, 1, n - 2), e) = x /\ a.callDepth - 1 = z
        /\ a.varargs - (a.records[n].varargStart - a.records[n - 1].varargStart) = y
    <3>1. PICK v, w : v = a.records[n].varargStart /\ w = a.records[n - 1].varargStart
        BY Zenon
    <3>2. v = s.varargs /\ w = la.varargStart
        BY <2>2, <3>1
    <3>3. a.varargs - (v - w) = y
        BY <1>1, <1>4, <1>10, <2>4, <3>2
    <3>4. Append(SubSeq(a.records, 1, n - 2), e) = x
        BY <2>3, <2>4, Zenon
    <3>5. a.callDepth - 1 = z
        BY <1>4, <1>10, <2>4
    <3> QED
        BY <3>1, <3>3, <3>4, <3>5, Zenon
  <2>6. t = [a EXCEPT !.records = x, !.varargs = y, !.callDepth = z]
      BY <2>1, <2>5, Zenon
  <2> QED
      BY <2>4, <2>6
<1> HIDE DEF k, t
<1>14. s.varargs + d - (s.varargs - la.varargStart) = k.varargStart + d /\ s.callDepth + 1 - 1 = s.callDepth
  <2>1. PICK v \in Nat : v = la.varargStart /\ k.varargStart = v
      BY <1>1, <1>12
  <2> HIDE DEF la
  <2>2. s.varargs + d - (s.varargs - v) = v + d /\ s.callDepth + 1 - 1 = s.callDepth
      BY <1>4
  <2> QED
      BY <2>1, <2>2
<1>15. rs \in Seq(Records)
    BY <1>1, <1>12, Appended
<1> HIDE DEF rs, la
<1>16. t = [q EXCEPT !.callDepth = s.callDepth, !.bottom = b, !.top = b + Width,
                     !.records = rs, !.varargs = k.varargStart + d]
    BY <1>2, <1>9, <1>13, <1>14, Zenon DEF States
<1>17. t \in States
  <2>1. k.varargStart + d \in Nat /\ s.callDepth \in 0 .. MaxCallDepth
      BY <1>1, <1>4, <1>12
  <2> QED
      BY <1>2, <1>5, <1>6, <1>15, <1>16, <2>1, Zenon DEF States
<1>18. /\ t.bottom = b /\ t.top = b + Width /\ t.records = rs /\ t.varargs = k.varargStart + d
       /\ t.callDepth = s.callDepth /\ t.metaDepth = s.metaDepth + Charges(c)
       /\ t.nativeDepth = s.nativeDepth /\ t.active = s.active
    BY <1>2, <1>16 DEF States
<1>19. t.metaDepth = s.metaDepth - Last(s.records).chain + k.chain
    BY <1>2, <1>4, <1>12, <1>18
<1>20. Replaces(s, t)
    BY <1>12, <1>18, <1>19 DEF Replaces, rs, la
<1>21. Core(t, ns)
    BY <1>17, <1>20, CoreTail
<1> QED
    BY <1>17, <1>18, <1>21, Zenon DEF t, b, a, q

LEMMA LuaTailCallKeeps ==
    ASSUME Core(st, natives), Slots(st, natives),
           NEW args \in Args, NEW callee \in Callees, LuaTailCall(args, callee)
    PROVE  Done
<1> DEFINE s == Slid(args)
           c == callee.chain
           entry == ReplaceTailCaller(Admitted(Resolved(s, c), callee.proto, args + c, Charges(c)))
           ms == [natives EXCEPT ![Len(natives)].frames = Append(Front(@), entry.bottom)]
           idx == FrameBottom - 1
<1>1. InLua /\ args < Width
      /\ IF ~CanBegin(s, args, callee, TRUE) THEN Refused(s, natives)
         ELSE IF callee.target = "lua" THEN st' = entry /\ natives' = ms /\ raised' = FALSE
         ELSE Entered(s, idx, callee, "tail", natives)
    BY Zenon DEF LuaTailCall
<1>2. /\ natives # <<>> /\ Last(natives).kind = "run" /\ natives \in Seq(Natives)
      /\ Last(natives) \in Natives /\ LevelOK(Last(natives))
      /\ FrameBottom = Last(Last(natives).frames) /\ FrameBottom \in Nat /\ FrameBottom >= 1
    BY <1>1, LuaFacts
<1>3. /\ Core(s, natives) /\ s \in States /\ s.top = FrameBottom + args /\ s.bottom = FrameBottom - 1
      /\ s.records # <<>> /\ Last(s.records).chain = 0
    BY <1>1, SlidCore
<1> HIDE DEF s
<1>4. args \in Nat /\ args <= s.top /\ s.top - args = FrameBottom /\ s.top >= 1 /\ idx \in Nat
    BY <1>2, <1>3, CallsAssumption
<1>5. CASE ~CanBegin(s, args, callee, TRUE)
    BY <1>1, <1>2, <1>3, <1>5, RefusedDone
<1>6. CASE CanBegin(s, args, callee, TRUE) /\ callee.target = "lua"
  <2>1. /\ c \in Nat /\ callee.proto \in [params : Nat, vararg : BOOLEAN]
        /\ ChainFits(s, args, c) /\ FrameFits(Resolved(s, c), args + c)
      BY <1>6, CalleeFields DEF CanBegin
  <2>2. Core(entry, natives) /\ entry.bottom = FrameBottom /\ entry.top = FrameBottom + Width
    <3>1. /\ Core(s, natives) /\ s.records # <<>> /\ Last(s.records).chain = 0
          /\ callee.proto \in [params : Nat, vararg : BOOLEAN] /\ args \in Nat /\ args <= s.top
          /\ c \in Nat /\ ChainFits(s, args, c) /\ FrameFits(Resolved(s, c), args + c)
        BY <1>3, <1>4, <2>1, Zenon
    <3> HIDE DEF c
    <3>2. Core(entry, natives) /\ entry.bottom = s.top - args /\ entry.top = s.top - args + Width
        BY <3>1, TailEntry, ZenonT(40)
    <3> HIDE DEF entry
    <3> QED
        BY <1>4, <3>2
  <2>3. st' = entry /\ natives' = ms /\ raised' = FALSE
      BY <1>1, <1>6
  <2> HIDE DEF entry
  <2>4. ms = natives
    <3> DEFINE fs == Last(natives).frames
    <3>1. fs \in Seq(Nat) /\ fs # <<>>
        BY <1>2, LastFrame
    <3>2. Append(Front(fs), Last(fs)) = fs
        BY <3>1, Split
    <3>3. Append(Front(natives[Len(natives)].frames), entry.bottom) = natives[Len(natives)].frames
        BY <1>2, <2>2, <3>2 DEF Last
    <3>4. Len(natives) \in Nat \ {0} /\ natives[Len(natives)] \in RunLevels
        BY <1>2, Kinds, EmptySeq DEF Last
    <3> HIDE DEF fs
    <3>5. [natives[Len(natives)] EXCEPT !.frames = natives[Len(natives)].frames] = natives[Len(natives)]
        BY <3>4 DEF RunLevels
    <3>6. ms = [natives EXCEPT ![Len(natives)] = natives[Len(natives)]]
        BY <3>3, <3>5, Zenon
    <3>7. [natives EXCEPT ![Len(natives)] = natives[Len(natives)]] = natives
        BY <1>2, <3>4
    <3> QED
        BY <3>6, <3>7
  <2>5. Slots(entry, natives)
      BY <1>2, <2>2 DEF Slots
  <2> QED
      BY <1>2, <2>2, <2>3, <2>4, <2>5, StillRunning, Zenon
<1>7. CASE CanBegin(s, args, callee, TRUE) /\ callee.target # "lua"
  <2>1. callee.target \in {"host", "library"} /\ ChainFits(s, args, callee.chain)
      BY <1>7, CalleeFields DEF CanBegin
  <2>2. Entered(s, idx, callee, "tail", natives)
      BY <1>1, <1>7
  <2> HIDE DEF idx
  <2>3. idx = Last(Last(natives).frames) - 1
      BY <1>2 DEF idx
  <2>4. Kept(Len(natives))
      BY <1>2, <1>3, <1>4, <2>1, <2>2, <2>3, EnteredKeeps
  <2> QED
      BY <1>2, <2>4, NotShorter
<1> QED
    BY <1>5, <1>6, <1>7, Zenon
=============================================================================
