----------------------------- MODULE MCNumbers -----------------------------
(***************************************************************************)
(* The arithmetic of the VM: a behaviour either charges a meter, or calls  *)
(* one operation of the wide numbers, of the floats, or pow.               *)
(***************************************************************************)
EXTENDS CostDispatch, PowerKernel

VARIABLE part

\* 4-bit integers: i64::MAX is 7, u64::MAX is 15.  Costs and counts reach both
\* ends, so every saturating operation saturates; limits reach both signs.
MCCosts == {0, 1, 2, 12}
MCUnitCounts == {0, 1, 3, 15}
MCLimits == {-8, -1, 0, 1, 4, 7}

\* Limbs of 2 bits: normalised significands of n limbs, the limbs below the
\* first from `rest`; exponents that align, overlap in part, touch and miss.
Sig(n, rest) == {l \in [1 .. n -> rest \cup {2, 3}] : l[1] >= 2 /\ \A i \in 2 .. n : l[i] \in rest}
W(n, rest, exs, sgns) == [limbs : Sig(n, rest), ex : exs, sgn : sgns]
Top(n, k, exs, sgns) == {w \in W(n, {0, 1, 3}, exs, sgns) : \A i \in k + 1 .. n : w.limbs[i] = 0}
Calls(ops, as, bs) == [op : ops, a : as, b : bs]
Limbs == 0 .. 3
MCWideCalls ==
    Calls({"v1::add_dint", "v2::add_dint"}, W(2, Limbs, {0}, {0}) \cup {ZeroOf(2, 0)},
          W(2, Limbs, {0, 1, 2, 3, 5, 8}, {0, 1}) \cup {ZeroOf(2, 0)})
    \cup Calls({"v2::add_dint_11"}, Top(2, 1, {0, 1}, {0}), Top(2, 1, {0, 1, 2, 3}, {0, 1}))
    \cup Calls({"v1::mul_dint", "v2::mul_dint", "trig::mul_dint"}, W(2, Limbs, {0}, {0, 1}), W(2, Limbs, {0, 3}, {0}))
    \cup Calls({"v2::mul_dint_21", "trig::mul_dint_21"}, W(2, Limbs, {0}, {0}), Top(2, 1, {0, 1}, {0, 1}))
    \cup Calls({"v2::mul_dint_11"}, Top(2, 1, {0}, {0}), Top(2, 1, {0, 1}, {0, 1}))
    \cup Calls({"v1::mul_dint_2", "v2::mul_dint_int64"}, W(2, Limbs, {0}, {0, 1}), -1 .. 1)
    \cup Calls({"add_tint", "mul_tint"}, W(3, {0, 1, 3}, {0}, {0}) \cup {ZeroOf(3, 0)},
               W(3, {0, 3}, {0, 1, 2, 3, 5, 6}, {0, 1}) \cup {ZeroOf(3, 0)})
    \cup Calls({"add_qint"}, W(4, {0, 3}, {0}, {0}) \cup {ZeroOf(4, 0)},
               W(4, {0, 3}, {0, 1, 2, 4, 5, 8, 9}, {0, 1}) \cup {ZeroOf(4, 0)})
    \cup Calls({"add_qint_22"}, Top(4, 2, {0}, {0}), Top(4, 2, {0, 1, 2, 4, 5}, {0, 1}))
    \cup Calls({"mul_qint"}, W(4, {0, 1, 3}, {0}, {0}), W(4, {0, 3}, {1}, {0, 1}))
    \cup Calls({"mul_qint_33"}, Top(4, 3, {0}, {0}), Top(4, 3, {0}, {1}))
    \cup Calls({"mul_qint_22"}, Top(4, 2, {0}, {0}), Top(4, 2, {0}, {0, 1}))
    \cup Calls({"mul_qint_21"}, Top(4, 2, {0}, {0}), Top(4, 1, {0}, {0, 1}))
    \cup Calls({"mul_qint_11"}, Top(4, 1, {0}, {0}), Top(4, 1, {0}, {0, 1}))
    \cup Calls({"mul_qint_41"}, W(4, {0, 1, 3}, {0}, {0}), Top(4, 1, {0}, {1}))
    \cup Calls({"mul_qint_31"}, Top(4, 3, {0}, {0}), Top(4, 1, {0}, {1}))
    \cup Calls({"mul_qint_2"}, W(4, {0, 1, 3}, {0}, {0}), -3 .. 3)
-----------------------------------------------------------------------------
\* Floats of 10 bits: a sign, an exponent of 6 bits and 3 of fraction.
Fl(fields, fracs, signs) == {s * SignBit + f * HiddenBit + m : s \in signs, f \in fields, m \in fracs}
Every == 0 .. HiddenBit - 1
Finite == Fl({0, 1, 2, 20} \cup 25 .. 40 \cup {61, 62}, Every, {0, 1}) \ {0, SignBit}
One(S) == {<<x>> : x \in S}
\* Wide numbers to be rounded: first limbs that round down, to a tie, and up
Words == {8 * 64 + b : b \in {0, 1, 31, 32, 33, 63}} \cup {15 * 64 + b : b \in {16, 32, 63}}
Subnormals == UNION {{SignBit, SignBit + 2 ^ k, SignBit + 2 ^ k - 1, SignBit + 2 ^ k + 1} : k \in {2, 5, 7, 8}}
WideOf(n, h, l, m, e, s) == [limbs |-> [i \in 1 .. n |-> CASE i = 1 -> h [] i = 2 -> l [] OTHER -> IF i = n THEN m ELSE 0],
                           ex |-> e, sgn |-> s]
Wides(n, his, los, exs, sgns) ==
    {<<WideOf(n, h, l, m, e, s)>> : h \in his, l \in los, m \in {0, 1}, e \in exs, s \in sgns}
Rounded(n, exs, subnormal) ==
    Wides(n, Words, {0, 1, 512}, exs, {0, 1}) \cup Wides(n, Subnormals, {0, 1}, subnormal, {0})
MCFloatCalls ==
    [soft_fma |-> Fl({0, 31, 40}, {0, 4, 7}, {0, 1}) \X Fl({31}, {0, 6}, {0}) \X Fl({0, 1, 20} \cup 26 .. 44 \cup {62}, {0, 7}, {0, 1}),
     fma_edge |-> Fl({0, 1, 62, 63}, {0, 1, 7}, {0, 1}) \X Fl({0, 31, 62, 63}, {0, 7}, {0}) \X Fl({0, 1, 62, 63}, {0, 1}, {0}),
     fasttwosum |-> Fl({25}, {0, 1, 6, 7}, {0}) \X Fl(14 .. 25, {0, 1, 7}, {0, 1}),
     a_mul |-> Fl({25}, {0, 1, 6, 7}, {0}) \X Fl(14 .. 25, {0, 1, 7}, {0, 1}),
     hf |-> {<<[negative |-> Len(d) = 3, digits |-> d, exponent |-> e]>> :
                d \in UNION {[1 .. n -> {0, 1, 12, 16}] : n \in 0 .. 3}, e \in {-36, -34, -31, 0, 28, 31}},
     dint_tod |-> Rounded(2, {-30, 0, 31, 32, 33}, -37 .. -31),
     tint_tod |-> Rounded(3, {0, 31, 32, 33, 34}, -37 .. -30),
     qint_tod |-> {w \in Rounded(4, {0, 30, 31, 32, 33}, -37 .. -30) : ~RestZero(w[1])},
     dint_toi |-> Rounded(2, {-2, -1, 0, 1, 5, 9}, {}),
     round_54 |-> Rounded(2, {0}, {}),
     set_dd |-> {c \in (1 .. WordSpan - 1) \X {0, 1, 512, 1023} : c[1] < 70 \/ c[1] % 32 \in {0, 1, 31}},
     ln |-> One({x \in Finite : x < SignBit}),
     round_nonnegative |-> One(Fl(0 .. 33, Every, {0})),
     pow2 |-> {<<FloatOf(n), e>> : n \in {1, 3, 8, 11, 15, 16}, e \in -39 .. 33},
     log10 |-> {<<(n * 332193) \div 100000, n>> : n \in 0 .. 22},
     exp |-> {e \in Fl({31}, Every, {0}) \X (Fl({20, 24, 26}, {0, 7}, {0, 1}) \cup {0}) \X {-30, 0, 31} \X {FALSE} :
                 e[3] # -30 \/ e[1] # OneFloat \/ e[2] < SignBit}
             \cup Fl({31}, 0 .. HiddenBit - 2, {0}) \X {0, PowerOfTwo(-5), Negate(PowerOfTwo(-5))} \X {-32, -31} \X {TRUE}]
    @@ ("v1::dint_tod" :> Rounded(2, {-30, 0, 30, 31}, {}))
    @@ ("trig::dint_tod" :> Rounded(2, {-28, 0, 30, 31, 32}, {}))
    @@ ("tint_tod exact" :> {<<TintFromd(x)>> : x \in Finite})
    @@ ("u128_tod" :> {<<[limbs |-> <<h, l>>, ex |-> 0, sgn |-> 1]>> : h \in {1, 5, 37} \cup Words \cup Subnormals, l \in {0, 1, 512, 1023}})
    @@ [op \in {"roundeven_finite", "extract", "dint_fromd", "qint_fromd", "trig::dint_fromd", "tint_fromd"} |-> One(Finite)]
-----------------------------------------------------------------------------
\* pow: the special values with each other, every float to the powers its
\* exact value can be computed for, and every power of two
Specials == {0, SignBit, OneFloat, MinusOne, InfinityBits, Negate(InfinityBits), NanBits, 1, MaxFloat,
             FloatOf(2), FloatOf(-3), RoundFloat(TRUE, 1, -1)}
Extremes == Fl({0, 10, 19, 41, 42, 62}, {0, 7}, {0, 1})
Positive == {x \in 1 .. InfinityBits - 1 : ExponentField(x) % 3 = 0 \/ ExponentField(x) \in 29 .. 34}
Negative == {x + SignBit : x \in {y \in Positive : ExponentField(y) % 2 = 0}}
PowersOfTwo == {PowerOfTwo(e) : e \in {-33, -32, -17, -8, -6, -3, -2, -1, 1, 2, 4, 8, 12, 30, 31}}
MCPowerArguments ==
    Specials \X (Specials \cup Extremes)
    \cup Positive \X ({RoundFloat(FALSE, n, -1) : n \in {1, 3}} \cup {FloatOf(n) : n \in {-3, -2, -1, 0, 1, 2, 3, 4, 5, 7}})
    \cup Negative \X {FloatOf(n) : n \in {-2, -1, 2, 3}}
    \cup {p \in PowersOfTwo \X Fl(29 .. 36, Every, {0, 1}) :
             LET f == Extract(Magnitude(p[2]))[1] IN f >= 0 \/ Extract(p[1])[1] % 2 ^ (-f) = 0}
MCFirstErrors == [bound : {256, 1024}, made : {-250, 0, 250}]
MCSecondErrors == {-16, 0, 16}
MCTails == {<<0, 0>>, <<0, 512>>, <<512, 0>>, <<1023, 1023>>}
MCXMax == <<1000, 3>>
-----------------------------------------------------------------------------
CostIdle == /\ meter = NewMeter("off") /\ depth = 0 /\ pending = [d \in 1 .. MaxNativeDepth |-> 0]
            /\ control = "rust" /\ outcome = [asked |-> 0, admitted |-> 0]
WideIdle == wideCall = 0 /\ wideResult = Unanswered
FloatIdle == floatCall = 0 /\ floatResult = <<>>
PowerIdle == powerCall = <<>> /\ powerPhase = "special" /\ powerResult = Unsettled

MCInit ==
    \/ part = "cost"  /\ Init      /\ WideIdle /\ FloatIdle /\ PowerIdle
    \/ part = "wide"  /\ WideInit  /\ CostIdle /\ FloatIdle /\ PowerIdle
    \/ part = "float" /\ FloatInit /\ CostIdle /\ WideIdle  /\ PowerIdle
    \/ part = "power" /\ PowerInit /\ CostIdle /\ WideIdle  /\ FloatIdle

\* A call that has answered is over
Answered == \/ part = "wide"  /\ wideResult # Unanswered
            \/ part = "float" /\ floatResult # <<>>
            \/ part = "power" /\ powerPhase = "done"
MCNext ==
    \/ part = "cost"  /\ Next      /\ UNCHANGED <<part, wideVars, floatVars, powerVars>>
    \/ part = "wide"  /\ WideNext  /\ UNCHANGED <<part, vars, floatVars, powerVars>>
    \/ part = "float" /\ FloatNext /\ UNCHANGED <<part, vars, wideVars, powerVars>>
    \/ part = "power" /\ PowerNext /\ UNCHANGED <<part, vars, wideVars, floatVars>>
    \/ Answered /\ UNCHANGED <<part, vars, wideVars, floatVars, powerVars>>

MCSpec == MCInit /\ [][MCNext]_<<part, vars, wideVars, floatVars, powerVars>>
=============================================================================
