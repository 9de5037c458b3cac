----------------------------- MODULE FloatWords -----------------------------
(***************************************************************************)
(* Binary floats as words of WordBits bits, FractionBits of them the       *)
(* fraction, and what src/src/crmath does to their bits: the software      *)
(* fused multiply-add (mod.rs), the hexadecimal literals of the tables,    *)
(* and the conversions between floats and the extended-precision numbers   *)
(* of WideFloats, whose limbs are words here.  The references are exact    *)
(* integers rounded once.                                                  *)
(***************************************************************************)
EXTENDS WideFloats, FiniteSets

CONSTANTS
    WordBits,      \* 64
    FractionBits,  \* 52
    FloatCalls     \* by operation, the arguments it is called with

VARIABLES
    floatCall,
    floatResult    \* a sequence holding the answer, or empty

floatVars == <<floatCall, floatResult>>

Precision2 == FractionBits + 1                  \* 53
ExponentBits == WordBits - Precision2           \* 11
ExponentBias == 2 ^ (ExponentBits - 1) - 1      \* 1023, 0x3ff
WordSpan == 2 ^ WordBits
SignBit == 2 ^ (WordBits - 1)
HiddenBit == 2 ^ FractionBits                   \* 1 << 52
InfinityBits == (2 ^ ExponentBits - 1) * HiddenBit
LeastExponent == 2 - Precision2 - ExponentBias  \* -1074
MinNormal == 1 - ExponentBias                   \* -1022
-----------------------------------------------------------------------------
(* Floats *)
Magnitude(x) == x % SignBit
IsNegative(x) == x >= SignBit
Negate(x) == IF IsNegative(x) THEN x - SignBit ELSE x + SignBit
WithSign(mag, neg) == IF neg THEN mag + SignBit ELSE mag
ExponentField(x) == Magnitude(x) \div HiddenBit
FractionOf(x) == x % HiddenBit
IsNan(x) == Magnitude(x) > InfinityBits
IsFinite(x) == Magnitude(x) < InfinityBits
NanBits == InfinityBits + 1
MaxFloat == InfinityBits - 1
(* A power of two in the normal range, or on the subnormal grid *)
PowerOfTwo(e) == IF e >= MinNormal THEN (e + ExponentBias) * HiddenBit ELSE 2 ^ (e - LeastExponent)
(* The significand and exponent of a finite float (soft_fma's split) *)
SplitSignificand(x) == IF ExponentField(x) = 0 THEN FractionOf(x) ELSE FractionOf(x) + HiddenBit
SplitExponentOf(x) == IF ExponentField(x) = 0 THEN LeastExponent ELSE ExponentField(x) - ExponentBias - FractionBits

(* n * 2^e rounded to nearest, ties to even *)
NearestEven(n, shift) ==
    IF shift <= 0 THEN n * 2 ^ (-shift)
    ELSE IF shift > 30 THEN 0
    ELSE LET kept == n \div 2 ^ shift
             rest == n % 2 ^ shift
             half == 2 ^ (shift - 1)
         IN  IF rest > half \/ (rest = half /\ kept % 2 = 1) THEN kept + 1 ELSE kept
RoundFloat(neg, n, e) ==
    LET top == BitLength(n) - 1 + e - FractionBits
        ulp == IF top > LeastExponent THEN top ELSE LeastExponent
        mag == IF ulp - LeastExponent > 2 ^ ExponentBits THEN InfinityBits
               ELSE (ulp - LeastExponent) * HiddenBit + NearestEven(n, ulp - e)
    IN  WithSign(IF n = 0 THEN 0 ELSE IF mag > InfinityBits THEN InfinityBits ELSE mag, neg)

(* IEEE 754 addition and multiplication.  Terms too far apart to meet are  *)
(* summed with the smaller one as a sticky unit.                           *)
TermBits == 2 * Precision2 + 4
Term(x) == [n |-> SplitSignificand(x), e |-> SplitExponentOf(x), neg |-> IsNegative(x)]
Padded(t) == LET k == TermBits - BitLength(t.n) IN [t EXCEPT !.n = @ * 2 ^ k, !.e = @ - k]
SignedSum(n, m, e) == RoundFloat(n + m < 0, Abs(n + m), e)
RoundedSum(s, t) ==
    LET big == IF Padded(s).e >= Padded(t).e THEN Padded(s) ELSE Padded(t)
        small == IF Padded(s).e >= Padded(t).e THEN Padded(t) ELSE Padded(s)
        gap == big.e - small.e
        sign(u) == IF u.neg THEN -1 ELSE 1
    IN  IF s.n = 0 THEN RoundFloat(t.neg, t.n, t.e)
        ELSE IF t.n = 0 THEN RoundFloat(s.neg, s.n, s.e)
        ELSE IF gap <= TermBits THEN SignedSum(sign(big) * big.n * 2 ^ gap, sign(small) * small.n, small.e)
        ELSE SignedSum(sign(big) * big.n * 16, sign(small), big.e - 4)
FloatAdd(x, y) ==
    CASE IsNan(x) \/ IsNan(y) -> NanBits
      [] ~IsFinite(x) -> IF ~IsFinite(y) /\ x # y THEN NanBits ELSE x
      [] ~IsFinite(y) -> y
      [] Magnitude(x) = 0 /\ Magnitude(y) = 0 -> IF x = y THEN x ELSE 0
      [] x = Negate(y) -> 0
      [] OTHER -> RoundedSum(Term(x), Term(y))
FloatMul(x, y) ==
    LET neg == IsNegative(x) # IsNegative(y)
    IN  CASE IsNan(x) \/ IsNan(y) -> NanBits
          [] ~IsFinite(x) \/ ~IsFinite(y) -> IF Magnitude(x) = 0 \/ Magnitude(y) = 0 THEN NanBits ELSE WithSign(InfinityBits, neg)
          [] OTHER -> RoundFloat(neg, SplitSignificand(x) * SplitSignificand(y), SplitExponentOf(x) + SplitExponentOf(y))
FloatSub(x, y) == FloatAdd(x, Negate(y))
FloatOf(n) == RoundFloat(n < 0, Abs(n), 0)
OneFloat == PowerOfTwo(0)
-----------------------------------------------------------------------------
(* soft_fma: an accumulator of two words, the leading one of either term   *)
(* two bits below its top                                                  *)
AccumulatorBits == 2 * WordBits
AtTop(n, e) == LET k == AccumulatorBits - 2 - BitLength(n) IN [n |-> n * 2 ^ k, e |-> e - k]
ShiftRightSticky(n, distance) ==
    IF distance >= AccumulatorBits THEN 1
    ELSE n \div 2 ^ distance + (IF n % 2 ^ distance = 0 \/ (n \div 2 ^ distance) % 2 = 1 THEN 0 ELSE 1)
RoundedToFloat(negative, sum, exponent) ==
    LET top == BitLength(sum) - 1 + exponent
        ulp == IF top - FractionBits > LeastExponent THEN top - FractionBits ELSE LeastExponent
        shift == ulp - exponent
        kept == sum \div 2 ^ shift
        rest == sum % 2 ^ shift
        half == 2 ^ (shift - 1)
        significand == CASE shift <= 0 -> sum * 2 ^ (-shift)
                         [] shift >= AccumulatorBits -> 0
                         [] OTHER -> IF rest > half \/ (rest = half /\ kept % 2 = 1) THEN kept + 1 ELSE kept
        encoded == (ulp - LeastExponent) * HiddenBit + significand
    IN  WithSign(IF significand = 0 THEN 0 ELSE IF encoded >= InfinityBits THEN InfinityBits ELSE encoded, negative)
AlignedSum(p, negP, q, negQ) ==
    LET ahead == p.e >= q.e
        big == IF ahead THEN p.n ELSE q.n
        small == IF ahead THEN ShiftRightSticky(q.n, p.e - q.e) ELSE ShiftRightSticky(p.n, q.e - p.e)
        negBig == IF ahead THEN negP ELSE negQ
        sum == IF negP = negQ THEN big + small ELSE Abs(big - small)
        negative == IF negP = negQ \/ big >= small THEN negBig ELSE ~negBig
    IN  IF sum = 0 THEN 0 ELSE RoundedToFloat(negative, sum, IF ahead THEN p.e ELSE q.e)
SoftFma(a, b, c) ==
    CASE ~IsFinite(a) \/ ~IsFinite(b) \/ Magnitude(a) = 0 \/ Magnitude(b) = 0 -> FloatAdd(FloatMul(a, b), c)
      [] ~IsFinite(c) -> FloatAdd(c, c)
      [] Magnitude(c) = 0 -> FloatMul(a, b)
      [] OTHER -> AlignedSum(AtTop(SplitSignificand(a) * SplitSignificand(b), SplitExponentOf(a) + SplitExponentOf(b)),
                             IsNegative(a) # IsNegative(b),
                             AtTop(SplitSignificand(c), SplitExponentOf(c)), IsNegative(c))

(* IEEE 754 fusedMultiplyAdd: what the hardware instruction returns *)
FusedMultiplyAdd(a, b, c) ==
    LET neg == IsNegative(a) # IsNegative(b)
        product == [n |-> SplitSignificand(a) * SplitSignificand(b), e |-> SplitExponentOf(a) + SplitExponentOf(b), neg |-> neg]
        zero == product.n = 0
        cancels == product.n # 0 /\ SplitSignificand(c) # 0 /\ neg # IsNegative(c) /\ Padded(product).n = Padded(Term(c)).n /\ Padded(product).e = Padded(Term(c)).e
    IN  CASE IsNan(a) \/ IsNan(b) \/ IsNan(c) -> NanBits
          [] ~IsFinite(a) \/ ~IsFinite(b) -> FloatAdd(FloatMul(a, b), c)
          [] ~IsFinite(c) -> c
          [] zero /\ Magnitude(c) = 0 -> IF neg = IsNegative(c) THEN c ELSE 0
          [] cancels -> 0
          [] OTHER -> RoundedSum(product, Term(c))
-----------------------------------------------------------------------------
(* Small helpers of mod.rs and pow.rs *)
RoundevenFinite(x) ==
    LET r == FloatSub(FloatAdd(Magnitude(x), PowerOfTwo(FractionBits)), PowerOfTwo(FractionBits))
    IN  IF Magnitude(x) >= PowerOfTwo(FractionBits) THEN x
        ELSE IF IsNegative(x) THEN Negate(r) ELSE r
Copysign(x, s) == WithSign(Magnitude(x), IsNegative(s))
Fasttwosum(x, y) == LET s == FloatAdd(x, y) IN <<s, FloatSub(y, FloatSub(s, x))>>
AMul(a, b) == LET hi == FloatMul(a, b) IN <<hi, SoftFma(a, b, Negate(hi))>>

(* hf: digits 0 to 15, 16 the radix point; a refused literal does not      *)
(* compile                                                                 *)
Point == 16
Refused == -1
Trailing(n) == CHOOSE k \in 0 .. 30 : n % 2 ^ k = 0 /\ n % 2 ^ (k + 1) # 0
DigitsOf(digits) == SelectSeq(digits, LAMBDA d : d # Point)
MantissaOf(ds) == LET m[i \in 0 .. Len(ds)] == IF i = 0 THEN 0
                                               ELSE IF m[i - 1] < 0 \/ m[i - 1] >= 2 ^ (AccumulatorBits - 8) THEN -1
                                               ELSE 16 * m[i - 1] + ds[i]
                  IN  m[Len(ds)]
Hf(literal) ==
    LET points == {i \in 1 .. Len(literal.digits) : literal.digits[i] = Point}
        mantissa == MantissaOf(DigitsOf(literal.digits))
        after == IF points = {} THEN 0 ELSE Len(literal.digits) - (CHOOSE i \in points : TRUE)
        zeros == Trailing(mantissa)
        odd == mantissa \div 2 ^ zeros
        exponent == literal.exponent - 4 * after + zeros
        width == BitLength(odd)
        top == exponent + width - 1
    IN  CASE points # {} /\ \E i \in points : \E j \in points : i # j -> Refused
          [] DigitsOf(literal.digits) = <<>> \/ mantissa < 0 -> Refused
          [] mantissa = 0 -> WithSign(0, literal.negative)
          [] width > Precision2 \/ top > ExponentBias -> Refused
          [] top >= MinNormal -> WithSign((top + ExponentBias) * HiddenBit + ((odd * 2 ^ (FractionBits - width + 1)) % HiddenBit), literal.negative)
          [] exponent < LeastExponent -> Refused
          [] OTHER -> WithSign(odd * 2 ^ (exponent - LeastExponent), literal.negative)
-----------------------------------------------------------------------------
(* Extended-precision numbers with limbs of a word.  The point lies after  *)
(* the first bit of the significand (dint.rs, qint.rs) or before it        *)
(* (trig_dint.rs, atan2.rs).                                               *)
Wider(limbs, ex, neg) == [limbs |-> limbs, ex |-> ex, sgn |-> IF neg THEN 1 ELSE 0]
RestZero(a) == \A i \in 2 .. Len(a.limbs) : a.limbs[i] = 0
ZerosAbove(n) == WordBits - BitLength(n)
ShiftedLeft(n, k) == (n * 2 ^ k) % WordSpan

(* fast_extract and the dint_fromd and qint_fromd built on it *)
FromFloat(x, limbs, bias) ==
    LET m == SplitSignificand(x)
        t == ZerosAbove(m)
    IN  Wider([i \in 1 .. limbs |-> IF i = 1 THEN ShiftedLeft(m, t) ELSE 0],
              ExponentField(x) - bias - (IF t > ExponentBits THEN t - ExponentBits - 1 ELSE 0),
              IsNegative(x))
TintFromd(x) ==
    LET t == ZerosAbove(Magnitude(x))
    IN  IF ExponentField(x) # 0
        THEN Wider(<<SignBit + (ShiftedLeft(Magnitude(x), ExponentBits) % SignBit), 0, 0>>, ExponentField(x) - ExponentBias + 1, IsNegative(x))
        ELSE Wider(<<ShiftedLeft(Magnitude(x), t), 0, 0>>, ExponentBits + 2 - ExponentBias - t, IsNegative(x))

(* The significand between 1 and 2, with the round bit as half a unit and  *)
(* the sticky bit as a quarter                                             *)
BelowOne(n) == PowerOfTwo(-Precision2 - 1 + n)
Fractional(hi, sgn) == WithSign(ExponentBias * HiddenBit + FractionOf(hi \div 2 ^ ExponentBits), sgn = 1)
RoundBit(hi) == (hi \div 2 ^ (ExponentBits - 1)) % 2
StickyBits(hi) == hi % 2 ^ (ExponentBits - 1)
Nudged(r, sgn, rd) == FloatAdd(r, IF sgn = 1 THEN Negate(rd) ELSE rd)

(* v1::dint_tod: the sticky quarter is always added *)
DintTodV1(a) ==
    LET rd == IF RoundBit(a.limbs[1]) = 1 THEN FloatAdd(BelowOne(0), BelowOne(1)) ELSE BelowOne(0)
    IN  FloatMul(Nudged(Fractional(a.limbs[1], a.sgn), a.sgn, rd),
                 (((a.ex + ExponentBias) % 2 ^ ExponentBits)) * HiddenBit)

(* The tail shared by the other conversions: round at the 53rd bit, then   *)
(* scale by 2^ex                                                           *)
RoundedFraction(a) ==
    LET hi == a.limbs[1]
        round == IF RoundBit(hi) = 1 THEN BelowOne(1) ELSE 0
        sticky == IF StickyBits(hi) # 0 \/ ~RestZero(a) THEN BelowOne(0) ELSE 0
    IN  Nudged(Fractional(hi, a.sgn), a.sgn, FloatAdd(round, sticky))
ScaledBy(r, ex, huge) ==
    CASE ex > ExponentBias + 1 -> FloatMul(huge, MaxFloat)
      [] ex = ExponentBias + 1 -> FloatMul(FloatMul(r, PowerOfTwo(1)), PowerOfTwo(ExponentBias))
      [] ex \in LeastExponent .. ExponentBias -> FloatMul(r, PowerOfTwo(ex))
      [] ex = LeastExponent - 1 -> FloatMul(FloatMul(r, PowerOfTwo(-1)), PowerOfTwo(LeastExponent))
      [] OTHER -> FloatMul(PowerOfTwo(LeastExponent), PowerOfTwo(LeastExponent))

(* pow.rs: dint_tod and dint_tod_subnormal *)
SubnormalShift(ex) == ExponentBits + 1 - ExponentBias - ex
DintTodSubnormal(a) ==
    LET ex == SubnormalShift(a.ex)
        hi == a.limbs[1] \div 2 ^ ex
        rb == (a.limbs[1] \div 2 ^ (ex - 1)) % 2
        sb == ShiftedLeft(a.limbs[1], WordBits + 1 - ex) # 0 \/ a.limbs[2] # 0
        up == IF sb THEN rb ELSE (hi % 2) * rb
    IN  WithSign(IF ex < WordBits THEN hi + up
                 ELSE IF ex > WordBits \/ a.limbs[1] < SignBit \/ (ShiftedLeft(a.limbs[1], 1) = 0 /\ a.limbs[2] = 0) THEN 0
                 ELSE 1, a.sgn = 1)
DintTod(a) ==
    IF a.ex < MinNormal THEN DintTodSubnormal(a)
    ELSE ScaledBy(RoundedFraction(a), a.ex, WithSign(MaxFloat, a.sgn = 1))

(* qint.rs and trig_dint.rs: a subnormal value is first rounded to its     *)
(* grid.  The sticky test looks at the low bits of a mask.                 *)
Subnormalized(a) ==
    LET ex == SubnormalShift(a.ex)
        hi == a.limbs[1] \div 2 ^ ex
        md == (a.limbs[1] \div 2 ^ (ex - 1)) % 2
        lo == a.limbs[1] % 2 ^ (WordBits - ex) # 0 \/ ~RestZero(a)
        up == ShiftedLeft(hi + (IF lo THEN md ELSE (hi % 2) * md), ex)
        rounded == [i \in DOMAIN a.limbs |-> IF i > 1 THEN 0 ELSE IF up = 0 THEN SignBit ELSE up]
    IN  IF a.ex >= MinNormal THEN a ELSE [a EXCEPT !.limbs = rounded, !.ex = IF up = 0 THEN @ + 1 ELSE @]
QintTod(a) ==
    LET above == a.ex = LeastExponent - 1 /\ (a.limbs[1] # SignBit \/ ~RestZero(a))
        s == Subnormalized(a)
    IN  IF a.ex < LeastExponent THEN WithSign(IF above THEN 1 ELSE 0, a.sgn = 1)
        ELSE ScaledBy(RoundedFraction(s), s.ex, WithSign(MaxFloat, a.sgn = 1))
TrigDintTod(a) == LET s == Subnormalized(a) IN ScaledBy(RoundedFraction(s), s.ex - 1, MaxFloat)

(* atan2.rs: tint_tod, with the fraction left below the unit as a quarter, *)
(* a half or three quarters                                                *)
UnitLeft(low, rest) ==
    LET half == 2 ^ (ExponentBits - 1)
    IN  CASE low < half -> PowerOfTwo(-2)
          [] low = half /\ rest = 0 -> PowerOfTwo(-1)
          [] OTHER -> FloatAdd(PowerOfTwo(-1), PowerOfTwo(-2))
TintTod(a, exact) ==
    LET sh == IF a.ex <= MinNormal THEN MinNormal + 1 - a.ex ELSE 0
        hh == a.limbs[1] \div 2 ^ sh
        rest == (a.limbs[1] % 2 ^ sh) + a.limbs[2] + a.limbs[3]
        low == hh % 2 ^ ExponentBits
        s == WithSign(OneFloat, a.sgn = 1)
        h == SoftFma(IF exact THEN 0 ELSE UnitLeft(low, rest), s, FloatMul(s, FloatOf(hh \div 2 ^ ExponentBits)))
        middle == a.limbs[1] = SignBit /\ RestZero(a)
        unit == WithSign(1, a.sgn = 1)
    IN  CASE a.ex >= ExponentBias + 2 -> WithSign(InfinityBits, a.sgn = 1)
          [] a.ex < LeastExponent -> FloatMul(unit, PowerOfTwo(-1))
          [] a.ex = LeastExponent -> FloatMul(unit, IF middle THEN PowerOfTwo(-1) ELSE FloatAdd(PowerOfTwo(-1), PowerOfTwo(-2)))
          [] OTHER -> FloatMul(FloatMul(h, PowerOfTwo(-FractionBits)), OneFloat + (a.ex + sh - 1) * HiddenBit)

(* sin.rs: u128_tod of a two-limb fixed-point fraction *)
U128Tod(a) ==
    LET sh == ZerosAbove(a.limbs[1])
        r == a.limbs[1] * WordSpan + a.limbs[2]
        h == r \div 2 ^ (WordBits + ExponentBits - sh)
        rbit == (r \div 2 ^ (WordBits + ExponentBits - 1 - sh)) % 2
        v == WithSign(PowerOfTwo(-Precision2) - sh * HiddenBit, a.sgn = 1)
        low == FloatAdd(PowerOfTwo(-2 + rbit), PowerOfTwo(-3 + rbit))
    IN  FloatAdd(FloatMul(FloatOf(h), v), FloatMul(low, v))

(* trig_dint.rs: set_dd splits c1/2^64 + c0/2^128 into two floats *)
SetDd(c1, c0) ==
    LET word(f, n) == f * HiddenBit + ShiftedLeft(n, 1) \div 2 ^ (ExponentBits + 1)
        e == ZerosAbove(c1)
        n1 == ShiftedLeft(c1, e) + c0 \div 2 ^ (WordBits - e)
        f == ExponentBias - 1 - e
        next == ShiftedLeft(n1, Precision2) + ShiftedLeft(c0, e) \div 2 ^ ExponentBits
        g == ZerosAbove(next)
    IN  <<word(f, n1), IF next = 0 THEN 0 ELSE word(f - Precision2 - g, ShiftedLeft(next, g))>>

(* pow.rs: extract, round_54, dint_toi (and qint_toi), pow2,               *)
(* round_nonnegative                                                       *)
Extract(x) ==
    LET t == Trailing(SplitSignificand(x))
    IN  <<ExponentField(x) + t - (ExponentBias + FractionBits - (IF ExponentField(x) = 0 THEN 1 ELSE 0)),
          SplitSignificand(x) \div 2 ^ t>>
Round54(a) == <<a.ex - Precision2, a.limbs[1] \div 2 ^ (ExponentBits - 1) + ((a.limbs[1] \div 2 ^ (ExponentBits - 2)) % 2)>>
WideToi(a) ==
    LET r == a.limbs[1] \div 2 ^ (WordBits - 1 - a.ex)
    IN  IF a.ex < 0 THEN 0 ELSE IF a.sgn = 1 THEN -r ELSE r
Pow2(x, e) ==
    LET x1 == IF e % 2 = 1 THEN FloatMul(x, PowerOfTwo(1)) ELSE x
        e2 == ((e \div 2 + ExponentBias) % 2 ^ ExponentBits) * HiddenBit
    IN  FloatMul(FloatMul(x1, e2), e2)
TruncatedFloat(x) ==
    LET e == SplitExponentOf(x)
    IN  FloatOf(IF e >= 0 THEN SplitSignificand(x) * 2 ^ e ELSE IF e < -FractionBits THEN 0 ELSE SplitSignificand(x) \div 2 ^ (-e))
RoundNonnegative(x) ==
    IF Magnitude(FloatSub(x, TruncatedFloat(x))) >= PowerOfTwo(-1) THEN FloatAdd(TruncatedFloat(x), OneFloat) ELSE TruncatedFloat(x)

(* exp.rs: the last step scales fh + fl, between 1 and 2, by 2^ie: through *)
(* the exponent field, or by an addition that aligns it with the subnormal *)
(* grid                                                                    *)
AsLdexp(x, i) == x + i * HiddenBit
AsTodenormal(x) == FractionOf(x)
ExpTail(fh, fl, ie, subnormal) ==
    LET sum == Fasttwosum((1 - ie) * HiddenBit, fh)
    IN  IF subnormal THEN AsTodenormal(FloatAdd(sum[1], FloatAdd(fl, sum[2])))
        ELSE AsLdexp(FloatAdd(fh, fl), ie)

(* log.rs and log10.rs: the exponent and the significand of a positive     *)
(* argument, subnormal ones scaled first                                   *)
LogParts(x) ==
    LET v == IF ExponentField(x) = 0 THEN FloatMul(x, PowerOfTwo(FractionBits)) ELSE x
    IN  <<(v \div HiddenBit) - ExponentBias - (IF ExponentField(x) = 0 THEN FractionBits ELSE 0),
          ExponentBias * HiddenBit + FractionOf(v)>>
(* log10.rs: the n whose power of ten could be an argument with exponent   *)
(* e, in wrapping 32-bit arithmetic: 40357794 (e + 1) / 2^27               *)
PowerIndex(e) == ((((40357794 \div 2 ^ 14) * (e + 1)) + (((40357794 % 2 ^ 14) * (e + 1)) \div 2 ^ 14)) \div 2 ^ 13) % 32
-----------------------------------------------------------------------------
(* One call *)
FloatAnswer(op, a) ==
    CASE op \in {"soft_fma", "fma_edge"} -> SoftFma(a[1], a[2], a[3])
      [] op = "roundeven_finite" -> RoundevenFinite(a[1])
      [] op = "fasttwosum"       -> Fasttwosum(a[1], a[2])
      [] op = "a_mul"            -> AMul(a[1], a[2])
      [] op = "hf"               -> Hf(a[1])
      [] op = "dint_fromd"       -> FromFloat(a[1], 2, ExponentBias)
      [] op = "qint_fromd"       -> FromFloat(a[1], 4, ExponentBias)
      [] op = "trig::dint_fromd" -> FromFloat(a[1], 2, ExponentBias - 1)
      [] op = "tint_fromd"       -> TintFromd(a[1])
      [] op = "v1::dint_tod"     -> DintTodV1(a[1])
      [] op = "dint_tod"         -> DintTod(a[1])
      [] op = "qint_tod"         -> QintTod(a[1])
      [] op = "trig::dint_tod"   -> TrigDintTod(a[1])
      [] op = "tint_tod"         -> TintTod(a[1], FALSE)
      [] op = "tint_tod exact"   -> TintTod(a[1], TRUE)
      [] op = "u128_tod"         -> U128Tod(a[1])
      [] op = "set_dd"           -> SetDd(a[1], a[2])
      [] op = "extract"          -> Extract(a[1])
      [] op = "round_54"         -> Round54(a[1])
      [] op = "dint_toi"         -> WideToi(a[1])
      [] op = "pow2"             -> Pow2(a[1], a[2])
      [] op = "round_nonnegative" -> RoundNonnegative(a[1])
      [] op = "exp"              -> ExpTail(a[1], a[2], a[3], a[4])
      [] op = "ln"               -> LogParts(a[1])
      [] OTHER                   -> PowerIndex(a[1])

FloatInit == /\ \E op \in DOMAIN FloatCalls : \E a \in FloatCalls[op] : floatCall = [op |-> op, a |-> a]
             /\ floatResult = <<>>
FloatNext == /\ floatResult = <<>>
             /\ floatResult' = <<FloatAnswer(floatCall.op, floatCall.a)>>
             /\ UNCHANGED floatCall
FloatSpec == FloatInit /\ [][FloatNext]_floatVars
-----------------------------------------------------------------------------
(* The same answers from exact arithmetic *)
SameFloat(x, y) == x = y \/ (IsNan(x) /\ IsNan(y))
(* n units of 2^e equal m units of 2^f, the significands being small       *)
SameValue(n, e, m, f) == IF n = 0 \/ m = 0 THEN n = m
                         ELSE n \div 2 ^ Trailing(n) = m \div 2 ^ Trailing(m) /\ e + Trailing(n) = f + Trailing(m)
(* A wide number rounded once, the limbs past the second a sticky unit *)
NearestFloat(a, point) ==
    LET low == IF \E i \in 3 .. Len(a.limbs) : a.limbs[i] # 0 THEN 1 ELSE 0
    IN  RoundFloat(a.sgn = 1, 2 * (a.limbs[1] * WordSpan + a.limbs[2]) + low, a.ex - 2 * WordBits - 1 + point)
HoldsFloat(x, a, point) == SameValue(SplitSignificand(x), SplitExponentOf(x), a.limbs[1], a.ex - WordBits + point)
                           /\ RestZero(a) /\ a.limbs[1] >= SignBit /\ (a.sgn = 1) = IsNegative(x)
(* Halfway between two floats of the normal range *)
IsTie(a) == LET n == a.limbs[1] * WordSpan + a.limbs[2]
                k == BitLength(n) - Precision2
            IN  n % 2 ^ k = 2 ^ (k - 1)
(* In units of 2^unit *)
InUnits(x, unit) == IF Magnitude(x) = 0 THEN 0
                    ELSE (IF IsNegative(x) THEN -1 ELSE 1) * SplitSignificand(x) * 2 ^ (SplitExponentOf(x) - unit)
CommonUnit(S) == Lowest({SplitExponentOf(x) : x \in {y \in S : Magnitude(y) # 0}})
ExactLiteral(l, x) == SameValue(MantissaOf(DigitsOf(l.digits)),
                                l.exponent - 4 * Cardinality({i \in 1 .. Len(l.digits) : \E j \in 1 .. i - 1 : l.digits[j] = Point}),
                                SplitSignificand(x), SplitExponentOf(x)) /\ IsNegative(x) = l.negative
WellFormed(l) == /\ Cardinality({i \in DOMAIN l.digits : l.digits[i] = Point}) <= 1
                 /\ DigitsOf(l.digits) # <<>> /\ MantissaOf(DigitsOf(l.digits)) >= 0
RepresentableLiteral(l) == \E x \in 0 .. WordSpan - 1 : IsFinite(x) /\ ExactLiteral(l, x)

Expected(op, a, r) ==
    CASE op \in {"soft_fma", "fma_edge"} -> SameFloat(r, FusedMultiplyAdd(a[1], a[2], a[3]))
      [] op = "roundeven_finite" ->
            r = IF SplitExponentOf(a[1]) >= 0 THEN a[1]
                ELSE RoundFloat(IsNegative(a[1]), NearestEven(SplitSignificand(a[1]), -SplitExponentOf(a[1])), 0)
      [] op = "fasttwosum" -> LET unit == CommonUnit({a[1], a[2], r[1], r[2]})
                              IN  r[1] = FloatAdd(a[1], a[2]) /\ InUnits(a[1], unit) + InUnits(a[2], unit) = InUnits(r[1], unit) + InUnits(r[2], unit)
      [] op = "a_mul" -> LET unit == Lowest({SplitExponentOf(a[1]) + SplitExponentOf(a[2]), SplitExponentOf(r[1]), SplitExponentOf(r[2])})
                         IN  InUnits(a[1], SplitExponentOf(a[1])) * InUnits(a[2], unit - SplitExponentOf(a[1])) = InUnits(r[1], unit) + InUnits(r[2], unit)
      [] op = "hf" -> IF r = Refused THEN ~WellFormed(a[1]) \/ ~RepresentableLiteral(a[1]) ELSE ExactLiteral(a[1], r)
      [] op \in {"dint_fromd", "qint_fromd"} -> HoldsFloat(a[1], r, 1)
      [] op \in {"trig::dint_fromd", "tint_fromd"} -> HoldsFloat(a[1], r, 0)
      [] op = "v1::dint_tod" -> IsTie(a[1]) \/ r = NearestFloat(a[1], 1)
      [] op \in {"dint_tod", "qint_tod"} -> r = NearestFloat(a[1], 1)
      [] op \in {"trig::dint_tod", "tint_tod", "tint_tod exact"} -> r = NearestFloat(a[1], 0)
      [] op = "u128_tod" -> IsTie(a[1]) \/ r = NearestFloat(a[1], 0)
      [] op = "set_dd" -> LET n == a[1] * WordSpan + a[2]
                              unit == -2 * WordBits - Precision2
                              error == n * 2 ^ Precision2 - InUnits(r[1], unit) - InUnits(r[2], unit)
                          IN  error >= 0 /\ error < 2 ^ (BitLength(n) - Precision2)
      [] op = "extract" -> r[2] % 2 = 1 /\ SameValue(r[2], r[1], SplitSignificand(a[1]), SplitExponentOf(a[1]))
      [] op = "round_54" -> r[1] = a[1].ex - Precision2 /\ Abs(2 ^ ExponentBits * r[2] - 2 * a[1].limbs[1]) <= 2 ^ (ExponentBits - 1)
      [] op = "dint_toi" -> LET n == a[1].limbs[1] * WordSpan + a[1].limbs[2]
                                k == 2 * WordBits - 1 - a[1].ex
                            IN  Abs(r) = n \div 2 ^ k /\ (r # 0 => (r < 0) = (a[1].sgn = 1))
      [] op = "pow2" -> r = RoundFloat(IsNegative(a[1]), SplitSignificand(a[1]), SplitExponentOf(a[1]) + a[2])
      [] op = "round_nonnegative" -> LET e == SplitExponentOf(a[1]) IN
            r = IF e >= 0 THEN a[1] ELSE IF e < -Precision2 THEN 0 ELSE FloatOf((SplitSignificand(a[1]) + 2 ^ (-e - 1)) \div 2 ^ (-e))
      [] op = "exp" -> LET unit == CommonUnit({a[1], a[2]})
                           n == InUnits(a[1], unit) + InUnits(a[2], unit)
                       IN  r = RoundFloat(FALSE, n, unit + a[3])
      [] op = "ln" -> SameValue(SplitSignificand(r[2]), SplitExponentOf(r[2]) + r[1], SplitSignificand(a[1]), SplitExponentOf(a[1]))
                      /\ ExponentField(r[2]) = ExponentBias
      [] OTHER -> r = a[2]

=============================================================================
