---------------------------- MODULE PowerKernel -----------------------------
(***************************************************************************)
(* pow of src/src/crmath/pow.rs, the `^` operator of every script: the     *)
(* special values, the sign, the ranges where no approximation is needed,  *)
(* three approximations of growing precision, each with the test that      *)
(* tells whether it decides the rounding, and the detection of the exact   *)
(* and midpoint results no approximation can decide.  An approximation is  *)
(* any value within the error the code's comments give; the floats and     *)
(* their limbs are the small ones of FloatWords, and the bounds that       *)
(* follow from the 53 bits of a binary64 follow here from theirs.          *)
(***************************************************************************)
EXTENDS FloatWords

CONSTANTS
    PowerArguments,  \* the pairs of floats pow is called with
    TinyField,       \* 0x36: exponents of y below it give 1
    HugeField,       \* 0x7f5: exponents of y from it on overflow or underflow
    FirstErrors,     \* the error bounds ERR of the first phase, with the errors made within them
    SecondErrors,    \* the errors of the second phase
    Tails,           \* the limbs the third phase adds to the approximation
    RangeSlack,      \* how far rho0, rho2 and rho3 are from the ends of the range
    NormalSlack,     \* how far rho1 is above the subnormals
    Margin,          \* ERR_BND_2 = 28; the margin of subnormals is half of it
    ThirdMargin,     \* ERR_BND_3 = 60
    ProximityBits,   \* 116
    MaxPower,        \* 34: the powers with a 54-bit result for an odd base other than 1
    MaxRoot,         \* 5: the square roots a 53-bit number can have
    MaxExactPower,   \* 33
    XMax,            \* XMAX: by power, the largest base whose power has 53 bits
    KeptBitsOfY      \* the 10 fraction bits of y is_exact looks at

VARIABLES
    powerCall,       \* the arguments
    powerPhase,      \* what comes next
    powerResult

powerVars == <<powerCall, powerPhase, powerResult>>

X == powerCall[1]
Y == powerCall[2]
IsInt(x) == x = RoundevenFinite(x) \/ Magnitude(x) = 0
IsOddInt(y) == IsInt(y) /\ ~IsInt(FloatMul(y, PowerOfTwo(-1)))
Above(x, y) == LET key(z) == IF IsNegative(z) THEN -Magnitude(z) ELSE Magnitude(z) IN key(x) > key(y)
MinusOne == Negate(OneFloat)
Unsettled == -1
-----------------------------------------------------------------------------
(* NaNs and infinities, by the arms of the code *)
InfinitePower(x, y) ==
    CASE IsNan(x) -> IF Magnitude(y) = 0 THEN OneFloat ELSE NanBits
      [] IsNan(y) /\ ~IsNan(x) -> IF x = OneFloat THEN OneFloat ELSE NanBits
      [] x = InfinityBits /\ ~IsNan(y) ->
            IF Magnitude(y) = 0 THEN OneFloat ELSE IF IsNegative(y) THEN 0 ELSE InfinityBits
      [] x = Negate(InfinityBits) /\ ~IsNan(y) ->
            (CASE ~IsFinite(y) -> IF IsNegative(y) THEN 0 ELSE y
               [] IsFinite(y) /\ IsOddInt(y) -> IF IsNegative(y) THEN SignBit ELSE Negate(InfinityBits)
               [] OTHER -> IF Above(0, y) THEN 0 ELSE IF Above(y, 0) THEN InfinityBits ELSE Unsettled)
      [] IsFinite(x) /\ y = InfinityBits ->
            IF Magnitude(x) = OneFloat THEN OneFloat ELSE IF Magnitude(x) < OneFloat THEN 0 ELSE InfinityBits
      [] IsFinite(x) /\ y = Negate(InfinityBits) ->
            IF Magnitude(x) = OneFloat THEN OneFloat ELSE IF Magnitude(x) < OneFloat THEN InfinityBits ELSE 0
      [] OTHER -> Unsettled

(* A base that is not positive: zeros, and NaN for a fractional power *)
NonPositivePower(x, y) ==
    CASE Magnitude(y) = 0 -> OneFloat
      [] Magnitude(y) # 0 /\ Magnitude(x) = 0 ->
            WithSign(IF IsNegative(y) THEN InfinityBits ELSE 0, IsNegative(x) /\ IsOddInt(y))
      [] OTHER -> IF IsInt(y) THEN Unsettled ELSE NanBits

(* The truncated magnitude of a float *)
IntegerValue(y) == IF SplitExponentOf(y) >= 0 THEN SplitSignificand(y) * 2 ^ SplitExponentOf(y)
                   ELSE IF SplitExponentOf(y) < -FractionBits THEN 0
                   ELSE SplitSignificand(y) \div 2 ^ (-SplitExponentOf(y))
(* The sign of the result is -1 for odd y *)
Parity(y) == IF Magnitude(y) >= PowerOfTwo(Precision2) THEN 0 ELSE IntegerValue(y) % 2
NegativeResult(x, y) == IsNegative(x) /\ Parity(y) = 1

(* Powers no approximation is needed for *)
OutOfRange(x, y, neg) ==
    CASE ExponentField(y) < TinyField \/ x = OneFloat -> WithSign(OneFloat, neg)
      [] ExponentField(y) >= HugeField /\ x # OneFloat ->
            WithSign(IF (Above(x, OneFloat)) = Above(y, 0) THEN InfinityBits ELSE 0, neg)
      [] OTHER -> Unsettled
-----------------------------------------------------------------------------
(* x^y for positive x, exactly: n * 2^e and, when it is not exact, a       *)
(* remainder below 2^e.  y has at most one bit after the point unless x is *)
(* a power of two.                                                         *)
SquareRoot(n) ==
    LET r[k \in 0 .. 16] ==
            IF k = 16 THEN 0
            ELSE LET s == r[k + 1] + 2 ^ k IN IF s <= 46340 /\ s * s <= n THEN s ELSE s - 2 ^ k
    IN  r[0]
Root(n, e) == LET k == (30 - BitLength(n)) \div 2
                  s == SquareRoot(n * 4 ^ k)
              IN  [n |-> s, e |-> e \div 2 - k, rest |-> s * s # n * 4 ^ k]
Reciprocal(n, e) == [n |-> 2 ^ 30 \div n, e |-> -30 - e, rest |-> 2 ^ 30 % n # 0]
ExactPower(x, y) ==
    LET m == Extract(x)[2]
        e == Extract(x)[1]
        n == Extract(Magnitude(y))[2]
        f == Extract(Magnitude(y))[1]
        t == n * 2 ^ f
        times == IF IsNegative(y) THEN -1 ELSE 1
    IN  CASE m = 1 /\ (f >= 0 \/ e % 2 ^ (-f) = 0) ->
                [n |-> 1, e |-> times * (IF f >= 0 THEN e * t ELSE (e \div 2 ^ (-f)) * n), rest |-> FALSE]
          [] m > 1 /\ f >= 0 -> IF IsNegative(y) THEN Reciprocal(m ^ t, e * t) ELSE [n |-> m ^ t, e |-> e * t, rest |-> FALSE]
          [] OTHER -> Root((m ^ n) * 2 ^ ((e * n) % 2), e * n - ((e * n) % 2))
TopBit(v) == BitLength(v.n) - 1 + v.e
RightPower(v, neg) == RoundFloat(neg, 2 * v.n + (IF v.rest THEN 1 ELSE 0), v.e - 1)

(* The leading 2 WordBits bits of x^y with an error, normalised *)
LeadingBits(v) == IF BitLength(v.n) > 2 * WordBits THEN v.n \div 2 ^ (BitLength(v.n) - 2 * WordBits)
                  ELSE v.n * 2 ^ (2 * WordBits - BitLength(v.n))
Approximation(v, error) ==
    LET n == LeadingBits(v) + error
        k == 2 * WordBits - BitLength(n)
    IN  [limbs |-> <<(IF k >= 0 THEN n * 2 ^ k ELSE n \div 2) \div WordSpan, (IF k >= 0 THEN n * 2 ^ k ELSE n \div 2) % WordSpan>>,
         ex |-> TopBit(v) - k, sgn |-> 0]
-----------------------------------------------------------------------------
(* Phase 1: log_1 and exp_1 in double-doubles.  Results that surely        *)
(* overflow or underflow are answered, the ones near those ranges deferred *)
Least2W == 2 ^ (2 * WordBits - 1)
FirstPhase(v, bound, error, neg) ==
    LET n == LeadingBits(v)
        top == TopBit(v)
        e == top - 2 * WordBits + 1
        above(edge, slack) == top > edge \/ (top = edge /\ n > Least2W + slack)
        below(edge) == top < edge - 1 \/ (top = edge - 1 /\ n < 2 * Least2W - RangeSlack)
        min == RoundFloat(neg, n + error - bound, e)
        max == RoundFloat(neg, n + error + bound, e)
    IN  CASE above(ExponentBias + 1, RangeSlack) -> WithSign(InfinityBits, neg)
          [] below(LeastExponent - 1) -> WithSign(0, neg)
          [] ~below(LeastExponent - 1) /\ (~below(ExponentBias + 1) \/ top < MinNormal + NormalSlack) -> Unsettled
          [] OTHER -> IF min = max THEN max ELSE Unsettled

EasyPower(x, y, neg, v) ==
    CASE y = OneFloat -> WithSign(x, neg)
      [] y = PowerOfTwo(1) -> FloatMul(x, x)
      [] y = PowerOfTwo(-1) -> RightPower(v, FALSE)
      [] OTHER -> Unsettled
-----------------------------------------------------------------------------
(* is_exact: whether x^y is exactly a float, as the code decides it.  The  *)
(* bit length below is that of m, not of its power.                        *)
IsExact(x, y) ==
    LET m == Extract(x)[2]
        e == Extract(x)[1]
        n == Extract(Magnitude(y))[2]
        f == Extract(Magnitude(y))[1]
        t == IntegerValue(Magnitude(y))
        inRange(g) == LeastExponent <= g /\ g <= ExponentBias
    IN  CASE x = OneFloat -> TRUE
          [] x # OneFloat /\ FractionOf(y) % 2 ^ (FractionBits - KeptBitsOfY) # 0 -> FALSE
          [] x # OneFloat /\ FractionOf(y) % 2 ^ (FractionBits - KeptBitsOfY) = 0 /\ ~IsNegative(y) /\ IsInt(y) ->
                (CASE y = OneFloat -> TRUE
                   [] y # OneFloat /\ m = 1 -> inRange(e * t)
                   [] y # OneFloat /\ m > 1 /\ (t > MaxExactPower \/ m > XMax[t]) -> FALSE
                   [] OTHER -> e * t + BitLength(m) > LeastExponent /\ e * t + BitLength(m) <= ExponentBias + 1 /\ e * t >= LeastExponent)
          [] x # OneFloat /\ IsNegative(y) ->
                /\ m = 1
                /\ f >= 0 \/ e % 2 ^ (-f) = 0
                /\ inRange(IF f >= 0 THEN -n * e * 2 ^ f ELSE (-e \div 2 ^ (-f)) * n)
          [] OTHER ->
                \E r \in 1 .. m :
                    /\ r ^ (2 ^ (-f)) = m
                    /\ e % 2 ^ (-f) = 0
                    /\ r > 1 => n <= MaxExactPower /\ r <= XMax[n]
                    /\ LeastExponent <= (e \div 2 ^ (-f)) * n
                    /\ (e \div 2 ^ (-f)) * n + BitLength(r ^ n) <= ExponentBias + 1

(* Whether a power of x passes for exact in checked 64-bit arithmetic *)
CheckedPower(m, t) ==
    LET Step[b \in 0 .. BitLength(t)] ==
            IF b = 0 THEN [k |-> 1, m |-> m, ok |-> TRUE]
            ELSE LET p == Step[b - 1]
                     odd == (t \div 2 ^ (b - 1)) % 2 = 1
                     more == t \div 2 ^ b # 0
                 IN  IF ~p.ok THEN p
                     ELSE [k |-> IF odd THEN p.k * p.m ELSE p.k,
                           m |-> IF more THEN p.m * p.m ELSE p.m,
                           ok |-> (odd => p.m < SignBit /\ p.k * p.m < SignBit) /\ (more => p.m * p.m < WordSpan)]
    IN  Step[BitLength(t)]

(* exact_pow: a midpoint or exact result, or Unsettled.  The difference of *)
(* z and its rounding to 54 bits is exact, and so is E * y where it is a   *)
(* whole number in range (11 of the 53 bits).                              *)
Proximate(z, k) ==
    LET n == z.limbs[1] * WordSpan + z.limbs[2]
    IN  Abs(n - k * 2 ^ (2 * WordBits - Precision2 - 1)) * 2 ^ ProximityBits < n
ExactPow(x, y, z, exact) ==
    LET m == Extract(Magnitude(x))[2]
        e == Extract(Magnitude(x))[1]
        n == Extract(Magnitude(y))[2]
        f == Extract(Magnitude(y))[1]
        neg == z.sgn = 1
        times == IF IsNegative(y) THEN -n ELSE n
        whole == f >= 0 \/ e % 2 ^ (-f) = 0
        g == IF f >= 0 THEN e * times * 2 ^ f ELSE (e * times) \div 2 ^ (-f)
        root == (e \div 2 ^ (-f)) * n
        near == Round54(z)
        shift == root - near[1]
        power == CheckedPower(m, n * 2 ^ f)
    IN  CASE m = 1 ->
                (CASE g > ExponentBias -> WithSign(InfinityBits, neg)
                   [] g < LeastExponent - 1 -> WithSign(0, neg)
                   [] OTHER -> IF whole THEN Pow2(WithSign(OneFloat, neg), g) ELSE Unsettled)
          [] m # 1 /\ (IsNegative(y) \/ Above(y, FloatOf(MaxPower)) \/ n > MaxPower \/ f < -MaxRoot) -> Unsettled
          [] m # 1 /\ ~(IsNegative(y) \/ Above(y, FloatOf(MaxPower)) \/ n > MaxPower \/ f < -MaxRoot) /\ f < 0 ->
                IF /\ e % 2 ^ (-f) = 0
                   /\ exact \/ Proximate(z, near[2])
                   /\ shift >= 0 /\ shift < WordBits
                   /\ near[2] % 2 ^ (shift + 1) = 2 ^ shift
                THEN Pow2(RoundFloat(neg, near[2] \div 2 ^ shift, 0), root)
                ELSE Unsettled
          [] OTHER -> IF power.ok /\ power.k < 2 ^ (Precision2 + 1)
                      THEN Pow2(RoundFloat(neg, power.k, 0), e * n * 2 ^ f) ELSE Unsettled
-----------------------------------------------------------------------------
(* Phase 2: log_2 and exp_2 in Dints *)
Window(r) ==
    LET sub == IF r.ex < MinNormal THEN MinNormal - r.ex ELSE 0
    IN  ShiftedLeft(r.limbs[1], Precision2 + 1 - sub) + r.limbs[2] \div 2 ^ (ExponentBits - 1 + sub)
DecidesUnlessExact(r) == Window(r) # 0
Decides(r) ==
    LET margin == IF r.ex < MinNormal THEN Margin \div 2 ELSE Margin
    IN  (Window(r) + margin) % WordSpan > 2 * margin
SecondPhase(x, y, neg, r) ==
    CASE r.ex < LeastExponent - 1 -> WithSign(0, neg)
      [] r.ex > ExponentBias + 1 -> WithSign(InfinityBits, neg)
      [] OTHER -> LET z == [r EXCEPT !.sgn = Bit(neg)]
                  IN  IF Decides(r) THEN DintTod(z) ELSE ExactPow(x, y, z, IsExact(Magnitude(x), y))

(* Phase 3: log_3 and exp_3 in Qints *)
NearRoundingBoundary(r1, r2, r3, error) ==
    \/ r1 = 0 /\ r2 = 0 /\ r3 <= error
    \/ r1 = WordSpan - 1 /\ r2 = WordSpan - 1 /\ r3 # 0 /\ WordSpan - r3 <= error
ThirdPhase(v, q) ==
    LET r(i) == ShiftedLeft(q.limbs[i], Precision2 + 1) + q.limbs[i + 1] \div 2 ^ (ExponentBits - 1)
        atOne == TopBit(v) \in {-1, 0} /\ (LeadingBits(v) - Least2W) \in {0, Least2W - 1}
    IN  IF ~NearRoundingBoundary(r(1), r(2), r(3), ThirdMargin)
        THEN QintTod([q EXCEPT !.limbs[4] = @ - (@ % 2 ^ (ExponentBits - 1))])
        ELSE IF atOne THEN OneFloat ELSE QintTod(q)
-----------------------------------------------------------------------------
(* pow, a phase to a step *)
PowerInit ==
    /\ powerCall \in PowerArguments
    /\ powerPhase = "special"
    /\ powerResult = Unsettled

AnswerWith(r, next) ==
    /\ powerResult' = r
    /\ powerPhase' = IF r = Unsettled THEN next ELSE "done"
    /\ UNCHANGED powerCall
Special ==
    /\ powerPhase = "special"
    /\ \E neg \in {NegativeResult(X, Y)} :
         AnswerWith(CASE InfinitePower(X, Y) # Unsettled -> InfinitePower(X, Y)
                  [] InfinitePower(X, Y) = Unsettled /\ ~Above(X, 0) /\ NonPositivePower(X, Y) # Unsettled ->
                        NonPositivePower(X, Y)
                  [] OTHER -> OutOfRange(Magnitude(X), Y, neg), "first")
First ==
    /\ powerPhase = "first"
    /\ \E v \in {ExactPower(Magnitude(X), Y)}, err \in FirstErrors, neg \in {NegativeResult(X, Y)} :
         \E r \in {FirstPhase(v, err.bound, err.made, neg)} :
            AnswerWith(IF r # Unsettled THEN r ELSE EasyPower(Magnitude(X), Y, neg, v), "second")
Second ==
    /\ powerPhase = "second"
    /\ \E v \in {ExactPower(Magnitude(X), Y)}, error \in SecondErrors :
         \E r \in {Approximation(v, error)} : AnswerWith(SecondPhase(X, Y, NegativeResult(X, Y), r), "third")
Third ==
    /\ powerPhase = "third"
    /\ \E v \in {ExactPower(Magnitude(X), Y)}, tail \in Tails :
         \E a \in {Approximation(v, 0)} :
            AnswerWith(ThirdPhase(v, [a EXCEPT !.limbs = @ \o tail, !.sgn = Bit(NegativeResult(X, Y))]), "done")
PowerNext == Special \/ First \/ Second \/ Third
PowerSpec == PowerInit /\ [][PowerNext]_powerVars
-----------------------------------------------------------------------------
(* IEEE 754's pow: the special cases, and one rounding of the power *)
PowerTable(x, y) ==
    LET one == Magnitude(x) = OneFloat
        grows == (Magnitude(x) > OneFloat) = ~IsNegative(y)
        neg == IsNegative(x) /\ IsOddInt(y)
    IN  CASE Magnitude(y) = 0 \/ x = OneFloat -> OneFloat
          [] OTHER ->
             CASE IsNan(x) \/ IsNan(y) -> NanBits
               [] IsNegative(x) /\ IsFinite(x) /\ Magnitude(x) # 0 /\ IsFinite(y) /\ ~IsInt(y) -> NanBits
               [] ~IsFinite(y) -> IF one THEN OneFloat ELSE IF grows THEN InfinityBits ELSE 0
               [] OTHER ->
                  CASE ~IsFinite(x) \/ Magnitude(x) = 0 \/ ExponentField(y) >= ExponentBias + Precision2 + ExponentBits ->
                          WithSign(IF one THEN OneFloat ELSE IF grows THEN InfinityBits ELSE 0, neg)
                    [] OTHER -> IF ExponentField(y) + Precision2 + ExponentBits < ExponentBias THEN WithSign(OneFloat, neg)
                                ELSE RightPower(ExactPower(Magnitude(x), y), neg)

(* Whatever the phases' errors make of an approximation, pow answers with  *)
(* the power rounded once, its sign that of an odd power of a negative     *)
(* base, and the special values of IEEE 754: the range filters, the        *)
(* rounding tests and the exact cases leave no argument a wrong way out    *)
PowersRoundOnce ==
    powerPhase = "done" => powerResult = PowerTable(X, Y) \/ (IsNan(powerResult) /\ IsNan(PowerTable(X, Y)))
=============================================================================
