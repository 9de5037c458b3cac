----------------------------- MODULE WideFloats -----------------------------
(***************************************************************************)
(* The extended-precision numbers of the elementary functions: the two     *)
(* limbs of a Dint (src/src/crmath/dint.rs, trig_dint.rs), the three of a  *)
(* Tint (atan2.rs) and the four of a Qint (qint.rs).  A number is its      *)
(* limbs, the highest first, an exponent and a sign; limbs have LimbBits   *)
(* bits and arithmetic on one limb, or on two as one word, wraps.  Every   *)
(* operation is checked against exact integers, with the error its comment *)
(* in the code promises.                                                   *)
(***************************************************************************)
EXTENDS Integers, Sequences, TLC

CONSTANTS
    LimbBits,      \* 64
    WideCalls      \* the calls: an operation and its operands

VARIABLES
    wideCall,      \* [op, a, b]
    wideResult     \* the answer, or Unanswered

wideVars == <<wideCall, wideResult>>
Unanswered == [limbs |-> <<>>, ex |-> 0, sgn |-> 0]
-----------------------------------------------------------------------------
(* Limbs, and pairs of limbs *)
Limb == 2 ^ LimbBits
Pair == Limb * Limb
PairBits == 2 * LimbBits
HiLimb(u) == u \div Limb
LoLimb(u) == u % Limb
BitLength(n) == CHOOSE k \in 0 .. 31 : (k = 0 \/ 2 ^ (k - 1) <= n) /\ (k = 31 \/ n < 2 ^ k)
LeadingZeros(n, bits) == bits - BitLength(n)
LimbZeros(n) == LeadingZeros(n, LimbBits)
(* Shifts of a word of the given number of bits; one by its whole width or *)
(* more leaves nothing                                                     *)
Left(u, k, bits) == IF k >= bits THEN 0 ELSE (u * 2 ^ k) % 2 ^ bits
Right(u, k) == IF k > 30 THEN 0 ELSE u \div 2 ^ k
Bit(cond) == IF cond THEN 1 ELSE 0
Xor(a, b) == (a + b) % 2

(* addu128 and subu128: the wrapped sum and its carry, the wrapped         *)
(* difference and its borrow                                               *)
PairSum(a, b) == (a + b) % Pair
Carry(a, b) == Bit(a + b >= Pair)
PairDifference(a, b) == (a - b) % Pair
Borrow(a, b) == Bit(a < b)

Wide(limbs, ex, sgn) == [limbs |-> limbs, ex |-> ex, sgn |-> sgn]
Split(u) == <<HiLimb(u), LoLimb(u)>>
Dint(r, ex, sgn) == Wide(Split(r), ex, sgn)
Qint(rh, rl, ex, sgn) == Wide(Split(rh) \o Split(rl), ex, sgn)
Tint(hi, l, ex, sgn) == Wide(Append(Split(hi), l), ex, sgn)
HighPair(x) == x.limbs[1] * Limb + x.limbs[2]
LowPair(x) == x.limbs[3] * Limb + x.limbs[4]
IsZero(x) == \A i \in DOMAIN x.limbs : x.limbs[i] = 0
Doubled(x) == [x EXCEPT !.ex = @ + 1]
ZeroOf(n, ex) == Wide([i \in 1 .. n |-> 0], ex, 0)
-----------------------------------------------------------------------------
(* The significand as one integer, and the order of absolute values *)
Significand(x) ==
    LET n == Len(x.limbs)
        Part[i \in 0 .. n] == IF i = 0 THEN 0 ELSE Part[i - 1] * Limb + x.limbs[i]
    IN  Part[n]
Leading(x, n) == [x EXCEPT !.limbs = SubSeq(@, 1, n)]
Greater(a, b) == a.ex > b.ex \/ (a.ex = b.ex /\ Significand(a) > Significand(b))
Equal(a, b) == a.ex = b.ex /\ a.limbs = b.limbs
Greatest(a, b) == IF Greater(b, a) THEN b ELSE a
Least(a, b) == IF Greater(b, a) THEN a ELSE b

(* What every sum begins with: an operand that is zero leaves the other,   *)
(* equal absolute values double or cancel, and otherwise the greater       *)
(* operand comes first                                                     *)
SumOf(a, b, zero, Unequal(_, _)) ==
    CASE IsZero(a)   -> b
      [] IsZero(b)   -> a
      [] Equal(a, b) -> IF a.sgn # b.sgn THEN zero ELSE Doubled(a)
      [] OTHER       -> Unequal(Greatest(a, b), Least(a, b))
-----------------------------------------------------------------------------
(* dint::v1, for log and log10.  The smaller operand is rounded before it  *)
(* is shifted, by the bit that is shifted out last.                        *)
RoundedV1(b, sh) == IF sh <= PairBits THEN PairSum(b, Right(b, sh - 1) % 2) ELSE b
AlignedV1(b, sh) == IF sh = 0 THEN b ELSE IF sh < PairBits THEN Right(RoundedV1(b, sh), sh) ELSE 0
HalvedRounding(c) == Pair \div 2 + PairSum(c, c % 2) \div 2

AddUnequalV1(a, b) ==
    LET aa == HighPair(a)
        bb == AlignedV1(HighPair(b), a.ex - b.ex)
        over == a.sgn = b.sgn /\ Carry(aa, bb) = 1
        sum == PairSum(aa, bb)
        c == IF a.sgn # b.sgn THEN PairDifference(aa, bb) ELSE IF over THEN HalvedRounding(sum) ELSE sum
        ex == LeadingZeros(c, PairBits)
    IN  Dint(Left(c, ex, PairBits), a.ex + Bit(over) - ex, a.sgn)

AddDintV1(a, b) == SumOf(a, b, ZeroOf(2, 0), LAMBDA x, y : AddUnequalV1(x, y))

(* v1::mul_dint: the middle products are added before they are cut, and    *)
(* the bit below the result rounds it                                      *)
MulDintV1(a, b) ==
    LET m1 == a.limbs[1] * b.limbs[2]
        m2 == a.limbs[2] * b.limbs[1]
        m == PairSum(m1, m2)
        t == PairSum(PairSum(a.limbs[1] * b.limbs[1], Carry(m1, m2) * Limb), HiLimb(m))
        ex == Bit(t < Pair \div 2)
    IN  Dint(PairSum(Left(t, ex, PairBits), LoLimb(m) \div (Limb \div 2)), a.ex + b.ex - ex + 1, Xor(a.sgn, b.sgn))

(* v1::mul_dint_2 and v2::mul_dint_int64: the product by a small integer,  *)
(* which differ in how a carry is halved                                   *)
MulSmall(a, n, zero, Halved(_)) ==
    LET c == IF n < 0 THEN -n ELSE n
        sgn == IF n < 0 THEN 1 - a.sgn ELSE a.sgn
        t == a.limbs[1] * c
        m == IF HiLimb(t) # 0 THEN LimbZeros(HiLimb(t)) ELSE LimbBits
        l == Left(a.limbs[2] * c, m - 1, PairBits) \div (Limb \div 2)
        r == Left(t, m, PairBits)
    IN  IF n = 0 THEN zero
        ELSE IF Carry(r, l) = 1 THEN Dint(Halved(PairSum(r, l)), a.ex + LimbBits - m + 1, sgn)
        ELSE Dint(PairSum(r, l), a.ex + LimbBits - m, sgn)
Halved0(c) == Pair \div 2 + c \div 2
MulDint2(a, n) == MulSmall(a, n, ZeroOf(2, 0), LAMBDA c : HalvedRounding(c))
-----------------------------------------------------------------------------
(* dint::v2, for pow, cos and tan *)
TopZeros(c) == LimbZeros(HiLimb(c))

(* The difference of aligned words.  When the top bits cancel, both        *)
(* operands are shifted before they are subtracted again, which keeps the  *)
(* bit that the alignment by one had dropped.                              *)
DifferenceV2(aa, b, k) ==
    LET bb == Right(b, k)
        ex == LeadingZeros(aa - bb, PairBits)
        c == IF k = 1 THEN PairDifference(Left(aa, ex, PairBits), Left(b, ex - 1, PairBits))
             ELSE PairDifference(Left(aa, ex, PairBits), Left(bb, ex, PairBits))
    IN  IF ex = 0 THEN [sig |-> aa - bb, ex |-> 0]
        ELSE [sig |-> Left(c, TopZeros(c), PairBits), ex |-> ex + TopZeros(c)]

AddUnequalV2(a, b) ==
    LET aa == HighPair(a)
        k == a.ex - b.ex
        bb == IF k < PairBits THEN Right(HighPair(b), k) ELSE 0
        d == DifferenceV2(aa, HighPair(b), k)
    IN  CASE a.sgn # b.sgn     -> Dint(d.sig, a.ex - d.ex, a.sgn)
          [] Carry(aa, bb) = 1 -> Dint(Halved0(PairSum(aa, bb)), a.ex + 1, a.sgn)
          [] OTHER             -> Dint(aa + bb, a.ex, a.sgn)

ZeroV2 == ZeroOf(2, -1076)
AddDintV2(a, b) == SumOf(a, b, ZeroV2, LAMBDA x, y : AddUnequalV2(x, y))

(* add_dint_11 adds the high limbs, and the low limb of its second operand *)
(* is left in the result                                                   *)
AddUnequal11(a, b) ==
    LET aa == a.limbs[1]
        bb == Right(b.limbs[1], a.ex - b.ex)
        ex == LimbZeros(aa - bb)
    IN  CASE a.sgn # b.sgn   -> Wide(<<Left(aa - bb, ex, LimbBits)>>, a.ex - ex, a.sgn)
          [] aa + bb >= Limb -> Wide(<<Limb \div 2 + ((aa + bb) % Limb) \div 2>>, a.ex + 1, a.sgn)
          [] OTHER           -> Wide(<<aa + bb>>, a.ex, a.sgn)
AddDint11(a, b) ==
    LET high == SumOf(Leading(a, 1), Leading(b, 1), ZeroOf(1, -1076), AddUnequal11)
        low == CASE a.limbs[1] = 0 -> b.limbs[2]
                 [] b.limbs[1] = 0 -> a.limbs[2]
                 [] Equal(Leading(a, 1), Leading(b, 1)) -> IF a.sgn # b.sgn THEN 0 ELSE a.limbs[2]
                 [] OTHER -> b.limbs[2]
    IN  [high EXCEPT !.limbs = Append(@, low)]

(* The products: each middle product is cut to its high limb.  One limb of *)
(* b is used when its low limb is zero.  The point of the trigonometric    *)
(* numbers is one bit higher (trig_dint::mul_dint, mul_dint_21).           *)
Product(r, a, b, point) ==
    LET ex == r \div (Pair \div 2)
    IN  Dint(Left(r, 1 - ex, PairBits), a.ex + b.ex + ex - point, Xor(a.sgn, b.sgn))
MulDintAt(a, b, point) ==
    Product(PairSum(a.limbs[1] * b.limbs[1], HiLimb(a.limbs[1] * b.limbs[2]) + HiLimb(a.limbs[2] * b.limbs[1])), a, b, point)
MulDint21At(a, b, point) ==
    Product(PairSum(a.limbs[1] * b.limbs[1], HiLimb(a.limbs[2] * b.limbs[1])), a, b, point)
MulDint11(a, b) == Product(a.limbs[1] * b.limbs[1], a, b, 0)
MulDintInt64(a, n) == MulSmall(a, n, ZeroV2, LAMBDA c : Halved0(c))
-----------------------------------------------------------------------------
(* The Tint of atan2: a pair of limbs and a third one *)
ShiftRight3(b, k) ==
    LET hi == HighPair(b)
        l == b.limbs[3]
    IN  CASE k = 0            -> <<hi, l>>
          [] k < LimbBits     -> <<Right(hi, k), LoLimb(Left(hi, LimbBits - k, PairBits)) + Right(l, k)>>
          [] k = LimbBits     -> <<Right(hi, k), LoLimb(hi)>>
          [] k < PairBits     -> <<Right(hi, k), LoLimb(Right(hi, k - LimbBits))>>
          [] k < 3 * LimbBits -> <<0, LoLimb(Right(hi, k - LimbBits))>>
          [] OTHER            -> <<0, 0>>
ShiftLeft3(hi, l, k) ==
    CASE k = 0            -> <<hi, l>>
      [] k < LimbBits     -> <<Left(hi, k, PairBits) + Right(l, LimbBits - k), Left(l, k, LimbBits)>>
      [] k = LimbBits     -> <<Left(hi, k, PairBits) + l, 0>>
      [] k < PairBits     -> <<Left(hi, k, PairBits) + Left(l, k - LimbBits, PairBits), 0>>
      [] k < 3 * LimbBits -> <<Left(l, k - LimbBits, PairBits), 0>>
      [] OTHER            -> <<0, 0>>
Zeros3(hi, l) == IF hi # 0 THEN LeadingZeros(hi, PairBits) ELSE PairBits + LimbZeros(l)
Minus3(a, b) == <<PairDifference(a[1], b[1] + Bit(a[2] < b[2])), (a[2] - b[2]) % Limb>>

(* add_tint.  When more than one bit cancels the exponents differ by at    *)
(* most one, and both operands are shifted before the subtraction, which   *)
(* is then exact.                                                          *)
AddUnequal3(a, b) ==
    LET top == <<HighPair(a), a.limbs[3]>>
        sh == a.ex - b.ex
        t == ShiftRight3(b, sh)
        d == Minus3(top, t)
        ex == Zeros3(d[1], d[2])
        exact == Minus3(ShiftLeft3(top[1], top[2], ex), ShiftLeft3(HighPair(b), b.limbs[3], ex - sh))
        ex1 == Zeros3(exact[1], exact[2])
        low == (top[2] + t[2]) % Limb
        cl == Bit(top[2] + t[2] >= Limb)
        high == PairSum(PairSum(top[1], t[1]), cl)
        ch == Carry(top[1], t[1]) + Carry(PairSum(top[1], t[1]), cl)
        At(s, e) == Tint(s[1], s[2], e, a.sgn)
    IN  CASE a.sgn # b.sgn /\ (ex <= 1 \/ sh = 0) -> At(ShiftLeft3(d[1], d[2], ex), a.ex - ex)
          [] a.sgn # b.sgn -> At(ShiftLeft3(exact[1], exact[2], ex1), a.ex - (ex + ex1))
          [] ch # 0        -> At(<<ch * (Pair \div 2) + high \div 2, LoLimb(Left(high, LimbBits - 1, PairBits)) + low \div 2>>, a.ex + 1)
          [] OTHER         -> At(<<high, low>>, a.ex)
AddTint(a, b) == SumOf(a, b, ZeroOf(3, -1076), LAMBDA x, y : AddUnequal3(x, y))

(* mul_tint: the products that reach the third limb, each carry counted    *)
(* where the limb wraps                                                    *)
MulTint(a, b) ==
    LET P(i, j) == a.limbs[i] * b.limbs[j]
        m1 == LoLimb(P(1, 1)) + HiLimb(P(1, 2))
        m2 == LoLimb(m1) + HiLimb(P(2, 1))
        l2 == LoLimb(P(1, 2)) + LoLimb(P(2, 1))
        rl == HiLimb(P(1, 3)) + HiLimb(P(2, 2)) + HiLimb(P(3, 1))
        l3 == LoLimb(l2) + LoLimb(rl)
        cm == HiLimb(l2) + HiLimb(rl) + HiLimb(l3)
        m3 == LoLimb(m2) + cm
        h == (HiLimb(P(1, 1)) + HiLimb(m1) + HiLimb(m2) + HiLimb(m3)) % Limb
        m == LoLimb(m3)
        l == LoLimb(l3)
        half == Limb \div 2
        sgn == Xor(a.sgn, b.sgn)
    IN  IF h >= half THEN Wide(<<h, m, l>>, a.ex + b.ex, sgn)
        ELSE Wide(<<2 * h + m \div half, ((2 * m) % Limb) + l \div half, (2 * l) % Limb>>, a.ex + b.ex - 1, sgn)
-----------------------------------------------------------------------------
(* The Qint of pow: two pairs of limbs *)
Shift4Left(h, l, k) ==
    IF k >= PairBits THEN <<Left(l, k - PairBits, PairBits), 0>>
    ELSE IF k = 0 THEN <<h, l>>
    ELSE <<Left(h, k, PairBits) + Right(l, PairBits - k), Left(l, k, PairBits)>>
Shift4Right(h, l, k) ==
    IF k >= PairBits THEN <<0, Right(h, k - PairBits)>>
    ELSE <<Right(h, k), Right(l, k) + Left(h, PairBits - k, PairBits)>>
Zeros4(h, l) == IF h # 0 THEN LeadingZeros(h, PairBits) ELSE PairBits + LeadingZeros(l, PairBits)
Minus4(a, b) == <<PairDifference(PairDifference(a[1], b[1]), Borrow(a[2], b[2])), PairDifference(a[2], b[2])>>

(* add_qint: after a cancellation of ex bits, a is shifted left by all of  *)
(* them and b by what is left of them after its alignment                  *)
AddUnequal4(a, b) ==
    LET aa == <<HighPair(a), LowPair(a)>>
        k == a.ex - b.ex
        bb == IF k > 0 THEN Shift4Right(HighPair(b), LowPair(b), k) ELSE <<HighPair(b), LowPair(b)>>
        d == Minus4(aa, bb)
        ex == Zeros4(d[1], d[2])
        again == Minus4(Shift4Left(aa[1], aa[2], ex),
                        IF ex >= k THEN Shift4Left(HighPair(b), LowPair(b), ex - k)
                        ELSE Shift4Right(HighPair(b), LowPair(b), k - ex))
        c == IF ex > 0 THEN again ELSE d
        ex1 == IF ex > 0 THEN Zeros4(again[1], again[2]) ELSE 0
        n == IF ex1 = 0 THEN c ELSE <<Left(c[1], ex1, PairBits) + Right(c[2], PairBits - ex1), Left(c[2], ex1, PairBits)>>
        cl == Carry(aa[2], bb[2])
        low == PairSum(aa[2], bb[2])
        high == PairSum(PairSum(aa[1], bb[1]), cl)
        cy == Carry(aa[1], bb[1]) + Bit(cl = 1 /\ high = 0)
    IN  CASE a.sgn # b.sgn -> Qint(n[1], n[2], a.ex - ex - ex1, a.sgn)
          [] cy # 0        -> Qint(Halved0(high), Left(high, PairBits - 1, PairBits) + low \div 2, a.ex + 1, a.sgn)
          [] OTHER         -> Qint(high, low, a.ex, a.sgn)
AddQint(a, b) == SumOf(a, b, ZeroOf(4, 0), LAMBDA x, y : AddUnequal4(x, y))

(* add_qint_22 adds the upper pairs *)
AddUnequal22(a, b) ==
    LET aa == HighPair(a)
        k == a.ex - b.ex
        bb == Right(HighPair(b), k)
        d == PairDifference(aa, bb)
        ex == LeadingZeros(d, PairBits)
        again == PairDifference(Left(aa, ex, PairBits),
                                IF ex >= k THEN Left(HighPair(b), ex - k, PairBits) ELSE Right(HighPair(b), k - ex))
        c == IF ex > 0 THEN again ELSE d
        ex1 == LeadingZeros(c, PairBits)
    IN  CASE a.sgn # b.sgn     -> Qint(Left(c, ex1, PairBits), 0, a.ex - ex - ex1, a.sgn)
          [] Carry(aa, bb) = 1 -> Qint(Halved0(PairSum(aa, bb)), 0, a.ex + 1, a.sgn)
          [] OTHER             -> Qint(aa + bb, 0, a.ex, a.sgn)
AddQint22(a, b) ==
    CASE HighPair(a) = 0 -> b
      [] HighPair(b) = 0 -> a
      [] Equal(Leading(a, 2), Leading(b, 2)) -> IF a.sgn # b.sgn THEN ZeroOf(4, 0) ELSE Doubled(a)
      [] OTHER -> AddUnequal22(IF Greater(Leading(b, 2), Leading(a, 2)) THEN b ELSE a,
                               IF Greater(Leading(b, 2), Leading(a, 2)) THEN a ELSE b)

(* The products of a Qint: the sums of the columns of limb products, from  *)
(* the top, and the part of the column below them that is carried          *)
Columns(top, fives, fours, carried, a, b) ==
    LET t4 == (fours + carried) % Pair
        c4 == (fours + carried) \div Pair
        t5 == (fives + HiLimb(t4)) % Pair
        c5 == (fives + HiLimb(t4)) \div Pair
        t6 == (top + c5 * Limb + HiLimb(t5) + c4) % Pair
        low == LoLimb(t5) * Limb + LoLimb(t4)
        sgn == Xor(a.sgn, b.sgn)
    IN  IF t6 < Pair \div 2 THEN Qint(2 * t6 + low \div (Pair \div 2), (2 * low) % Pair, a.ex + b.ex, sgn)
        ELSE Qint(t6, low, a.ex + b.ex + 1, sgn)
LimbProduct(a, b, i, j) == a.limbs[i] * b.limbs[j]
MulQint(a, b) ==
    LET R(i, j) == LimbProduct(a, b, i, j)
    IN  Columns(R(1, 1), R(2, 1) + R(1, 2), R(2, 2) + R(3, 1) + R(1, 3),
                HiLimb(R(3, 2)) + HiLimb(R(2, 3)) + HiLimb(R(4, 1)) + HiLimb(R(1, 4)), a, b)
MulQint33(a, b) ==
    LET R(i, j) == LimbProduct(a, b, i, j)
    IN  Columns(R(1, 1), R(2, 1) + R(1, 2), R(2, 2) + R(3, 1) + R(1, 3), HiLimb(R(3, 2)) + HiLimb(R(2, 3)), a, b)
MulQint41(a, b) ==
    LET R(i, j) == LimbProduct(a, b, i, j)
    IN  Columns(R(1, 1), R(2, 1), R(3, 1), HiLimb(R(4, 1)), a, b)
MulQint31(a, b) == Columns(LimbProduct(a, b, 1, 1), LimbProduct(a, b, 2, 1), LimbProduct(a, b, 3, 1), 0, a, b)
MulQint22(a, b) ==
    Columns(LimbProduct(a, b, 1, 1), LimbProduct(a, b, 2, 1) + LimbProduct(a, b, 1, 2), LimbProduct(a, b, 2, 2), 0, a, b)
MulQint21(a, b) == Columns(LimbProduct(a, b, 1, 1), LimbProduct(a, b, 2, 1), 0, 0, a, b)
MulQint11(a, b) == Columns(LimbProduct(a, b, 1, 1), 0, 0, 0, a, b)

(* mul_qint_2: the integer is scaled to a full limb first *)
MulQint2(a, n) ==
    LET c0 == IF n < 0 THEN -n ELSE n
        sgn == Xor(Bit(n < 0), a.sgn)
        k == LimbZeros(c0)
        c == Left(c0, k, LimbBits)
        t1 == a.limbs[3] * c + HiLimb(a.limbs[4] * c)
        t2 == a.limbs[2] * c + HiLimb(t1)
        t3 == (a.limbs[1] * c + HiLimb(t2)) % Pair
        low == LoLimb(t2) * Limb + LoLimb(t1)
        ex == a.ex + LimbBits - k
    IN  CASE n = 0  -> ZeroOf(4, 0)
          [] c0 = 1 -> [a EXCEPT !.sgn = sgn]
          [] t3 < Pair \div 2 -> Qint(2 * t3 + low \div (Pair \div 2), (2 * low) % Pair, ex - 1, sgn)
          [] OTHER  -> Qint(t3, low, ex, sgn)
-----------------------------------------------------------------------------
(* Exact arithmetic.  The point lies after the first bit of a significand, *)
(* or before it when the call says so.                                     *)
Signed(x) == IF x.sgn = 1 THEN -Significand(x) ELSE Significand(x)
Bits(x) == Len(x.limbs) * LimbBits
Lowest(S) == CHOOSE m \in S : \A n \in S : m <= n
Scaled(x, unit) == IF IsZero(x) THEN 0 ELSE Signed(x) * 2 ^ (x.ex - Bits(x) - unit)
UnitOf(x) == x.ex - Bits(x)
Abs(n) == IF n < 0 THEN -n ELSE n

(* The sum of a and b is closer to r than the given number of units in the *)
(* last place of x                                                         *)
SumWithin(a, b, r, ulps, x) ==
    LET unit == Lowest({UnitOf(y) : y \in {z \in {a, b, r} : ~IsZero(z)}})
        error == Abs(Scaled(a, unit) + Scaled(b, unit) - Scaled(r, unit))
    IN  error = 0 \/ (~IsZero(x) /\ error < ulps * 2 ^ (UnitOf(x) - unit))

(* The same of the product, whose point lies after the first bit of every  *)
(* significand, or before it                                               *)
ProductWithin(a, b, r, ulps, point) ==
    LET scale == 2 ^ (r.ex + Bits(r) - a.ex - b.ex - point)
        error == Abs(Signed(a) * Signed(b) - Signed(r) * scale)
    IN  error = 0 \/ error < ulps * scale
MultipleWithin(a, n, r, ulps) ==
    LET scale == 2 ^ (r.ex - a.ex)
    IN  IF n = 0 THEN IsZero(r) ELSE Abs(Signed(a) * n - Signed(r) * scale) < ulps * scale

IsNormal(x) == IsZero(x) \/ x.limbs[1] >= Limb \div 2
-----------------------------------------------------------------------------
(* One call of an operation *)
Answer(c) ==
    CASE c.op = "v1::add_dint"         -> AddDintV1(c.a, c.b)
      [] c.op = "v1::mul_dint"         -> MulDintV1(c.a, c.b)
      [] c.op = "v1::mul_dint_2"       -> MulDint2(c.a, c.b)
      [] c.op = "v2::add_dint"         -> AddDintV2(c.a, c.b)
      [] c.op = "v2::add_dint_11"      -> AddDint11(c.a, c.b)
      [] c.op = "v2::mul_dint"         -> MulDintAt(c.a, c.b, 0)
      [] c.op = "v2::mul_dint_21"      -> MulDint21At(c.a, c.b, 0)
      [] c.op = "v2::mul_dint_11"      -> MulDint11(c.a, c.b)
      [] c.op = "v2::mul_dint_int64"   -> MulDintInt64(c.a, c.b)
      [] c.op = "trig::mul_dint"       -> MulDintAt(c.a, c.b, 1)
      [] c.op = "trig::mul_dint_21"    -> MulDint21At(c.a, c.b, 1)
      [] c.op = "add_tint"             -> AddTint(c.a, c.b)
      [] c.op = "mul_tint"             -> MulTint(c.a, c.b)
      [] c.op = "add_qint"             -> AddQint(c.a, c.b)
      [] c.op = "add_qint_22"          -> AddQint22(c.a, c.b)
      [] c.op = "mul_qint"             -> MulQint(c.a, c.b)
      [] c.op = "mul_qint_33"          -> MulQint33(c.a, c.b)
      [] c.op = "mul_qint_41"          -> MulQint41(c.a, c.b)
      [] c.op = "mul_qint_31"          -> MulQint31(c.a, c.b)
      [] c.op = "mul_qint_22"          -> MulQint22(c.a, c.b)
      [] c.op = "mul_qint_21"          -> MulQint21(c.a, c.b)
      [] c.op = "mul_qint_11"          -> MulQint11(c.a, c.b)
      [] OTHER                         -> MulQint2(c.a, c.b)

WideInit == wideCall \in WideCalls /\ wideResult = Unanswered
WideNext == wideResult = Unanswered /\ wideResult' = Answer(wideCall) /\ UNCHANGED wideCall
WideSpec == WideInit /\ [][WideNext]_wideVars
-----------------------------------------------------------------------------
(* The error each operation promises, in units of the last place: what the *)
(* code's comments say.  The 126 bits of v1::mul_dint are four units, and  *)
(* v1::add_dint, which says nothing, is off by units of its operands.      *)
Promise ==
    [near |-> ("v1::add_dint" :> 2),
     add |-> [op \in {"v2::add_dint", "v2::add_dint_11", "add_tint", "add_qint", "add_qint_22"} |-> 2],
     mul |-> ("v1::mul_dint" :> 4) @@ ("v2::mul_dint" :> 6) @@ ("v2::mul_dint_21" :> 2) @@ ("v2::mul_dint_11" :> 0)
             @@ ("mul_qint" :> 14) @@ ("mul_qint_33" :> 6) @@ ("mul_qint_41" :> 2) @@ ("mul_qint_31" :> 0)
             @@ ("mul_qint_22" :> 0) @@ ("mul_qint_21" :> 0) @@ ("mul_qint_11" :> 0),
     pointed |-> ("trig::mul_dint" :> 6) @@ ("trig::mul_dint_21" :> 2) @@ ("mul_tint" :> 10),
     times |-> ("v1::mul_dint_2" :> 2) @@ ("v2::mul_dint_int64" :> 1) @@ ("mul_qint_2" :> 2)]

(* Cancellation of operands within a factor of two of one another is exact *)
Sterbenz(a, b) == a.sgn # b.sgn /\ ~IsZero(a) /\ ~IsZero(b) /\ Abs(a.ex - b.ex) <= 1
                  /\ LET unit == Lowest({UnitOf(a), UnitOf(b)})
                         m == Abs(Scaled(a, unit))
                         n == Abs(Scaled(b, unit))
                     IN  m < 2 * n /\ n < 2 * m
ExactSums == {"v2::add_dint", "add_qint"}
(* The limbs a sum uses *)
Used(op, x) == CASE op = "v2::add_dint_11" -> Leading(x, 1) [] op = "add_qint_22" -> Leading(x, 2) [] OTHER -> x
(* v1::add_dint adds a one to the smaller operand before it is shifted: a  *)
(* significand of ones wraps to zero                                       *)
WrapsV1(a, b) == ~IsZero(a) /\ ~IsZero(b) /\ a.ex # b.ex /\ Significand(Least(a, b)) = Pair - 1

(* Every sum and product of the extended-precision arithmetic behind the   *)
(* elementary functions is within the error its comment in dint.rs,        *)
(* qint.rs, atan2.rs or trig_dint.rs promises, the cancellation of nearby  *)
(* operands and the products called exact are exact, and every result is   *)
(* normalised again.                                                       *)
WideArithmeticKeepsItsBounds ==
    wideResult # Unanswered =>
        LET a == wideCall.a
            b == wideCall.b
            op == wideCall.op
        IN  /\ IsNormal(wideResult)
            /\ op \in DOMAIN Promise.add /\ ~(op = "v2::add_dint_11" /\ Sterbenz(a, b)) =>
                  SumWithin(Used(op, a), Used(op, b), Used(op, wideResult),
                            IF op \in ExactSums /\ Sterbenz(a, b) THEN 0 ELSE Promise.add[op], Used(op, wideResult))
            /\ op \in DOMAIN Promise.near /\ ~WrapsV1(a, b) => SumWithin(a, b, wideResult, Promise.near[op], Greatest(a, b))
            /\ op \in DOMAIN Promise.mul => ProductWithin(a, b, wideResult, Promise.mul[op], 1)
            /\ op \in DOMAIN Promise.pointed => ProductWithin(a, b, wideResult, Promise.pointed[op], 0)
            /\ op \in DOMAIN Promise.times => MultipleWithin(a, b, wideResult, Promise.times[op])
=============================================================================
