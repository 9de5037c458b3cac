---------------------------- MODULE MathLibrary ----------------------------
(***************************************************************************)
(* The calls that compute with numbers: tonumber (src/src/lua_std/         *)
(* basic.rs), the math library (src/src/lua_std/math.rs), its generator    *)
(* (src/src/vm/rng.rs) and the operator % (src/src/numeral.rs).  A value   *)
(* is <<"num", float>>, <<"text", characters>> or <<"nil">>; the           *)
(* elementary functions of crmath are symbols.                             *)
(***************************************************************************)
EXTENDS Numeral, FiniteSets

CONSTANTS Asks  \* the calls: a function, its arguments, and whether the budget pays for it

VARIABLES
    ask,     \* the call in progress
    answer   \* what it returned, or the argument it refused

mathVars == <<ask, answer>>

Num(x) == <<"num", x>>
NilValue == <<"nil">>
Pending == [kind |-> "pending"]
Yields(values) == [kind |-> "values", values |-> values]
ArgumentError(i) == [kind |-> "argument", index |-> i]

Arg(i) == IF i <= Len(ask.args) THEN ask.args[i] ELSE <<"none">>
IsNumber(i) == Arg(i)[1] = "num"
NumberArg(i) == Arg(i)[2]
IsIntegerArg(i) == IsNumber(i) /\ ExactI64(NumberArg(i)).ok
IntegerArg(i) == ExactI64(NumberArg(i)).value
IsGiven(i) == Arg(i)[1] \notin {"none", "nil"}

MathInit == ask \in Asks /\ answer = Pending

(* The first argument that is not a number, checked from the left *)
FirstBad(n) == {i \in 1 .. n : ~IsNumber(i) /\ \A j \in 1 .. i - 1 : IsNumber(j)}
AnswerWith(reply) == answer' = reply /\ UNCHANGED ask
Checked(n, reply) ==
    \/ \E i \in FirstBad(n) : AnswerWith(ArgumentError(i))
    \/ FirstBad(n) = {} /\ AnswerWith(reply)

Calls(fs) == answer = Pending /\ ask.f \in fs
Paid(fs) == Calls(fs) /\ ask.paid

OutOfBudget ==
    /\ answer = Pending /\ ~ask.paid /\ ask.f \notin {"tonumber", "%"}
    /\ AnswerWith([kind |-> "budget"])
-----------------------------------------------------------------------------
(* tonumber *)
DigitInBase(c) ==
    CASE c \in HexDigits -> Parsed(HexValue(c)) [] c = "z" -> Parsed(35) [] OTHER -> NoParse

(* One digit more: a product and a sum, each rounded *)
Accumulated(value, base, digit) ==
    LET product == Rounded(Units(Float(FALSE, value)) * base)
    IN  IF product = Infinity THEN Infinity
        ELSE Rounded(Units(Float(FALSE, product)) + digit * UnitsPerOne)

IntegerInBase(text, base) ==
    LET trimmed == TrimWhitespace(text)
        digits == WithoutSign(trimmed)
    IN  IF digits = <<>> \/ \E i \in DOMAIN digits : ~DigitInBase(digits[i]).ok \/ DigitInBase(digits[i]).value >= base
        THEN NoParse
        ELSE Parsed(Float(HasMinus(trimmed),
                          FoldLeft(LAMBDA v, c : Accumulated(v, base, DigitInBase(c).value), 0, digits)))

NumberOrNil(parsed) == Yields(IF parsed.ok THEN << Num(parsed.value) >> ELSE << NilValue >>)

ToNumber ==
    /\ Calls({"tonumber"}) /\ ~IsGiven(2)
    /\ \/ Arg(1)[1] = "none" /\ AnswerWith(ArgumentError(1))
       \/ Arg(1)[1] = "num"  /\ AnswerWith(Yields(<< Arg(1) >>))
       \/ Arg(1)[1] = "text" /\ AnswerWith(NumberOrNil(ParseNumeral(Arg(1)[2])))
       \/ Arg(1)[1] = "nil"  /\ AnswerWith(Yields(<< NilValue >>))

ToNumberInBase ==
    /\ Calls({"tonumber"}) /\ IsGiven(2)
    /\ \/ Arg(1)[1] # "text" /\ AnswerWith(ArgumentError(1))
       \/ Arg(1)[1] = "text" /\ ~(IsIntegerArg(2) /\ IntegerArg(2) \in 2 .. 36) /\ AnswerWith(ArgumentError(2))
       \/ /\ Arg(1)[1] = "text" /\ IsIntegerArg(2) /\ IntegerArg(2) \in 2 .. 36
          /\ AnswerWith(NumberOrNil(IntegerInBase(Arg(1)[2], IntegerArg(2))))
-----------------------------------------------------------------------------
(* The elementary functions, of one argument or of two *)
One == Float(FALSE, Bias * FractionSpan)
Circular == {"sin", "cos"}
Inverses == {"tan", "acos", "asin"}
Conversions == {"deg", "rad", "exp"}
Unary == Circular \cup Inverses \cup Conversions \cup {"sqrt"}
Symbol(f, args) == Yields(<< <<"elementary", f, args>> >>)

MathElementary ==
    \/ Paid(Unary) /\ Checked(1, Symbol(ask.f, <<NumberArg(1)>>))
    \/ Paid({"atan2"}) /\ Checked(2, Symbol("atan2", <<NumberArg(1), NumberArg(2)>>))

(* Base 10 has a function of its own, any other is a quotient *)
Logarithm(x, base) ==
    IF base = FromInteger(10) THEN Symbol("log10", <<x>>) ELSE Symbol("quotient", <<x, base>>)

(* atan and log take an optional second argument *)
MathOptional ==
    /\ Paid({"atan", "log"})
    /\ \/ ~IsGiven(2) /\ Checked(1, Symbol(ask.f, <<NumberArg(1)>>))
       \/ IsGiven(2) /\ ask.f = "atan" /\ Checked(2, Symbol("atan2", <<NumberArg(1), NumberArg(2)>>))
       \/ IsGiven(2) /\ ask.f = "log" /\ Checked(2, Logarithm(NumberArg(1), NumberArg(2)))

(* v < w, FALSE when either is not a number *)
Below(v, w) == ~IsNaN(v) /\ ~IsNaN(w) /\ (IF IsFinite(v) /\ IsFinite(w) THEN Signed(v) < Signed(w)
                                          ELSE v # w /\ (v = Float(TRUE, Infinity) \/ w = Float(FALSE, Infinity)))
Extremum(f, values) ==
    FoldLeft(LAMBDA r, v : IF (IF f = "min" THEN Below(v, r) ELSE Below(r, v)) THEN v ELSE r, values[1], values)

MathExtremum ==
    /\ Paid({"min", "max"})
    /\ LET n == IF ask.args = <<>> THEN 1 ELSE Len(ask.args)
       IN  Checked(n, Yields(<< Num(Extremum(ask.f, [i \in 1 .. n |-> NumberArg(i)])) >>))

(* Away from zero to the next integer, when there is a fraction *)
AwayFromZero(x) == Float(x.neg, Rounded(Units(Float(FALSE, Truncated(x.bits))) + UnitsPerOne))
Integral(x) == ~IsFinite(x) \/ Truncated(x.bits) = x.bits
RoundedDown(x) ==
    IF Integral(x) THEN x ELSE IF x.neg THEN AwayFromZero(x) ELSE Float(x.neg, Truncated(x.bits))
RoundedUp(x) == Negated(RoundedDown(Negated(x)))

MathRounding ==
    /\ Paid({"floor", "ceil", "abs"})
    /\ Checked(1, Yields(<< Num(CASE ask.f = "floor" -> RoundedDown(NumberArg(1))
                                    [] ask.f = "ceil"  -> RoundedUp(NumberArg(1))
                                    [] OTHER           -> [NumberArg(1) EXCEPT !.neg = FALSE]) >>))

MathFmod == Paid({"fmod"}) /\ Checked(2, Yields(<< Num(Remainder(NumberArg(1), NumberArg(2))) >>))

(* The parts of a number; the fraction of an infinity is zero *)
MathModf ==
    /\ Paid({"modf"})
    /\ \E x \in {IF IsNumber(1) THEN NumberArg(1) ELSE One} :
       \E whole \in {IF IsFinite(x) THEN Float(x.neg, Truncated(x.bits)) ELSE x} :
         Checked(1, Yields(<< Num(whole),
             Num(CASE IsNaN(x) -> NaN
                   [] ~IsNaN(x) /\ whole = x -> Float(FALSE, 0)
                   [] OTHER -> RoundedSum(Signed(x), -Signed(whole), FALSE)) >>))

(* The operator, whose operands are numbers *)
Modulo == Calls({"%"}) /\ AnswerWith(Yields(<< Num(LuaModulo(NumberArg(1), NumberArg(2))) >>))
-----------------------------------------------------------------------------
(* random: the generator's next word is any word, and one below the        *)
(* threshold is discarded for the one after it.                            *)
Words == 0 .. 2 ^ IntegerBits - 1
SpanOf(m, n) == n - m + 1
Threshold(span) == (2 ^ IntegerBits - span) % span
Accepted(raw, m, n) == n <= m \/ SpanOf(m, n) > 2 ^ IntegerBits - 1 \/ raw >= Threshold(SpanOf(m, n))
Draw(raw, m, n) ==
    CASE n <= m -> m
      [] n > m /\ SpanOf(m, n) > 2 ^ IntegerBits - 1 -> m + raw
      [] OTHER -> m + (raw % SpanOf(m, n))
UnitDraw(raw) == Float(FALSE, Rounded((raw \div 2 ^ (IntegerBits - Precision)) * (UnitsPerOne \div 2 ^ Precision)))

RandomUnit ==
    /\ Paid({"random"}) /\ ask.args = <<>>
    /\ \E raw \in Words : AnswerWith(Yields(<< Num(UnitDraw(raw)) >>))

Low == IF Len(ask.args) = 1 THEN 1 ELSE IntegerArg(1)
High == IntegerArg(Len(ask.args))
RandomRange ==
    /\ Paid({"random"}) /\ Len(ask.args) \in 1 .. 2
    /\ IF \A i \in DOMAIN ask.args : IsIntegerArg(i)
       THEN IF Low > High THEN AnswerWith(ArgumentError(1))
            ELSE \E raw \in {r \in Words : Accepted(r, Low, High)} :
                    AnswerWith(Yields(<< Num(FromInteger(Draw(raw, Low, High))) >>))
       ELSE AnswerWith(ArgumentError(IF IsIntegerArg(1) THEN 2 ELSE 1))

RandomRefused == Paid({"random"}) /\ Len(ask.args) > 2 /\ AnswerWith([kind |-> "count"])

MathNext ==
    \/ OutOfBudget \/ ToNumber \/ ToNumberInBase \/ MathElementary \/ MathOptional
    \/ MathExtremum \/ MathRounding \/ MathFmod \/ MathModf \/ Modulo
    \/ RandomUnit \/ RandomRange \/ RandomRefused
-----------------------------------------------------------------------------
(* What a numeral means, in exact arithmetic *)
Sum(t, base) == FoldLeft(LAMBDA n, c : IF c = "." THEN n ELSE n * base + DigitInBase(c).value, 0, t)
ExponentValue(t) ==
    CASE t = <<>> -> 0
      [] Len(t) > 1 /\ t[2] = "-" -> -Sum(Rest(t, 3), 10)
      [] Len(t) > 1 /\ t[2] = "+" -> Sum(Rest(t, 3), 10)
      [] OTHER -> Sum(Rest(t, 2), 10)
FractionDigits(t) == IF AllIn(t, HexDigits) THEN 0 ELSE Len(t) - CHOOSE d \in DOMAIN t : t[d] = "."

Distance(a, b) == IF a < b THEN b - a ELSE a - b
Nearest(num, den) ==
    CHOOSE b \in 0 .. Infinity : \A c \in 0 .. Infinity :
        LET db == Distance(num, Units(Float(FALSE, b)) * den)
            dc == Distance(num, Units(Float(FALSE, c)) * den)
        IN  db < dc \/ (db = dc /\ (b = c \/ b % 2 = 0))

(* The float nearest to m * 2^e *)
NearestScaled(m, e) ==
    LET shift == e - (MinExponent - Precision + 1)
    IN  CASE m = 0 \/ BitCount(m) < -shift -> 0
          [] m > 0 /\ shift > MaxExponent - MinExponent + Precision -> Infinity
          [] m > 0 /\ shift \in 0 .. MaxExponent - MinExponent + Precision -> Nearest(m * 2 ^ shift, 1)
          [] OTHER -> Nearest(m, 2 ^ (-shift))

HexMeaning(t, k) ==
    NearestScaled(Sum(SubSeq(t, 1, k), 16), ExponentValue(Rest(t, k + 1)) - 4 * FractionDigits(SubSeq(t, 1, k)))

NumeralFollowsLua(text, value) ==
    LET trimmed == TrimWhitespace(text)
        body == WithoutSign(trimmed)
    IN  IF IsHex(body)
        THEN LET hex == Rest(body, 3) IN
             IF Splits(hex, HexDigits, {"p", "P"}) = {} THEN value = NilValue
             ELSE value = Num(Float(HasMinus(trimmed), HexMeaning(hex, CHOOSE k \in Splits(hex, HexDigits, {"p", "P"}) : TRUE)))
        ELSE (value = NilValue) = (Splits(body, Digits, {"e", "E"}) = {})

Exact == 2 ^ Precision * UnitsPerOne
InBaseFollowsLua(text, base, value) ==
    LET digits == WithoutSign(TrimWhitespace(text))
    IN  IF digits # <<>> /\ \A i \in DOMAIN digits : DigitInBase(digits[i]).ok /\ DigitInBase(digits[i]).value < base
        THEN /\ value[1] = "num"
             /\ Sum(digits, base) * UnitsPerOne <= Exact =>
                    value[2] = Float(HasMinus(TrimWhitespace(text)), Rounded(Sum(digits, base) * UnitsPerOne))
        ELSE value = NilValue

FlooredModulo(a, b) == IF b > 0 THEN a % b ELSE -((-a) % (-b))
ModuloFollowsLua(a, b, r) ==
    CASE IsNaN(a) \/ IsNaN(b) \/ ~IsFinite(a) \/ IsZero(b) -> IsNaN(r)
      [] ~IsNaN(a) /\ IsFinite(a) /\ b.bits = Infinity -> r = IF IsZero(a) \/ a.neg = b.neg THEN a ELSE b
      [] OTHER -> LET exact == FlooredModulo(Signed(a), Signed(b))
                  IN  /\ r.bits = Nearest(Distance(exact, 0), 1)
                      /\ exact # 0 => r.neg = b.neg

(* The parts into which a finite number is taken *)
PartsAreExact(x, whole, fraction) ==
    /\ Signed(whole) + Signed(fraction) = Signed(x)
    /\ Units(fraction) < UnitsPerOne /\ Units(whole) % UnitsPerOne = 0
    /\ Signed(whole) * Signed(x) >= 0 /\ Signed(fraction) * Signed(x) >= 0

RandomIsUniform(m, n, v) ==
    /\ Signed(FromInteger(m)) <= Signed(v) /\ Signed(v) <= Signed(FromInteger(n))
    /\ \E share \in 1 .. 2 ^ IntegerBits : \A k \in m .. n :
           n > m => Cardinality({raw \in Words : Accepted(raw, m, n) /\ Draw(raw, m, n) = k}) = share

IntegersAreExact(x) ==
    LET ones == Signed(x) \div UnitsPerOne
    IN  ExactI64(x) =
            IF IsFinite(x) /\ Signed(x) % UnitsPerOne = 0 /\ -(2 ^ (IntegerBits - 1)) <= ones /\ ones < 2 ^ (IntegerBits - 1)
            THEN Parsed(ones) ELSE NoParse

(***************************************************************************)
(* Every number a call computes is the one Lua defines, computed exactly   *)
(* and rounded once: a hexadecimal numeral of any length and exponent,     *)
(* subnormal, halfway or out of range (parse_hex, finish_hex); a numeral   *)
(* in a base, as long as floats are exact; % with the sign of its divisor  *)
(* (lua_modulo); whole parts, fractions and remainders; every integer of   *)
(* an interval with the same probability (random_range_i64); and an        *)
(* integer argument exactly when the float is one (exact_i64).             *)
(***************************************************************************)
NumbersFollowLua ==
    answer.kind = "values" =>
        LET v == answer.values[1]
            x == NumberArg(1)
        IN  /\ \A i \in DOMAIN ask.args : IsNumber(i) => IntegersAreExact(NumberArg(i))
            /\ ask.f = "tonumber" /\ Arg(1)[1] = "text" /\ ~IsGiven(2) => NumeralFollowsLua(Arg(1)[2], v)
            /\ ask.f = "tonumber" /\ IsGiven(2) => InBaseFollowsLua(Arg(1)[2], IntegerArg(2), v)
            /\ ask.f = "%" => ModuloFollowsLua(x, NumberArg(2), v[2])
            /\ ask.f = "modf" /\ IsFinite(x) => PartsAreExact(x, v[2], answer.values[2][2])
            /\ ask.f = "fmod" /\ IsFinite(x) /\ IsFinite(NumberArg(2)) /\ ~IsZero(NumberArg(2)) =>
                   /\ Signed(v[2]) * Signed(x) >= 0 /\ Units(v[2]) < Units(NumberArg(2))
                   /\ (Signed(x) - Signed(v[2])) % Units(NumberArg(2)) = 0
            /\ ask.f \in {"floor", "ceil"} /\ IsFinite(x) =>
                   /\ Units(v[2]) % UnitsPerOne = 0
                   /\ IF ask.f = "floor" THEN Signed(x) - Signed(v[2]) \in 0 .. UnitsPerOne - 1
                      ELSE Signed(v[2]) - Signed(x) \in 0 .. UnitsPerOne - 1
            /\ ask.f \in {"min", "max"} /\ (\A i \in DOMAIN ask.args : ~IsNaN(NumberArg(i))) =>
                   \A i \in DOMAIN ask.args : ~(IF ask.f = "min" THEN Below(NumberArg(i), v[2]) ELSE Below(v[2], NumberArg(i)))
            /\ ask.f = "random" /\ ask.args = <<>> => v[2].neg = FALSE /\ v[2].bits < Bias * FractionSpan
            /\ ask.f = "random" /\ ask.args # <<>> => RandomIsUniform(Low, High, v[2])
=============================================================================
