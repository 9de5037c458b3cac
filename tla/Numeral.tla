------------------------------ MODULE Numeral ------------------------------
(***************************************************************************)
(* Numerals and the number semantics shared by the compiler and the        *)
(* library (src/src/numeral.rs), for binary floats of any width.  A text   *)
(* is a sequence of characters, a float a sign and its bits: the exponent  *)
(* field above Precision - 1 bits of fraction, so that the bits of floats  *)
(* of one sign are ordered as their values are.                            *)
(***************************************************************************)
EXTENDS Integers, Sequences, SequencesExt

CONSTANTS
    Precision,          \* F64_PRECISION_BITS, 53
    Bias,               \* of the exponent field, 1023
    MaxExponent,        \* MAX_NORMAL_EXPONENT, 1023
    SignificantDigits,  \* MAX_SIGNIFICANT_HEX_DIGITS, 16: what a word holds
    ExponentSlack,      \* by how much an exponent may exceed its mantissa, 2048
    IntegerBits         \* the width of an integer, 64

MinExponent == 1 - Bias  \* MIN_NORMAL_EXPONENT, -1022

(* A word keeps more bits than a float whatever its leading digit is, an   *)
(* exponent at the limit is beyond every float, and the powers of two that *)
(* bound an integer are floats.                                            *)
ASSUME FloatAssumption ==
    /\ Precision \in Nat \ {0, 1} /\ SignificantDigits \in Nat /\ ExponentSlack \in Nat
    /\ 4 * SignificantDigits - 3 >= Precision + 2
    /\ MinExponent < 0 /\ MaxExponent >= Precision
    /\ ExponentSlack >= MaxExponent + 1 /\ ExponentSlack >= Precision - MinExponent + 4 * SignificantDigits
    /\ IntegerBits > Precision /\ MaxExponent >= IntegerBits - 1
-----------------------------------------------------------------------------
(* What the text of a numeral is made of *)
DecimalDigit == [d \in {"0", "1", "2", "3", "4", "5", "6", "7", "8", "9"} |->
    CASE d = "0" -> 0 [] d = "1" -> 1 [] d = "2" -> 2 [] d = "3" -> 3 [] d = "4" -> 4
      [] d = "5" -> 5 [] d = "6" -> 6 [] d = "7" -> 7 [] d = "8" -> 8 [] OTHER -> 9]
HexLetter == [d \in {"a", "b", "c", "d", "e", "f", "A", "B", "C", "D", "E", "F"} |->
    CASE d \in {"a", "A"} -> 10 [] d \in {"b", "B"} -> 11 [] d \in {"c", "C"} -> 12
      [] d \in {"d", "D"} -> 13 [] d \in {"e", "E"} -> 14 [] OTHER -> 15]
Digits == DOMAIN DecimalDigit
HexDigits == Digits \cup DOMAIN HexLetter
HexValue(d) == IF d \in Digits THEN DecimalDigit[d] ELSE HexLetter[d]

Whitespace == {" ", "\t", "LF", "VT", "FF", "CR"}
IsNewlinePair(c, d) == <<c, d>> \in {<<"CR", "LF">>, <<"LF", "CR">>}

TrimWhitespace(text) ==
    LET kept == {i \in DOMAIN text : text[i] \notin Whitespace}
    IN  IF kept = {} THEN <<>>
        ELSE SubSeq(text, CHOOSE i \in kept : \A j \in kept : i <= j,
                          CHOOSE i \in kept : \A j \in kept : j <= i)

NoParse == [ok |-> FALSE]
Parsed(v) == [ok |-> TRUE, value |-> v]

(* The mantissa, and the exponent if there is a letter for it *)
SplitExponent(text, letters) ==
    LET at == SelectSeq([i \in DOMAIN text |-> i], LAMBDA i : text[i] \in letters)
    IN  CASE at = <<>>   -> [ok |-> TRUE, mantissa |-> text, exponent |-> NoParse]
          [] Len(at) = 1 -> [ok |-> TRUE, mantissa |-> SubSeq(text, 1, at[1] - 1),
                             exponent |-> Parsed(SubSeq(text, at[1] + 1, Len(text)))]
          [] OTHER       -> NoParse

Occurring(text, set) == Len(SelectSeq(text, LAMBDA c : c \in set))
ValidMantissa(text, digits) ==
    /\ \A i \in DOMAIN text : text[i] \in digits \cup {"."}
    /\ Occurring(text, {"."}) <= 1
    /\ Occurring(text, digits) > 0

WithoutSign(text) == IF text # <<>> /\ Head(text) \in {"+", "-"} THEN Tail(text) ELSE text
HasMinus(text) == text # <<>> /\ Head(text) = "-"
ValidSignedDigits(text) == WithoutSign(text) # <<>> /\ \A i \in DOMAIN WithoutSign(text) : WithoutSign(text)[i] \in Digits

ValidParts(split, digits) ==
    /\ split.ok
    /\ ValidMantissa(split.mantissa, digits)
    /\ split.exponent.ok => ValidSignedDigits(split.exponent.value)
-----------------------------------------------------------------------------
(* Floats *)
FractionSpan == 2 ^ (Precision - 1)
Infinity == (MaxExponent + Bias + 1) * FractionSpan
Float(neg, bits) == [neg |-> neg, bits |-> bits]
NaN == Float(FALSE, Infinity + FractionSpan \div 2)

BitCount(n) == CHOOSE k \in 0 .. 30 : n < 2 ^ k /\ (k = 0 \/ n >= 2 ^ (k - 1))

(* The bits of an integer of at most Precision significant bits *)
IntegerAsFloat(n) ==
    IF n = 0 THEN 0
    ELSE LET e == BitCount(n) - 1
         IN  (e + Bias - 1) * FractionSpan + (n * FractionSpan) \div 2 ^ e

RoundShiftRight(value, shift, sticky) ==
    IF shift = 0 THEN value
    ELSE LET kept == value \div 2 ^ shift
             rest == value % 2 ^ shift
             half == 2 ^ (shift - 1)
         IN  IF rest > half \/ (rest = half /\ (sticky \/ kept % 2 = 1)) THEN kept + 1 ELSE kept

(* Counts the value in units of the smallest float *)
RoundSubnormal(prefix, sticky, scale) ==
    LET shift == MinExponent - Precision + 1 - scale
        word == 4 * SignificantDigits
        half == 2 ^ (word - 1)
    IN  CASE shift <= 0   -> prefix * 2 ^ (-shift)
          [] shift > 0 /\ shift < word -> RoundShiftRight(prefix, shift, sticky)
          [] shift = word -> IF prefix > half \/ (prefix = half /\ sticky) THEN 1 ELSE 0
          [] OTHER        -> 0

ScaleFinite(bits, scale) ==
    LET exponent == scale + bits \div FractionSpan - Bias
    IN  IF exponent > MaxExponent THEN Infinity
        ELSE (exponent + Bias) * FractionSpan + (bits % FractionSpan)

FinishHex(prefix, sticky, scale) ==
    LET count == BitCount(prefix)
        top == scale + count - 1
        shift == IF count > Precision THEN count - Precision ELSE 0
    IN  CASE top > MaxExponent -> Infinity
          [] top < MinExponent - Precision -> 0
          [] top >= MinExponent - Precision /\ top < MinExponent -> RoundSubnormal(prefix, sticky, scale)
          [] OTHER -> ScaleFinite(IntegerAsFloat(RoundShiftRight(prefix, shift, sticky)), scale + shift)

(* An exponent saturates at a limit that grows with the mantissa *)
Saturating(digits, limit) ==
    FoldLeft(LAMBDA n, d : IF n * 10 + DecimalDigit[d] > limit THEN limit ELSE n * 10 + DecimalDigit[d], 0, digits)
ExponentLimitOfSlack(mantissa) == ExponentSlack
ExponentLimit(mantissa) == 4 * Len(mantissa) + ExponentSlack
SaturatedExponent(text, limit) ==
    IF HasMinus(text) THEN -Saturating(WithoutSign(text), limit) ELSE Saturating(WithoutSign(text), limit)

NoDigits == [prefix |-> 0, significant |-> 0, fractional |-> 0, dropped |-> 0, nonzero |-> FALSE, point |-> FALSE]
ReadHexDigit(s, c) ==
    LET counted == IF s.point THEN [s EXCEPT !.fractional = @ + 1] ELSE s
    IN  CASE c = "." -> [s EXCEPT !.point = TRUE]
          [] c = "0" /\ s.significant = 0 -> counted
          [] c # "." /\ (c # "0" \/ s.significant > 0) /\ s.significant < SignificantDigits ->
                [counted EXCEPT !.prefix = @ * 16 + HexValue(c), !.significant = @ + 1]
          [] OTHER -> [counted EXCEPT !.dropped = @ + 1, !.nonzero = @ \/ c # "0"]

ParseHex(text) ==
    LET split == SplitExponent(text, {"p", "P"})
        read == FoldLeft(LAMBDA s, c : ReadHexDigit(s, c), NoDigits, split.mantissa)
        exponent == IF split.exponent.ok
                    THEN SaturatedExponent(split.exponent.value, ExponentLimit(split.mantissa)) ELSE 0
    IN  CASE ~ValidParts(split, HexDigits) -> NoParse
          [] ValidParts(split, HexDigits) /\ read.significant = 0 -> Parsed(0)
          [] OTHER -> Parsed(FinishHex(read.prefix, read.nonzero, exponent + 4 * (read.dropped - read.fractional)))

(* The value of a decimal numeral is the host's conversion *)
ParseDecimal(text) ==
    IF ValidParts(SplitExponent(text, {"e", "E"}), Digits) THEN Parsed(<<"decimal", text>>) ELSE NoParse

IsHex(text) == Len(text) >= 2 /\ text[1] = "0" /\ text[2] \in {"x", "X"}
ParseNumeral(text) ==
    LET body == WithoutSign(TrimWhitespace(text))
        parsed == IF IsHex(body) THEN ParseHex(SubSeq(body, 3, Len(body))) ELSE ParseDecimal(body)
    IN  IF parsed.ok THEN Parsed(Float(HasMinus(TrimWhitespace(text)), parsed.value)) ELSE NoParse
-----------------------------------------------------------------------------
(* Arithmetic, in units of the smallest float *)
IsNaN(x) == x.bits > Infinity
IsFinite(x) == x.bits < Infinity
IsZero(x) == x.bits = 0
Negated(x) == [x EXCEPT !.neg = ~@]
Units(x) ==
    IF x.bits < FractionSpan THEN x.bits
    ELSE (FractionSpan + (x.bits % FractionSpan)) * 2 ^ (x.bits \div FractionSpan - 1)
Signed(x) == IF x.neg THEN -Units(x) ELSE Units(x)

(* The float nearest to n units (a tie goes to the even one) *)
Rounded(n) ==
    LET shift == IF BitCount(n) > Precision THEN BitCount(n) - Precision ELSE 0
        bits == RoundShiftRight(n, shift, FALSE) + shift * FractionSpan
    IN  IF bits > Infinity THEN Infinity ELSE bits
RoundedSum(a, b, zero) ==
    LET sum == a + b
    IN  IF sum = 0 THEN Float(zero, 0) ELSE Float(sum < 0, Rounded(IF sum < 0 THEN -sum ELSE sum))

(* x % y of the host: exact, with the sign of x *)
Remainder(x, y) ==
    CASE IsNaN(x) \/ IsNaN(y) \/ ~IsFinite(x) \/ IsZero(y) -> NaN
      [] ~IsNaN(x) /\ IsFinite(x) /\ y.bits = Infinity -> x
      [] OTHER -> Float(x.neg, Rounded(Units(x) % Units(y)))

LuaModulo(a, b) ==
    LET m == Remainder(a, b)
    IN  CASE IsNaN(m) \/ IsZero(m) \/ m.neg = b.neg -> m
          [] ~IsNaN(m) /\ ~IsZero(m) /\ m.neg # b.neg /\ b.bits = Infinity -> b
          [] OTHER -> RoundedSum(Signed(m), Signed(b), FALSE)

(* trunc, and the integer a float is, if it is one of the machine's *)
Truncated(bits) ==
    LET drop == Precision - 1 - (bits \div FractionSpan - Bias)
    IN  CASE drop >= Precision -> 0
          [] drop <= 0 -> bits
          [] OTHER -> (bits \div 2 ^ drop) * 2 ^ drop
UnitsPerOne == 2 ^ (Precision - 1 - MinExponent)
IntegerBound == (IntegerBits - 1 + Bias) * FractionSpan
ExactI64(x) ==
    IF /\ IsFinite(x)
       /\ x.bits <= (IF x.neg THEN IntegerBound ELSE IntegerBound - 1)
       /\ Truncated(x.bits) = x.bits
    THEN Parsed(IF x.neg THEN -(Units(x) \div UnitsPerOne) ELSE Units(x) \div UnitsPerOne)
    ELSE NoParse

(* i64 as f64 *)
FromInteger(n) == Float(n < 0, Rounded((IF n < 0 THEN -n ELSE n) * UnitsPerOne))
-----------------------------------------------------------------------------
(* The grammar of a numeral, its sign and radix prefix aside: the lengths *)
(* of the mantissas it can be split after.                                 *)
AllIn(t, set) == \A i \in DOMAIN t : t[i] \in set
Rest(t, i) == SubSeq(t, i, Len(t))
Mantissas(t, digits) ==
    \/ t # <<>> /\ AllIn(t, digits)
    \/ Len(t) > 1 /\ \E d \in DOMAIN t : t[d] = "." /\ \A i \in DOMAIN t \ {d} : t[i] \in digits
Integers10(t) == t # <<>> /\ AllIn(t, Digits)
Exponents(t, letters) ==
    t # <<>> /\ t[1] \in letters
    /\ (Integers10(Rest(t, 2)) \/ (Len(t) > 1 /\ t[2] \in {"+", "-"} /\ Integers10(Rest(t, 3))))
Splits(t, digits, letters) ==
    {k \in 1 .. Len(t) : Mantissas(SubSeq(t, 1, k), digits) /\ (k = Len(t) \/ Exponents(Rest(t, k + 1), letters))}
=============================================================================
