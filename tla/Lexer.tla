------------------------------- MODULE Lexer -------------------------------
(***************************************************************************)
(* The lexer and its lookahead buffer (src/src/compiler/lexer.rs and       *)
(* token.rs).  Source is a sequence of characters, offsets are counted     *)
(* from 0, and the kind of a token is its spelling: operators and          *)
(* keywords as they are written, names, literals and the end in brackets.  *)
(***************************************************************************)
EXTENDS Numeral, FiniteSets

CONSTANTS
    Sources,   \* the sources that are lexed
    Keywords   \* the reserved words, goto among them

VARIABLES
    src,     \* the source
    scan,    \* Lexer: pos, the line starts and whether a newline pair is open
    ahead,   \* lookahead, lookahead2
    taken,   \* the tokens the parser popped
    last,    \* last_line and last_pos
    fault    \* the lexical error that ended parsing

lexVars == <<src, scan, ahead, taken, last, fault>>

Newlines == {"CR", "LF"}
Letters == {"a", "b", "d", "e", "f", "g", "n", "o", "p", "r", "t", "x", "z", "_"}
WordChars == Letters \cup Digits
Quotes == {"'", "\""}
Goto == <<"g", "o", "t", "o">>

NoFault == [kind |-> "none"]
NoLiteral == <<"none">>

LexInit ==
    /\ src \in Sources
    /\ scan = [pos |-> 0, breaks |-> <<0>>, open |-> FALSE]
    /\ ahead = <<>> /\ taken = <<>> /\ last = [line |-> 1, pos |-> 0] /\ fault = NoFault
-----------------------------------------------------------------------------
(* Characters *)
At(pos) == IF pos < Len(src) THEN src[pos + 1] ELSE "EOF"
PeekChar(s) == At(s.pos)

(* The line break of a pair is recorded after its second member, which    *)
(* never opens a pair.                                                     *)
NextCharPairing(s) ==
    CASE PeekChar(s) \notin Newlines -> [s EXCEPT !.pos = @ + 1]
      [] PeekChar(s) \in Newlines /\ IsNewlinePair(PeekChar(s), At(s.pos + 1)) -> [s EXCEPT !.pos = @ + 1, !.open = TRUE]
      [] OTHER -> [s EXCEPT !.pos = @ + 1, !.open = FALSE, !.breaks = Append(@, s.pos + 1)]
NextChar(s) ==
    CASE PeekChar(s) \notin Newlines -> [s EXCEPT !.pos = @ + 1]
      [] PeekChar(s) \in Newlines /\ ~s.open /\ IsNewlinePair(PeekChar(s), At(s.pos + 1)) ->
            [s EXCEPT !.pos = @ + 1, !.open = TRUE]
      [] OTHER -> [s EXCEPT !.pos = @ + 1, !.open = FALSE, !.breaks = Append(@, s.pos + 1)]
TryNext(s, set) == IF PeekChar(s) \in set THEN NextChar(s) ELSE s

RECURSIVE SkipAll(_, _)
SkipAll(s, set) == IF PeekChar(s) \in set THEN SkipAll(NextChar(s), set) ELSE s

LineAndColumn(s, pos) ==
    LET index == Len(SelectSeq(s.breaks, LAMBDA start : start <= pos))
    IN  <<index, pos - s.breaks[index] + 1>>
ErrorAt(s, kind, pos) == [ok |-> FALSE, scan |-> s, error |-> [kind |-> kind, at |-> LineAndColumn(s, pos)]]
ErrorHere(s, kind) == ErrorAt(s, kind, s.pos)
Token(s, typ, start, line, literal) ==
    [ok |-> TRUE, scan |-> s, token |-> [typ |-> typ, start |-> start, end |-> s.pos, line |-> line, literal |-> literal]]
-----------------------------------------------------------------------------
(* Comments; a scan, or the failure to find the end of a long one *)
RECURSIVE SkipLong(_, _)
SkipLong(s, level) ==
    IF PeekChar(s) = "EOF" THEN [ok |-> FALSE, scan |-> s]
    ELSE IF PeekChar(s) # "]" THEN SkipLong(NextChar(s), level)
    ELSE LET equals == SkipAll(NextChar(s), {"="})
         IN  IF equals.pos - s.pos - 1 = level /\ PeekChar(equals) = "]"
             THEN [ok |-> TRUE, scan |-> NextChar(equals)]
             ELSE SkipLong(equals, level)

RECURSIVE SkipLine(_)
SkipLine(s) ==
    IF PeekChar(s) \in Newlines \cup {"EOF"} THEN [ok |-> TRUE, scan |-> TryNext(s, Newlines)]
    ELSE SkipLine(NextChar(s))

(* A bracket that opens no long comment is ordinary comment text *)
SkipComment(s) ==
    LET equals == SkipAll(TryNext(s, {"["}), {"="})
    IN  IF PeekChar(s) # "[" THEN SkipLine(s)
        ELSE IF PeekChar(equals) = "[" THEN SkipLong(NextChar(equals), equals.pos - s.pos - 1)
        ELSE SkipLine(equals)
-----------------------------------------------------------------------------
(* Strings are decoded while they are scanned: the scan goes on character  *)
(* by character behind an escape that was decoded further ahead.           *)
Simple == [n |-> "LF", t |-> "\t", r |-> "CR", a |-> "BEL", b |-> "BS", f |-> "FF", v |-> "VT"]

RECURSIVE DigitRun(_, _)
DigitRun(pos, left) == IF left > 0 /\ At(pos) \in Digits THEN DigitRun(pos + 1, left - 1) ELSE pos

Escaped(bytes, until) == [ok |-> TRUE, bytes |-> bytes, until |-> until]
BadEscape(kind, slash) == [ok |-> FALSE, kind |-> kind, pos |-> slash]

DecodeEscape(slash, escaped, end) ==
    LET run == DigitRun(slash + 1, 3)
        number == FoldLeft(LAMBDA n, d : n * 10 + DecimalDigit[d], 0, SubSeq(src, slash + 2, run))
    IN  CASE escaped \in Digits /\ number > 255 -> BadEscape("DecimalTooLarge", slash)
          [] escaped \in Digits /\ number <= 255 -> Escaped(<<number>>, run)
          [] escaped = "x" /\ {At(slash + 2), At(slash + 3)} \subseteq HexDigits ->
                Escaped(<<HexValue(At(slash + 2)) * 16 + HexValue(At(slash + 3))>>, slash + 4)
          [] escaped = "x" /\ ~({At(slash + 2), At(slash + 3)} \subseteq HexDigits) ->
                BadEscape("HexadecimalDigitExpected", slash)
          [] escaped = "z" -> Escaped(<<>>, end)
          [] escaped \in Newlines -> Escaped(<<"LF">>, end)
          [] escaped \in {"\\"} \cup Quotes -> Escaped(<<escaped>>, end)
          [] escaped \in DOMAIN Simple -> Escaped(<<Simple[escaped]>>, end)
          [] OTHER -> BadEscape("Invalid", slash)

(* Past the character behind a backslash, and what belongs to it *)
AfterEscape(s, escaped) ==
    CASE escaped = "z" -> SkipAll(s, Whitespace)
      [] escaped \in Newlines /\ IsNewlinePair(escaped, PeekChar(s)) -> NextChar(s)
      [] OTHER -> s

NoString == [decoded |-> <<>>, failure |-> NoLiteral, until |-> 0]
Decode(str, slash, escaped, end) ==
    LET escape == DecodeEscape(slash, escaped, end)
    IN  CASE str.failure # NoLiteral -> str
          [] str.failure = NoLiteral /\ escape.ok -> [str EXCEPT !.decoded = @ \o escape.bytes, !.until = escape.until]
          [] OTHER -> [str EXCEPT !.failure = <<"bad", escape.kind, escape.pos>>]
Plain(str, c, pos) ==
    IF str.failure = NoLiteral /\ pos >= str.until THEN [str EXCEPT !.decoded = Append(@, c)] ELSE str

RECURSIVE LexString(_, _, _)
LexString(s, quote, str) ==
    LET c == PeekChar(s)
        next == NextChar(s)
        escaped == PeekChar(next)
        end == AfterEscape(NextChar(next), escaped)
    IN  CASE c = "EOF" -> ErrorHere(s, "UnfinishedString")
          [] c = quote -> [ok |-> TRUE, scan |-> next,
                           literal |-> IF str.failure = NoLiteral THEN <<"bytes", str.decoded>> ELSE str.failure]
          [] c = "\\" /\ escaped = "EOF" -> ErrorHere(next, "UnfinishedString")
          [] c = "\\" /\ escaped # "EOF" -> LexString(end, quote, Decode(str, s.pos, escaped, end.pos))
          [] c \in Newlines -> ErrorAt(next, "UnclosedString", s.pos)
          [] OTHER -> LexString(next, quote, Plain(str, c, s.pos))
-----------------------------------------------------------------------------
(* Numerals: the whole span is read, then converted once *)
RECURSIVE NumeralSpan(_, _)
NumeralSpan(s, exponent) ==
    CASE PeekChar(s) \in exponent -> NumeralSpan(TryNext(NextChar(s), {"+", "-"}), exponent)
      [] PeekChar(s) \notin exponent /\ PeekChar(s) \in HexDigits \cup {"."} -> NumeralSpan(NextChar(s), exponent)
      [] OTHER -> TryNext(s, WordChars)

(* is_incomplete_numeral: digits appended could complete it *)
LooseMantissa(t, digits) ==
    /\ \A i \in DOMAIN t : t[i] \in digits \cup {"."}
    /\ Occurring(t, {"."}) <= 1 /\ Occurring(t, digits) > 0
Incomplete(text) ==
    LET body == IF IsHex(text) THEN SubSeq(text, 3, Len(text)) ELSE text
        letters == IF IsHex(text) THEN {"p", "P"} ELSE {"e", "E"}
        at == SelectInSeq(body, LAMBDA c : c \in letters)
    IN  IF at = 0 THEN IsHex(text) /\ body \in {<<>>, <<".">>}
        ELSE /\ LooseMantissa(SubSeq(body, 1, at - 1), IF IsHex(text) THEN HexDigits ELSE Digits)
             /\ SubSeq(body, at + 1, Len(body)) \in {<<>>, <<"+">>, <<"-">>}

LexNumeral(s, first, start, line) ==
    LET radix == IF first = "0" THEN TryNext(s, {"x", "X"}) ELSE s
        end == NumeralSpan(radix, IF radix.pos > s.pos THEN {"p", "P"} ELSE {"e", "E"})
        text == SubSeq(src, start + 1, end.pos)
        parsed == ParseNumeral(text)
    IN  CASE parsed.ok -> Token(end, <<"<number>">>, start, line, <<"number", parsed.value>>)
          [] ~parsed.ok /\ end.pos = Len(src) /\ Incomplete(text) -> ErrorAt(end, "UnfinishedNumber", start)
          [] OTHER -> ErrorAt(end, "BadNumber", start)
-----------------------------------------------------------------------------
(* Tokens *)
Single == {"+", "*", "/", "%", "^", "#", ";", ":", ",", "(", ")", "{", "}", "]"}

LexWord(s, start, line) ==
    LET end == SkipAll(s, WordChars)
        word == SubSeq(src, start + 1, end.pos)
    IN  CASE word = Goto -> ErrorAt(end, "UnsupportedGoto", start)
          [] word \in Keywords \ {Goto} -> Token(end, word, start, line, NoLiteral)
          [] OTHER -> Token(end, <<"<name>">>, start, line, NoLiteral)

LexDots(s) == TryNext(TryNext(s, {"."}), IF PeekChar(s) = "." THEN {"."} ELSE {})

(* A byte that starts a character outside ASCII consumes the character *)
InvalidCharacter(s, first) ==
    CASE first = "lead" /\ PeekChar(s) = "cont" -> ErrorHere([s EXCEPT !.pos = @ + 1], "InvalidCharacter")
      [] first \in {"lead", "cont"} /\ ~(first = "lead" /\ PeekChar(s) = "cont") -> ErrorHere(s, "InvalidByte")
      [] OTHER -> ErrorHere(s, "InvalidCharacter")

Spelled(s, start, line) == Token(s, SubSeq(src, start + 1, s.pos), start, line, NoLiteral)

(* The token whose first character, at start, was just read *)
LexToken(s, c, start, line) ==
    CASE c \in Single -> Spelled(s, start, line)
      [] c = "." /\ PeekChar(s) \in Digits -> LexNumeral(s, c, start, line)
      [] c = "." /\ PeekChar(s) \notin Digits -> Spelled(LexDots(s), start, line)
      [] c \in {"=", "<", ">"} -> Spelled(TryNext(s, {"="}), start, line)
      [] c = "~" /\ PeekChar(s) = "=" -> Spelled(NextChar(s), start, line)
      [] c = "-" -> Spelled(s, start, line)
      [] c \in Quotes -> LET string == LexString(s, c, NoString)
                         IN  IF string.ok THEN Token(string.scan, <<"<string>">>, start, line, string.literal) ELSE string
      [] c = "[" /\ PeekChar(s) \in {"=", "["} -> ErrorAt(s, "LongStringUnsupported", start)
      [] c = "[" /\ PeekChar(s) \notin {"=", "["} -> Spelled(s, start, line)
      [] c \in Digits -> LexNumeral(s, c, start, line)
      [] c \in Letters -> LexWord(s, start, line)
      [] OTHER -> InvalidCharacter(s, c)

RECURSIVE NextToken(_)
NextToken(s) ==
    LET blank == SkipAll(s, Whitespace)
        line == Len(blank.breaks)
        c == PeekChar(blank)
        next == NextChar(blank)
        comment == SkipComment(NextChar(next))
    IN  CASE c = "EOF" -> Token(blank, <<"<eof>">>, blank.pos, line, NoLiteral)
          [] c = "-" /\ PeekChar(next) = "-" ->
                IF comment.ok THEN NextToken(comment.scan)
                ELSE ErrorAt(comment.scan, "UnfinishedLongComment", blank.pos)
          [] OTHER -> LexToken(next, c, blank.pos, line)
-----------------------------------------------------------------------------
(* The token stream; a lexical error ends the parse *)
EndOfFile == <<"<eof>">>
Reading == fault = NoFault /\ \A i \in DOMAIN taken : taken[i].typ # EndOfFile

Popped(token) ==
    /\ taken' = Append(taken, token)
    /\ last' = [line |-> token.line, pos |-> token.end]

Peek ==
    /\ Reading /\ ahead = <<>>
    /\ \E lexed \in {NextToken(scan)} :
          /\ scan' = lexed.scan
          /\ \/ lexed.ok /\ ahead' = <<lexed.token>> /\ UNCHANGED fault
             \/ ~lexed.ok /\ fault' = lexed.error /\ UNCHANGED ahead
    /\ UNCHANGED <<src, taken, last>>

(* The first slot fills before the second, and stays filled if that fails *)
Peek2 ==
    /\ Reading /\ Len(ahead) < 2
    /\ \E first \in {IF ahead = <<>> THEN NextToken(scan) ELSE [ok |-> TRUE, scan |-> scan, token |-> ahead[1]]} :
          \/ ~first.ok /\ scan' = first.scan /\ fault' = first.error /\ UNCHANGED ahead
          \/ /\ first.ok
             /\ \E second \in {NextToken(first.scan)} :
                   /\ scan' = second.scan
                   /\ \/ second.ok /\ ahead' = <<first.token, second.token>> /\ UNCHANGED fault
                      \/ ~second.ok /\ ahead' = <<first.token>> /\ fault' = second.error
    /\ UNCHANGED <<src, taken, last>>

PopAhead ==
    /\ Reading /\ ahead # <<>>
    /\ ahead' = Tail(ahead) /\ Popped(Head(ahead))
    /\ UNCHANGED <<src, scan, fault>>

Pop ==
    /\ Reading /\ ahead = <<>>
    /\ \E lexed \in {NextToken(scan)} :
          /\ scan' = lexed.scan
          /\ \/ lexed.ok /\ Popped(lexed.token) /\ UNCHANGED fault
             \/ ~lexed.ok /\ fault' = lexed.error /\ UNCHANGED <<taken, last>>
    /\ UNCHANGED <<src, ahead>>

LexDone == ~Reading /\ UNCHANGED lexVars

LexNext == Peek \/ Peek2 \/ PopAhead \/ Pop \/ LexDone
-----------------------------------------------------------------------------
(* What the tokens of a source are, told from the extent of each lexeme *)
Offsets(i) == i .. Len(src) - 1
LeastOr(set, default) == IF set = {} THEN default ELSE CHOOSE i \in set : \A j \in set : i <= j
Text(i, j) == SubSeq(src, i + 1, IF j < Len(src) THEN j ELSE Len(src))

(* The offsets behind the line breaks, from offset i on *)
RECURSIVE BreakEnds(_)
BreakEnds(i) ==
    CASE i >= Len(src) -> {}
      [] i < Len(src) /\ IsNewlinePair(At(i), At(i + 1)) -> {i + 2} \cup BreakEnds(i + 2)
      [] i < Len(src) /\ At(i) \in Newlines /\ ~IsNewlinePair(At(i), At(i + 1)) -> {i + 1} \cup BreakEnds(i + 1)
      [] OTHER -> BreakEnds(i + 1)
LineOf(i) == 1 + Cardinality({b \in BreakEnds(0) : b <= i})
ColumnOf(i) == 1 + i - (CHOOSE b \in {0} \cup BreakEnds(0) : b <= i /\ \A c \in BreakEnds(0) : c <= i => c <= b)

(* Where an extent that holds only the given characters ends *)
WhileIn(i, set) == LeastOr({j \in Offsets(i) : At(j) \notin set}, Len(src))

(* The level of a long bracket that opens at i, and where one closes *)
Bracket(b, level) == <<b>> \o [k \in 1 .. level |-> "="] \o <<b>>
Levels(i) == {n \in 0 .. Len(src) : Text(i, i + n + 2) = Bracket("[", n)}
CommentEnd(i) ==
    IF Levels(i) = {} THEN LeastOr({j + 1 : j \in {j \in Offsets(i) : At(j) \in Newlines}}, Len(src))
    ELSE LET n == CHOOSE n \in Levels(i) : TRUE
         IN  LeastOr({j + n + 2 : j \in {j \in Offsets(i + n + 2) : Text(j, j + n + 2) = Bracket("]", n)}}, -1)

(* A numeral reaches as far as its characters may, and one further *)
MayContinue(i, j, letters) ==
    At(j) \in HexDigits \cup {"."} \cup letters \/ (At(j) \in {"+", "-"} /\ At(j - 1) \in letters)
NumeralEnd(i) ==
    LET hex == IsHex(Text(i, Len(src)))
        letters == IF hex THEN {"p", "P"} ELSE {"e", "E"}
        end == LeastOr({j \in Offsets(IF hex THEN i + 2 ELSE i + 1) : ~MayContinue(i, j, letters)}, Len(src))
    IN  IF At(end) \in WordChars THEN end + 1 ELSE end
IsNumeral(t) ==
    IF IsHex(t) THEN Splits(Rest(t, 3), HexDigits, {"p", "P"}) # {} ELSE Splits(t, Digits, {"e", "E"}) # {}

(* An escape at i: its bytes and its end; or the error, and where the      *)
(* scan of the string goes on.                                             *)
EscapeAt(i) ==
    LET c == At(i + 1)
        n == LeastOr({k \in 1 .. 3 : At(i + 1 + k) \notin Digits}, 3)
        value == FoldLeft(LAMBDA v, d : v * 10 + DecimalDigit[d], 0, Text(i + 1, i + 1 + n))
    IN  CASE c \in Digits /\ value < 256 -> [bytes |-> <<value>>, end |-> i + 1 + n, bad |-> ""]
          [] c \in Digits /\ value >= 256 -> [bytes |-> <<>>, end |-> i + 2, bad |-> "DecimalTooLarge"]
          [] c = "x" /\ At(i + 2) \in HexDigits /\ At(i + 3) \in HexDigits ->
                [bytes |-> <<HexValue(At(i + 2)) * 16 + HexValue(At(i + 3))>>, end |-> i + 4, bad |-> ""]
          [] c = "x" /\ ~(At(i + 2) \in HexDigits /\ At(i + 3) \in HexDigits) ->
                [bytes |-> <<>>, end |-> i + 2, bad |-> "HexadecimalDigitExpected"]
          [] c = "z" -> [bytes |-> <<>>, end |-> WhileIn(i + 2, Whitespace), bad |-> ""]
          [] c \in Newlines -> [bytes |-> <<"LF">>, end |-> IF IsNewlinePair(c, At(i + 2)) THEN i + 3 ELSE i + 2, bad |-> ""]
          [] c \in Quotes \cup {"\\"} -> [bytes |-> <<c>>, end |-> i + 2, bad |-> ""]
          [] c \in DOMAIN Simple -> [bytes |-> <<Simple[c]>>, end |-> i + 2, bad |-> ""]
          [] OTHER -> [bytes |-> <<>>, end |-> i + 2, bad |-> "Invalid"]

RECURSIVE StringAt(_, _, _, _)
StringAt(i, quote, bytes, bad) ==
    CASE i >= Len(src) \/ (At(i) = "\\" /\ i + 1 >= Len(src)) -> [error |-> "UnfinishedString", end |-> Len(src)]
      [] i < Len(src) /\ At(i) = quote -> [error |-> "", end |-> i + 1, literal |-> IF bad = NoLiteral THEN <<"bytes", bytes>> ELSE bad]
      [] i < Len(src) /\ At(i) \in Newlines -> [error |-> "UnclosedString", end |-> i]
      [] i + 1 < Len(src) /\ At(i) = "\\" ->
            LET e == EscapeAt(i)
            IN  StringAt(e.end, quote, bytes \o e.bytes,
                         IF bad # NoLiteral \/ e.bad = "" THEN bad ELSE <<"bad", e.bad, i>>)
      [] OTHER -> StringAt(i + 1, quote, Append(bytes, At(i)), bad)

Operators ==
    {<<c>> : c \in Single \cup {"=", "<", ">", "-", "[", "."}}
    \cup {<<"=", "=">>, <<"<", "=">>, <<">", "=">>, <<"~", "=">>, <<".", ".">>, <<".", ".", ".">>}
OperatorEnds(i) == {j \in {i + 1, i + 2, i + 3} : j <= Len(src) /\ Text(i, j) \in Operators}
OperatorEnd(i) == CHOOSE j \in OperatorEnds(i) : \A k \in OperatorEnds(i) : k <= j

Lexeme(typ, i, j, literal) == [typ |-> typ, start |-> i, end |-> j, line |-> LineOf(i), literal |-> literal]
Refused(tokens, kind, i) == [tokens |-> tokens, fault |-> [kind |-> kind, at |-> <<LineOf(i), ColumnOf(i)>>]]

WordAt(i, j) ==
    IF Text(i, j) \in Keywords THEN Lexeme(Text(i, j), i, j, NoLiteral) ELSE Lexeme(<<"<name>">>, i, j, NoLiteral)

RECURSIVE TokensFrom(_, _)
TokensFrom(i, tokens) ==
    LET c == At(i)
        Then(j, token) == TokensFrom(j, Append(tokens, token))
    IN  CASE c = "EOF" -> [tokens |-> Append(tokens, Lexeme(EndOfFile, i, i, NoLiteral)), fault |-> NoFault]
          [] c \in Whitespace -> TokensFrom(i + 1, tokens)
          [] Text(i, i + 2) = <<"-", "-">> ->
                IF CommentEnd(i + 2) = -1 THEN Refused(tokens, "UnfinishedLongComment", i) ELSE TokensFrom(CommentEnd(i + 2), tokens)
          [] c \in Letters /\ Text(i, WhileIn(i, WordChars)) = Goto -> Refused(tokens, "UnsupportedGoto", i)
          [] c \in Letters /\ Text(i, WhileIn(i, WordChars)) # Goto -> Then(WhileIn(i, WordChars), WordAt(i, WhileIn(i, WordChars)))
          [] c \in Digits \/ (c = "." /\ At(i + 1) \in Digits) ->
                LET j == NumeralEnd(i)
                    t == Text(i, j)
                IN  CASE IsNumeral(t) -> Then(j, Lexeme(<<"<number>">>, i, j, <<"number", ParseNumeral(t).value>>))
                      [] ~IsNumeral(t) /\ j = Len(src) /\ IsNumeral(Append(t, "1")) -> Refused(tokens, "UnfinishedNumber", i)
                      [] OTHER -> Refused(tokens, "BadNumber", i)
          [] c \in Quotes ->
                LET string == StringAt(i + 1, c, <<>>, NoLiteral)
                IN  IF string.error # "" THEN Refused(tokens, string.error, string.end)
                    ELSE Then(string.end, Lexeme(<<"<string>">>, i, string.end, string.literal))
          [] c = "[" /\ At(i + 1) \in {"[", "="} -> Refused(tokens, "LongStringUnsupported", i)
          [] c \in {"lead", "cont"} ->
                IF Text(i, i + 2) = <<"lead", "cont">> THEN Refused(tokens, "InvalidCharacter", i + 2)
                ELSE Refused(tokens, "InvalidByte", i + 1)
          [] c \notin {"lead", "cont"} \cup Letters \cup Digits \cup Quotes /\ OperatorEnds(i) = {} -> Refused(tokens, "InvalidCharacter", i + 1)
          [] OTHER -> Then(OperatorEnd(i), Lexeme(Text(i, OperatorEnd(i)), i, OperatorEnd(i), NoLiteral))

(***************************************************************************)
(* The parser takes the tokens of the source, each with its extent, its    *)
(* line and its value, or the error at the line and column where it is,    *)
(* however it looks ahead: newline pairs that a comment, an escape or the  *)
(* end splits count once, a numeral reaches as far as reference Lua reads  *)
(* it and is unfinished exactly when a digit would complete it, and a      *)
(* string is decoded as if escapes were read in turn (next_token,          *)
(* next_char, lex_string, lex_numeral, peek2).  last_line and last_pos     *)
(* follow what was taken, never what was peeked.                           *)
(***************************************************************************)
LexingFollowsLua ==
    /\ taken # <<>> => last = [line |-> taken[Len(taken)].line, pos |-> taken[Len(taken)].end]
    /\ ~Reading => LET whole == TokensFrom(0, <<>>)
                   IN  /\ fault = whole.fault
                       /\ (IF fault = NoFault THEN taken ELSE taken \o ahead) = whole.tokens
=============================================================================
