---------------------------- MODULE LuaPatterns -----------------------------
(***************************************************************************)
(* Lua string patterns (src/patterns): the compiler, which never fails,    *)
(* and the backtracking matcher.  A text is a sequence of bytes, a byte a  *)
(* one-character string.  Offsets into a subject count from 0 as in the    *)
(* code, offsets into a pattern from 1.                                    *)
(***************************************************************************)
EXTENDS Integers, Sequences, FiniteSets, SequencesExt, FiniteSetsExt

CONSTANTS
    MaxCaptures,    \* LUA_MAXCAPTURES
    MaxDepth        \* MAXCCALLS

NUL == "NUL"

(* The bytes of the model, in ASCII order *)
Alphabet ==
    <<NUL, " ", "$", "%", "(", ")", "*", "+", "-", ".", "0", "1", "2", "?", "A", "S",
      "[", "]", "^", "a", "b", "f", "s", "z">>

Bytes == Range(Alphabet)
Rank(c) == CHOOSE i \in DOMAIN Alphabet : Alphabet[i] = c

PatternMagic == {"^", "$", "*", "+", "?", ".", "(", "[", "%", "-", ")"}

IsPlain(p) == Range(p) \cap PatternMagic = {}

(* string.find reads a closing parenthesis as a literal *)
IsPlainForFind(p) == Range(p) \cap PatternMagic \subseteq {")"}

-----------------------------------------------------------------------------
(* The classes %a, %c, ... in the C locale *)
Lower == {"a", "b", "f", "s", "z"}
Upper == {"A", "S"}
Digit == {"0", "1", "2"}
Punct == Bytes \ (Lower \cup Upper \cup Digit \cup {NUL, " "})

Classes ==
    [a |-> Lower \cup Upper, c |-> {NUL}, d |-> Digit, g |-> Bytes \ {NUL, " "}, l |-> Lower,
     p |-> Punct, s |-> {" "}, u |-> Upper, w |-> Lower \cup Upper \cup Digit,
     x |-> Digit \cup {"A", "a", "b", "f"}, z |-> {NUL}]

Capitals ==
    [A |-> "a", C |-> "c", D |-> "d", G |-> "g", L |-> "l", P |-> "p", S |-> "s", U |-> "u",
     W |-> "w", X |-> "x", Z |-> "z"]

EscapeClass(c) ==
    IF c \in DOMAIN Classes THEN Classes[c]
    ELSE IF c \in DOMAIN Capitals THEN Bytes \ Classes[Capitals[c]]
    ELSE {c}

-----------------------------------------------------------------------------
(* The compiler *)
EndOfText == "end"

Peek(p, i) == IF i \in DOMAIN p THEN p[i] ELSE EndOfText

(* Where a bracket class that opens before i closes, or 0: its first byte is no close *)
RECURSIVE BracketClose(_, _)
BracketClose(p, i) ==
    LET next == i + (IF Peek(p, i) = "%" /\ i < Len(p) THEN 2 ELSE 1)
    IN  IF i > Len(p) \/ next > Len(p) THEN 0
        ELSE IF p[next] = "]" THEN next
        ELSE BracketClose(p, next)

RECURSIVE BracketBytes(_, _, _)
BracketBytes(p, i, close) ==
    IF i >= close THEN {}
    ELSE IF p[i] = "%" /\ i + 1 < close
    THEN EscapeClass(p[i + 1]) \cup BracketBytes(p, i + 2, close)
    ELSE IF i + 2 < close /\ p[i + 1] = "-"
    THEN {Alphabet[k] : k \in Rank(p[i]) .. Rank(p[i + 2])} \cup BracketBytes(p, i + 3, close)
    ELSE {p[i]} \cup BracketBytes(p, i + 1, close)

(* bracket_class: the class that opens before i and the place after it; none at 0 *)
BracketClass(p, i) ==
    LET invert == Peek(p, i) = "^"
        first == IF invert THEN i + 1 ELSE i
        close == BracketClose(p, first)
        listed == BracketBytes(p, first, close)
    IN  [class |-> IF invert THEN Bytes \ listed ELSE listed, next |-> IF close = 0 THEN 0 ELSE close + 1]

Repeats == [q \in {"?", "*", "+", "-"} |->
               CASE q = "?" -> "optional" [] q = "*" -> "greedy" [] q = "+" -> "some" [] q = "-" -> "minimal"]

(* push_atom *)
PushAtom(c, class, i) ==
    LET q == Peek(c.text, i)
        repeated == q \in DOMAIN Repeats
    IN  [c EXCEPT !.pos = IF repeated THEN i + 1 ELSE i,
                  !.items = Append(@, [op |-> "atom", class |-> class,
                                       repeat |-> IF repeated THEN Repeats[q] ELSE "one"])]

PushItem(c, item, i) == [c EXCEPT !.pos = i, !.items = Append(@, item)]

(* The first malformed point becomes the last item: it raises when a match reaches it *)
Malformed(c, error) ==
    [c EXCEPT !.pos = Len(c.text) + 1, !.items = Append(@, [op |-> "fail", error |-> error])]

CompileOpen(c) ==
    IF c.captures = MaxCaptures THEN Malformed(c, "too many captures")
    ELSE LET counted == [c EXCEPT !.captures = @ + 1]
         IN  IF Peek(c.text, c.pos + 1) = ")"
             THEN PushItem(counted, [op |-> "position", slot |-> c.captures], c.pos + 2)
             ELSE PushItem([counted EXCEPT !.open = Append(@, c.captures)],
                           [op |-> "start", slot |-> c.captures], c.pos + 1)

CompileClose(c) ==
    IF c.open = <<>> THEN Malformed(c, "invalid pattern capture")
    ELSE PushItem([c EXCEPT !.open = Front(@)], [op |-> "close", slot |-> Last(c.open)], c.pos + 1)

CompileFrontier(c, i) ==
    LET bracket == BracketClass(c.text, i + 1)
    IN  IF Peek(c.text, i) # "[" THEN Malformed(c, "missing frontier bracket")
        ELSE IF bracket.next = 0 THEN Malformed(c, "missing bracket")
        ELSE PushItem(c, [op |-> "frontier", class |-> bracket.class], bracket.next)

DigitValue == [d \in Digit |-> CASE d = "0" -> 0 [] d = "1" -> 1 [] d = "2" -> 2]

CompileBackrefToOpen(c, d, i) ==
    IF d - 1 \in 0 .. c.captures - 1
    THEN PushItem(c, [op |-> "backref", slot |-> d - 1], i)
    ELSE Malformed(c, "invalid capture index")

(* A back reference resolves to a capture that is closed by then *)
CompileBackref(c, d, i) ==
    IF d - 1 \in (0 .. c.captures - 1) \ Range(c.open)
    THEN PushItem(c, [op |-> "backref", slot |-> d - 1], i)
    ELSE Malformed(c, "invalid capture index")

CompileEscape(c, i) ==
    LET e == Peek(c.text, i)
    IN  CASE e = EndOfText -> Malformed(c, "ends with %")
          [] e = "b" -> IF i + 2 > Len(c.text) THEN Malformed(c, "missing balanced arguments")
                        ELSE PushItem(c, [op |-> "balance", open |-> c.text[i + 1],
                                          close |-> c.text[i + 2]], i + 3)
          [] e = "f" -> CompileFrontier(c, i + 1)
          [] e \in Digit -> CompileBackref(c, DigitValue[e], i + 1)
          [] OTHER -> PushAtom(c, EscapeClass(e), i + 1)

CompileBracket(c) ==
    LET bracket == BracketClass(c.text, c.pos + 1)
    IN  IF bracket.next = 0 THEN Malformed(c, "missing bracket")
        ELSE PushAtom(c, bracket.class, bracket.next)

(* compile_items: one turn of its loop *)
CompileItem(c) ==
    LET byte == c.text[c.pos]
    IN  CASE byte = "(" -> CompileOpen(c)
          [] byte = ")" -> CompileClose(c)
          [] byte = "$" /\ c.pos = Len(c.text) -> PushItem(c, [op |-> "end"], c.pos + 1)
          [] byte = "%" -> CompileEscape(c, c.pos + 1)
          [] byte = "[" -> CompileBracket(c)
          [] byte = "." -> PushAtom(c, Bytes, c.pos + 1)
          [] OTHER -> PushAtom(c, {byte}, c.pos + 1)

RECURSIVE CompileItems(_)
CompileItems(c) == IF c.pos > Len(c.text) THEN c ELSE CompileItems(CompileItem(c))

(* A leading ^ anchors, except under gmatch, where it is an ordinary byte *)
Compile(p, mode) ==
    LET anchored == mode = "honour" /\ Peek(p, 1) = "^"
        c == CompileItems([text |-> p, pos |-> IF anchored THEN 2 ELSE 1, items |-> <<>>,
                           open |-> <<>>, captures |-> 0])
    IN  [items |-> c.items, anchored |-> anchored, captures |-> c.captures]

-----------------------------------------------------------------------------
(***************************************************************************)
(* The matcher.  `m` is a MatchState: the capture slots, written in place  *)
(* and never restored, and the steps charged.  A result says whether there *)
(* is a match, where it ends, and carries the MatchState on.               *)
(***************************************************************************)
FreshSlot == [init |-> 0, kind |-> "bytes", len |-> 0]
FreshSlots == [k \in 0 .. MaxCaptures - 1 |-> FreshSlot]

Tick(m) == [m EXCEPT !.steps = @ + 1]
Found(m, end) == [is |-> "match", end |-> end, m |-> m]
Absent(m) == [is |-> "none", m |-> m]
Raised(m, error) == [is |-> "error", error |-> error, m |-> m]

ByteAt(s, pos) == IF pos < Len(s) THEN s[pos + 1] ELSE EndOfText

(* Frontiers see a zero byte on either side of the subject *)
EdgeByte(s, pos) == IF pos >= 0 /\ pos < Len(s) THEN s[pos + 1] ELSE NUL

(* match_balance after its first byte: the place past the close, or -1, and the steps *)
RECURSIVE Balanced(_, _, _, _)
Balanced(s, cursor, item, depth) ==
    IF cursor >= Len(s) THEN [end |-> -1, steps |-> 0]
    ELSE LET byte == s[cursor + 1]
             inner == Balanced(s, cursor + 1, item,
                               IF byte = item.close THEN depth - 1
                               ELSE IF byte = item.open THEN depth + 1 ELSE depth)
         IN  IF byte = item.close /\ depth = 1 THEN [end |-> cursor + 1, steps |-> 1]
             ELSE [inner EXCEPT !.steps = @ + 1]

(* How many bytes from pos on belong to the class *)
RunLength(s, pos, class) ==
    Min({n \in 0 .. Len(s) - pos : ByteAt(s, pos + n) \notin class})

(* A back reference compares byte by byte: how many agree before one does not *)
Agreement(s, pos, slot) ==
    Min({n \in 0 .. slot.len : n = slot.len \/ ByteAt(s, pos + n) # s[slot.init + n + 1]})

RECURSIVE MatchAt(_, _, _, _, _), MatchLoop(_, _, _, _, _), MatchRest(_, _, _, _, _, _)
RECURSIVE MaxExpand(_, _, _, _, _, _), MinExpand(_, _, _, _, _)

(* match_at, entered by recursion *)
MatchAt(q, pos, item, depth, m) ==
    IF depth >= MaxDepth THEN Raised(m, "match depth exceeded")
    ELSE MatchLoop(q, pos, item, depth, m)

(* One turn of match_at's loop *)
MatchLoop(q, pos, item, depth, m) ==
    IF item > Len(q.items) THEN Found(Tick(m), pos)
    ELSE MatchRest(q, q.items[item], pos, item, depth, Tick(m))

(* max_expand backtracks from the longest run to the shortest *)
MaxExpand(q, low, end, item, depth, m) ==
    LET tried == MatchAt(q, end, item + 1, depth + 1, m)
    IN  IF tried.is # "none" THEN tried
        ELSE IF end = low THEN Absent(tried.m)
        ELSE MaxExpand(q, low, end - 1, item, depth, tried.m)

(* min_expand takes one more byte only when the rest does not match *)
MinExpand(q, pos, item, depth, m) ==
    LET tried == MatchAt(q, pos, item + 1, depth + 1, m)
    IN  IF tried.is # "none" THEN tried
        ELSE IF ByteAt(q.subject, pos) \notin q.items[item].class THEN Absent(Tick(tried.m))
        ELSE MinExpand(q, pos + 1, item, depth, Tick(tried.m))

MatchAtom(q, it, pos, item, depth, m) ==
    LET single == ByteAt(q.subject, pos) \in it.class
        longest == pos + RunLength(q.subject, pos, it.class)
        expand(low) == MaxExpand(q, low, longest, item, depth, [m EXCEPT !.steps = @ + longest - low + 1])
        past == MatchLoop(q, pos, item + 1, depth, m)
    IN  CASE it.repeat = "one" ->
                IF single THEN MatchLoop(q, pos + 1, item + 1, depth, m) ELSE Absent(m)
          [] it.repeat = "optional" ->
                IF ~single THEN past
                ELSE LET tried == MatchAt(q, pos + 1, item + 1, depth + 1, m)
                     IN  IF tried.is # "none" THEN tried
                         ELSE MatchLoop(q, pos, item + 1, depth, tried.m)
          [] it.repeat = "greedy" -> IF single THEN expand(pos) ELSE past
          [] it.repeat = "some" -> IF single THEN expand(pos + 1) ELSE Absent(m)
          [] it.repeat = "minimal" -> IF single THEN MinExpand(q, pos, item, depth, m) ELSE past

MatchBalance(q, it, pos, item, depth, m) ==
    LET inside == Balanced(q.subject, pos + 1, it, 1)
        spent == [m EXCEPT !.steps = @ + 1 + (IF ByteAt(q.subject, pos) = it.open THEN inside.steps ELSE 0)]
    IN  IF ByteAt(q.subject, pos) = it.open /\ inside.end # -1
        THEN MatchLoop(q, inside.end, item + 1, depth, spent)
        ELSE Absent(spent)

MatchBackref(q, slot, pos, item, depth, m) ==
    LET agreed == Agreement(q.subject, pos, slot)
        compared == agreed + (IF agreed < slot.len /\ pos + agreed < Len(q.subject) THEN 1 ELSE 0)
        spent == [m EXCEPT !.steps = @ + compared]
    IN  CASE slot.kind = "open" -> Raised(m, "invalid capture index")
          [] slot.kind = "position" -> Absent(m)
          [] slot.kind = "bytes" ->
                IF agreed = slot.len THEN MatchLoop(q, pos + slot.len, item + 1, depth, spent)
                ELSE Absent(spent)

Recurse(q, slot, value, pos, item, depth, m) ==
    MatchAt(q, pos, item + 1, depth + 1, [m EXCEPT !.caps[slot] = value])

(* The arms of match_at *)
MatchRest(q, it, pos, item, depth, m) ==
    CASE it.op = "start" ->
            Recurse(q, it.slot, [init |-> pos, kind |-> "open", len |-> 0], pos, item, depth, m)
      [] it.op = "close" ->
            Recurse(q, it.slot, [init |-> m.caps[it.slot].init, kind |-> "bytes",
                                 len |-> pos - m.caps[it.slot].init], pos, item, depth, m)
      [] it.op = "position" ->
            Recurse(q, it.slot, [init |-> pos, kind |-> "position", len |-> 0], pos, item, depth, m)
      [] it.op = "balance" -> MatchBalance(q, it, pos, item, depth, m)
      [] it.op = "frontier" ->
            IF EdgeByte(q.subject, pos - 1) \notin it.class /\ EdgeByte(q.subject, pos) \in it.class
            THEN MatchLoop(q, pos, item + 1, depth, m) ELSE Absent(m)
      [] it.op = "backref" -> MatchBackref(q, m.caps[it.slot], pos, item, depth, m)
      [] it.op = "end" -> IF pos = Len(q.subject) THEN Found(m, pos) ELSE Absent(m)
      [] it.op = "fail" -> Raised(m, it.error)
      [] it.op = "atom" -> MatchAtom(q, it, pos, item, depth, Tick(m))

(* str_match tries start after start with the same slots *)
RECURSIVE SearchFrom(_, _, _)
SearchFrom(q, pos, m) ==
    LET tried == MatchAt(q, pos, 1, 0, m)
    IN  IF tried.is = "match" THEN [start |-> pos] @@ tried
        ELSE IF tried.is = "error" \/ q.anchored \/ pos = Len(q.subject) THEN tried
        ELSE SearchFrom(q, pos + 1, tried.m)

Captured(slot) ==
    IF slot.kind = "bytes" THEN <<"bytes", slot.init, slot.init + slot.len>> ELSE <<slot.kind, slot.init>>

(* The range and captures a search publishes, and the steps it charges *)
StrMatch(program, subject, init) ==
    LET q == [items |-> program.items, anchored |-> program.anchored, subject |-> subject]
        found == SearchFrom(q, init, [caps |-> FreshSlots, steps |-> 0])
    IN  IF program.items = <<>>
        THEN [is |-> "match", start |-> init, end |-> init, captures |-> <<>>, steps |-> 0]
        ELSE CASE found.is = "match" ->
                     [is |-> "match", start |-> found.start, end |-> found.end,
                      captures |-> [k \in 1 .. program.captures |-> Captured(found.m.caps[k - 1])],
                      steps |-> found.m.steps]
               [] found.is = "none" -> [is |-> "none", steps |-> found.m.steps]
               [] found.is = "error" -> [is |-> "error", error |-> found.error, steps |-> found.m.steps]
-----------------------------------------------------------------------------
(***************************************************************************)
(* What a compiled pattern matches, without a matcher.  A path says where  *)
(* each item ends; among the paths that fit a subject the items' order of  *)
(* preference picks one, and the captures are read off it.                 *)
(***************************************************************************)
SlotOps == {"start", "close", "position"}

Writers(q, slot) ==
    {i \in DOMAIN q.items : q.items[i].op \in SlotOps /\ q.items[i].slot = slot}

(* The capture a path leaves in a slot *)
PathCapture(q, path, slot) ==
    LET writers == Writers(q, slot)
        first == q.items[Min(writers)]
    IN  IF first.op = "position" THEN <<"position", path[Min(writers)]>>
        ELSE IF Cardinality(writers) = 1 THEN <<"open", path[Min(writers)]>>
        ELSE <<"bytes", path[Min(writers)], path[Max(writers)]>>

Span(s, from, to) == SubSeq(s, from + 1, to)

Count(seq, c) == Cardinality({k \in DOMAIN seq : seq[k] = c})

(* A shortest stretch that opens, closes as often as it opens, and never sooner *)
IsBalanced(it, t) ==
    /\ t # <<>> /\ t[1] = it.open
    /\ IF it.open = it.close THEN Len(t) >= 2 /\ \A k \in 2 .. Len(t) : t[k] = it.close <=> k = Len(t)
       ELSE \A k \in 1 .. Len(t) :
               LET part == SubSeq(t, 1, k)
               IN  Count(part, it.open) = Count(part, it.close) <=> k = Len(t)

(* Item i takes the bytes from path[i - 1] to path[i] *)
ItemFits(q, path, i) ==
    LET it == q.items[i]
        from == path[i - 1]
        to == path[i]
        t == Span(q.subject, from, to)
    IN  CASE it.op \in {"start", "close", "position", "fail"} -> to = from
          [] it.op = "end" -> to = from /\ from = Len(q.subject)
          [] it.op = "frontier" ->
                /\ to = from
                /\ EdgeByte(q.subject, from - 1) \notin it.class
                /\ EdgeByte(q.subject, from) \in it.class
          [] it.op = "balance" -> IsBalanced(it, t)
          [] it.op = "backref" ->
                LET c == PathCapture(q, path, it.slot)
                IN  c[1] = "bytes" /\ t = Span(q.subject, c[2], c[3])
          [] it.op = "atom" ->
                /\ Range(t) \subseteq it.class
                /\ CASE it.repeat = "one" -> to = from + 1
                     [] it.repeat = "optional" -> to <= from + 1
                     [] it.repeat = "some" -> to > from
                     [] it.repeat \in {"greedy", "minimal"} -> TRUE

Paths(q, start) ==
    {path \in [0 .. Len(q.items) -> start .. Len(q.subject)] :
        /\ path[0] = start
        /\ \A i \in DOMAIN q.items : path[i - 1] <= path[i] /\ ItemFits(q, path, i)}

(* At the first item where they part, the longer stretch, or for - the shorter *)
Preferred(q, path, other) ==
    LET i == Min({k \in DOMAIN q.items : path[k] # other[k]})
        minimal == q.items[i].op = "atom" /\ q.items[i].repeat = "minimal"
    IN  IF minimal THEN path[i] < other[i] ELSE path[i] > other[i]

BestPath(q, paths) ==
    CHOOSE path \in paths : \A other \in paths \ {path} : Preferred(q, path, other)

(* The meaning of matching at one place: an error is met where a path reaches it *)
MeaningAt(program, subject, start) ==
    LET q == [items |-> program.items, subject |-> subject]
        paths == Paths(q, start)
    IN  IF paths = {} THEN [is |-> "none"]
        ELSE IF program.items # <<>> /\ Last(program.items).op = "fail"
        THEN [is |-> "error", error |-> Last(program.items).error]
        ELSE LET path == BestPath(q, paths)
             IN  [is |-> "match", start |-> start, end |-> path[Len(program.items)],
                  captures |-> [k \in 1 .. program.captures |-> PathCapture(q, path, k - 1)]]

(* The meaning of a search: the first place that answers *)
Meaning(program, subject, init) ==
    LET starts == IF program.anchored THEN {init} ELSE init .. Len(subject)
        answers == {start \in starts : MeaningAt(program, subject, start).is # "none"}
    IN  IF answers = {} THEN [is |-> "none"] ELSE MeaningAt(program, subject, Min(answers))

(***************************************************************************)
(* Lua 5.4's iteration: matching is tried at one place after another, and  *)
(* a match that is empty where the last one ended does not count.          *)
(***************************************************************************)
RECURSIVE Occurrences(_, _, _, _)
Occurrences(program, subject, src, last) ==
    LET after(here) ==
            CASE here.is = "error" -> <<here>>
              [] here.is = "match" /\ here.end # last ->
                    <<here>> \o IF program.anchored THEN <<>> ELSE Occurrences(program, subject, here.end, here.end)
              [] OTHER -> IF program.anchored THEN <<>> ELSE Occurrences(program, subject, src + 1, last)
    IN  IF src > Len(subject) THEN <<>>
        ELSE CHOOSE found \in {after(here) : here \in {MeaningAt(program, subject, src)}} : TRUE
=============================================================================
