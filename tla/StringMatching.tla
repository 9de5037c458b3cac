--------------------------- MODULE StringMatching ---------------------------
(***************************************************************************)
(* The pattern functions of the string library (src/lua_std/string.rs):    *)
(* find and match, gsub with its three paths and its replacement callback, *)
(* and the gmatch iterator, whose state is a Lua table that outlives a     *)
(* failed call and a save.                                                 *)
(***************************************************************************)
EXTENDS LuaPatterns, TLC

CONSTANTS
    Uses,         \* the library calls a program makes, one per behaviour
    Unlimited,    \* no budget, no replacement limit
    MaxString,    \* MAX_STRING_BYTES
    MaxFailures   \* failed calls of one iterator

VARIABLES
    use,       \* the call
    stage,     \* "ready", "gsub", "gmatch" or "done"
    work,      \* what the call has produced: [out, used, error]
    sub,       \* gsub's locals, or the iterator's table
    answers,   \* what was handed to the program, or asked of a callback, in order
    failures   \* failed iterator calls

stringVars == <<use, stage, work, sub, answers, failures>>

-----------------------------------------------------------------------------
(* An error ends the call: later operations of the same step do nothing *)
NoError == "none"

Fails(w, error) == IF w.error = NoError THEN [w EXCEPT !.error = error] ELSE w

Affordable(w) == w.limit = Unlimited \/ w.used < w.limit

(* charge: one atomic charge, which completes when it crosses the budget *)
Spend(w, n) ==
    IF w.error # NoError THEN w
    ELSE IF n > 0 /\ ~Affordable(w) THEN Fails(w, "budget exceeded")
    ELSE [w EXCEPT !.used = @ + n]

(* charge_units: as many single charges as the budget admits *)
SpendUnits(w, n) ==
    LET room == IF w.limit = Unlimited THEN n
                ELSE IF w.used >= w.limit THEN 0 ELSE Min({n, w.limit - w.used})
    IN  IF w.error # NoError THEN w
        ELSE IF room < n THEN Fails([w EXCEPT !.used = @ + room], "budget exceeded")
        ELSE [w EXCEPT !.used = @ + n]

AtLeastOne(n) == Max({1, n})

(* append_bytes, append_subject_range: the cap for the whole, one charge, the copy *)
AppendAll(w, t) ==
    IF w.error # NoError THEN w
    ELSE IF Len(w.out) + Len(t) > MaxString THEN Fails(w, "string too long")
    ELSE LET paid == Spend(w, Len(t))
         IN  IF paid.error # NoError THEN paid ELSE [paid EXCEPT !.out = @ \o t]

(* append_bytes_units: byte by byte when the run would cross the cap *)
AppendUnits(w, t) ==
    IF w.error # NoError THEN w
    ELSE IF Len(w.out) + Len(t) > MaxString THEN FoldLeft(LAMBDA g, c : AppendAll(g, <<c>>), w, t)
    ELSE LET paid == SpendUnits(w, Len(t))
         IN  IF paid.error # NoError THEN paid ELSE [paid EXCEPT !.out = @ \o t]

-----------------------------------------------------------------------------
(* lua_start_index and lua_end_index *)
StartIndex(n, idx) == IF idx >= 0 THEN Max({0, idx - 1}) ELSE Max({0, n + idx})
EndIndex(n, idx) == IF idx >= 0 THEN Min({idx, n}) ELSE Max({0, n + idx + 1})

SubBytes(s, i, j) ==
    LET start == StartIndex(Len(s), i)
        end == EndIndex(Len(s), j)
    IN  IF start >= end \/ start >= Len(s) THEN <<>> ELSE SubSeq(s, start + 1, end)

CommonPrefix(s, at, needle) ==
    Max({n \in 0 .. Len(needle) : SubSeq(needle, 1, n) = SubSeq(s, at + 1, at + n)})

(* scan_subslice: skip to the next first byte, compare, charge what was compared; *)
(* the interrupt flag is read once per candidate                                  *)
RECURSIVE ScanFrom(_, _, _, _, _)
ScanFrom(s, needle, start, steps, polls) ==
    LET lastStart == Len(s) - Len(needle)
        candidates == {k \in start .. lastStart : s[k + 1] = needle[1]}
        cand == Min(candidates)
        reached == steps + cand - start
        prefix == CommonPrefix(s, cand, needle)
    IN  IF start > lastStart THEN [at |-> -1, steps |-> steps, polls |-> polls]
        ELSE IF candidates = {} THEN [at |-> -1, steps |-> steps + lastStart - start + 1, polls |-> polls]
        ELSE IF prefix = Len(needle)
        THEN [at |-> cand, steps |-> reached + Len(needle), polls |-> polls \cup {reached}]
        ELSE ScanFrom(s, needle, cand + 1, reached + prefix + 1, polls \cup {reached})

FindSubslice(s, needle, from) ==
    IF needle = <<>> THEN [at |-> from, steps |-> 0, polls |-> {}]
    ELSE IF Len(needle) > Len(s) - from THEN [at |-> -1, steps |-> 0, polls |-> {}]
    ELSE ScanFrom(s, needle, from, 0, {})

-----------------------------------------------------------------------------
(* A capture as a Lua value; whole is capture 0 *)
Whole(found) == <<"bytes", found.start, found.end>>

CaptureBytes(s, c) == SubSeq(s, c[2] + 1, c[3])

(* Positions of the model's subjects have one digit *)
Decimal(n) == <<ToString(n)>>

CaptureValue(s, c) ==
    IF c[1] = "bytes" THEN <<"string", CaptureBytes(s, c)>> ELSE <<"number", c[2] + 1>>

CaptureLength(c) == IF c[1] = "bytes" THEN c[3] - c[2] ELSE 0

(* preflight_capture_bytes: an unclosed capture is refused before any is copied *)
Preflight(w, captures) ==
    IF \E k \in DOMAIN captures : captures[k][1] = "open" THEN Fails(w, "unfinished capture")
    ELSE Spend(w, FoldLeft(LAMBDA n, c : n + CaptureLength(c), 0, captures))

AppendCapture(w, s, c) ==
    CASE c[1] = "bytes" -> AppendAll(w, CaptureBytes(s, c))
      [] c[1] = "position" -> AppendAll(w, Decimal(c[2] + 1))
      [] c[1] = "open" -> Fails(w, "unfinished capture")

(* A function returns its captures, or the whole match when it has none *)
Returned(found) == IF found.captures = <<>> THEN <<Whole(found)>> ELSE found.captures

ValuesOf(s, captures) == [k \in DOMAIN captures |-> CaptureValue(s, captures[k])]

-----------------------------------------------------------------------------
(* The outcomes of a search: it completes, or the host's interrupt stops it at a poll *)
Searched(w, r) ==
    {SpendUnits(w, r.steps)} \cup
    {Fails([w EXCEPT !.used = @ + k], "interrupted") :
        k \in {k \in r.polls : SpendUnits(w, k).error = NoError}}

(* pattern_matcher, matches_bytes_from: every matcher step polls *)
Search(p, mode, s, init) ==
    LET outcome(r) == [polls |-> 0 .. r.steps - 1] @@ r
    IN  {outcome(r) : r \in {StrMatch(program, s, init) : program \in {Compile(p, mode)}}}

AfterSearch(w, r) == IF r.is = "error" THEN Fails(w, r.error) ELSE w

Answer(w, values) ==
    /\ stage' = "done" /\ work' = w
    /\ answers' = IF w.error = NoError THEN Append(answers, values) ELSE answers
    /\ UNCHANGED <<use, sub, failures>>

(* The charges on entry *)
Entered(w) == Spend(w, AtLeastOne(Len(use.s) + Len(use.p)))
EnteredWithPattern(w) == Spend(Entered(w), AtLeastOne(Len(use.p)))

Init0 == StartIndex(Len(use.s), use.init)

Sub ==
    /\ stage = "ready" /\ use.fn = "sub"
    /\ \E t \in {SubBytes(use.s, use.init, use.j)} :
          Answer(Spend(work, AtLeastOne(Len(t))), <<<<"string", t>>>>)

FindsPlainly == use.plain \/ IsPlainForFind(use.p)

Beyond ==
    /\ stage = "ready" /\ use.fn \in {"find", "match"}
    /\ Init0 > Len(use.s)
    /\ Answer(EnteredWithPattern(work), <<>>)

FindPlain ==
    /\ stage = "ready" /\ use.fn = "find" /\ FindsPlainly /\ Init0 <= Len(use.s)
    /\ \E r \in {FindSubslice(use.s, use.p, Init0)} :
       \E w \in Searched(EnteredWithPattern(work), r) :
              Answer(w, IF r.at = -1 THEN <<>>
                        ELSE <<<<"number", r.at + 1>>, <<"number", r.at + Len(use.p)>>>>)

FindPattern ==
    /\ stage = "ready" /\ use.fn = "find" /\ ~FindsPlainly /\ Init0 <= Len(use.s)
    /\ \E r \in Search(use.p, "honour", use.s, Init0) :
       \E w \in Searched(EnteredWithPattern(work), r) :
              IF r.is # "match" THEN Answer(AfterSearch(w, r), <<>>)
              ELSE Answer(Preflight(w, r.captures),
                          <<<<"number", r.start + 1>>, <<"number", r.end>>>> \o ValuesOf(use.s, r.captures))

Match ==
    /\ stage = "ready" /\ use.fn = "match" /\ Init0 <= Len(use.s)
    /\ \E r \in Search(use.p, "honour", use.s, Init0) :
       \E w \in Searched(EnteredWithPattern(work), r) :
              IF r.is # "match" THEN Answer(AfterSearch(w, r), <<>>)
              ELSE Answer(Preflight(w, Returned(r)), ValuesOf(use.s, Returned(r)))

-----------------------------------------------------------------------------
(* A replacement template: literal runs, captures, and the first bad escape *)
RECURSIVE Segments(_)
Segments(t) ==
    IF t = <<>> THEN <<>>
    ELSE IF t[1] # "%" THEN <<<<"literal", t[1]>>>> \o Segments(Tail(t))
    ELSE IF Peek(t, 2) = "%" THEN <<<<"literal", "%">>>> \o Segments(SubSeq(t, 3, Len(t)))
    ELSE IF Peek(t, 2) \in Digit THEN <<<<"capture", DigitValue[t[2]]>>>> \o Segments(SubSeq(t, 3, Len(t)))
    ELSE <<<<"invalid">>>>

(* %0, and %1 when there is no capture, are the whole match *)
TemplateCapture(found, n) ==
    IF n = 0 \/ (n = 1 /\ found.captures = <<>>) THEN Whole(found) ELSE found.captures[n]

AppendSegment(w, found, segment) ==
    CASE segment[1] = "literal" -> AppendUnits(w, <<segment[2]>>)
      [] segment[1] = "invalid" -> Fails(w, "invalid use of %")
      [] segment[1] = "capture" ->
            IF segment[2] > Max({1, Len(found.captures)}) THEN Fails(w, "invalid capture index in replacement")
            ELSE AppendCapture(w, use.s, TemplateCapture(found, segment[2]))

(* What a replacement function, or a table lookup, is asked and may answer *)
AsksScript == use.repl.kind \in {"function", "table"}
Asked(found) == IF use.repl.kind = "function" THEN Returned(found) ELSE <<Head(Returned(found))>>
Replies == IF AsksScript THEN {<<"keep">>, <<"text", use.repl.text>>, <<"bad">>, <<"fails">>} ELSE {<<"none">>}

(* append_gsub_replacement *)
Replaced(w, found, reply) ==
    LET asked == Preflight(w, Asked(found))
    IN  CASE reply[1] = "none" ->
                FoldLeft(LAMBDA g, segment : AppendSegment(g, found, segment),
                         Spend(w, Len(use.repl.text)), Segments(use.repl.text))
          [] reply[1] = "keep" -> AppendAll(asked, CaptureBytes(use.s, Whole(found)))
          [] reply[1] = "text" -> AppendAll(asked, reply[2])
          [] reply[1] = "bad" -> Fails(asked, "invalid replacement value")
          [] reply[1] = "fails" -> Fails(asked, "callback failed")

-----------------------------------------------------------------------------
Negative(n) == IF n < 0 THEN 0 ELSE n

Gsub ==
    /\ stage = "ready" /\ use.fn = "gsub"
    /\ \E w \in {EnteredWithPattern(work)} :
           IF Negative(use.max) = 0
           THEN Answer(Spend(w, Len(use.s)), <<<<"string", use.s>>, <<"number", 0>>>>)
           ELSE /\ stage' = IF w.error = NoError THEN "gsub" ELSE "done"
                /\ work' = w
                /\ sub' = [pos |-> 0, count |-> 0, last |-> -1]
                /\ UNCHANGED <<use, answers, failures>>

GsubPath == IF use.p = <<>> THEN "empty" ELSE IF IsPlain(use.p) THEN "plain" ELSE "pattern"
MayReplace == use.max = Unlimited \/ sub.count < use.max

(* The tail of the subject, then the result *)
GsubEnds(w) ==
    \E all \in {AppendAll(w, SubSeq(use.s, sub.pos + 1, Len(use.s)))} :
        Answer(all, <<<<"string", all.out>>, <<"number", sub.count>>>>)

GsubGoesOn(w, locals, asked) ==
    /\ stage' = IF w.error = NoError THEN "gsub" ELSE "done"
    /\ work' = w /\ sub' = locals
    /\ answers' = answers \o asked
    /\ UNCHANGED <<use, failures>>

(* One replacement: the bytes before the match, then what takes its place *)
GsubReplaces(w, found, locals) ==
    \E reply \in Replies, before \in {AppendAll(w, SubSeq(use.s, sub.pos + 1, found.start))} :
    \E after \in {Replaced(before, found, reply)} :
        GsubGoesOn(after, locals,
                   IF AsksScript THEN <<[asked |-> Asked(found), reply |-> reply]>> ELSE <<>>)

(* gsub_empty_pattern: a poll, a replacement and a byte at every position *)
GsubEmpty ==
    /\ stage = "gsub" /\ GsubPath = "empty"
    /\ IF sub.pos > Len(use.s) THEN GsubEnds(work)
       ELSE LET byte == IF sub.pos < Len(use.s) THEN <<use.s[sub.pos + 1]>> ELSE <<>>
                found == [start |-> sub.pos, end |-> sub.pos, captures |-> <<>>]
            IN  \/ GsubGoesOn(Fails(work, "interrupted"), sub, <<>>)
                \/ /\ ~MayReplace
                   /\ GsubGoesOn(AppendAll(work, byte), [sub EXCEPT !.pos = @ + 1], <<>>)
                \/ /\ MayReplace
                   /\ \E reply \in Replies :
                      \E w \in {Replaced(work, found, reply)} :
                         GsubGoesOn(AppendAll(w, byte),
                                    [sub EXCEPT !.pos = @ + 1, !.count = @ + 1],
                                    IF AsksScript THEN <<[asked |-> Asked(found), reply |-> reply]>> ELSE <<>>)

(* gsub_plain_pattern *)
GsubPlain ==
    /\ stage = "gsub" /\ GsubPath = "plain"
    /\ IF sub.pos >= Len(use.s) \/ ~MayReplace THEN GsubEnds(work)
       ELSE \E r \in {FindSubslice(use.s, use.p, sub.pos)} :
            \E w \in Searched(work, r), end \in {r.at + Len(use.p)} :
                   IF w.error # NoError THEN GsubGoesOn(w, sub, <<>>)
                   ELSE IF r.at = -1 THEN GsubEnds(w)
                   ELSE GsubReplaces(w, [start |-> r.at, end |-> end, captures |-> <<>>],
                                     [sub EXCEPT !.pos = end, !.count = @ + 1])

Anchored == Compile(use.p, "honour").anchored

AcceptsNoEmptyMatch(found) == found.start # found.end

(* Lua 5.4: an empty match where the last one ended is passed over *)
Accepts(found) == ~(found.start = found.end /\ sub.last = found.end)

(* gsub_lua_pattern *)
GsubPattern ==
    /\ stage = "gsub" /\ GsubPath = "pattern"
    /\ IF ~MayReplace \/ (Anchored /\ sub.count = 1) THEN GsubEnds(work)
       ELSE \E r \in Search(use.p, "honour", use.s, sub.pos) :
            \E paid \in Searched(work, r) :
            \E w \in {AfterSearch(paid, r)} :
                   IF w.error # NoError THEN GsubGoesOn(w, sub, <<>>)
                   ELSE IF r.is = "none" THEN GsubEnds(w)
                   ELSE IF Accepts(r)
                   THEN GsubReplaces(w, r, [pos |-> r.end, count |-> sub.count + 1, last |-> r.end])
                   ELSE IF sub.pos = Len(use.s) THEN GsubEnds(w)
                   ELSE GsubGoesOn(AppendAll(w, SubSeq(use.s, sub.pos + 1, sub.pos + 1)),
                                   [sub EXCEPT !.pos = @ + 1], <<>>)

-----------------------------------------------------------------------------
(***************************************************************************)
(* The gmatch iterator.  Its table holds Lua values, since a save file can *)
(* put any value there: <<"string", bytes>>, <<"number", n>>, <<"true">>,  *)
(* <<"nil">> and <<"other">>.                                              *)
(***************************************************************************)
Number(n) == <<"number", n>>
String(t) == <<"string", t>>
Nothing == <<"nil">>
FlagKey == String(<<"c">>)     \* COMPILE_CHARGED_FIELD, kept under an integer key

IsEmptyIterator == use.p = <<>>

NewIterator(init) ==
    IF IsEmptyIterator
    THEN [position |-> Number(init), length |-> Number(Len(use.s))]
    ELSE [subject |-> String(use.s), pattern |-> String(use.p), position |-> Number(init),
          last |-> Nothing, key |-> FlagKey, flag |-> Nothing]

Gmatch ==
    /\ stage = "ready" /\ use.fn = "gmatch"
    /\ \E w \in {Entered(work)} :
           /\ work' = w
           /\ stage' = IF w.error = NoError THEN "gmatch" ELSE "done"
           /\ sub' = NewIterator(Min({Init0, Len(use.s) + 1}))
    /\ UNCHANGED <<use, answers, failures>>

IsIndex(v, maximum) == v[1] = "number" /\ v[2] \in 0 .. maximum

(* What the iterators check of their table before they use it *)
ReadsEmpty(t) ==
    /\ IsIndex(t.position, MaxString + 1) /\ IsIndex(t.length, MaxString)
    /\ t.position[2] <= t.length[2] + 1

ReadsGeneral(t) ==
    /\ t.subject[1] = "string" /\ t.pattern[1] = "string" /\ IsIndex(t.position, MaxString + 1)
    /\ t.last = Nothing \/ IsIndex(t.last, MaxString)
    /\ t.position[2] <= Len(t.subject[2]) + 1
    /\ t.last = Nothing \/ t.last[2] <= Len(t.subject[2])
    /\ \/ t.position[2] > Len(t.subject[2])
       \/ t.key = FlagKey /\ t.flag \in {Nothing, <<"true">>}

Reads(t, empty) == IF empty THEN ReadsEmpty(t) ELSE ReadsGeneral(t)

ValidLastMatch(v, n) == v = Nothing \/ IsIndex(v, n)
ValidCompileState(t) == t.key = FlagKey /\ t.flag \in {Nothing, <<"true">>}

(* What a load checks of the table of an iterator it finds *)
ValidGmatchState(t, empty) ==
    IF empty
    THEN /\ IsIndex(t.length, MaxString) /\ IsIndex(t.position, MaxString + 1)
         /\ t.position[2] <= t.length[2] + 1
    ELSE /\ t.subject[1] = "string" /\ t.pattern[1] = "string"
         /\ IsIndex(t.position, MaxString + 1)
         /\ t.position[2] <= Len(t.subject[2]) + 1
         /\ ValidLastMatch(t.last, Len(t.subject[2]))
         /\ ValidCompileState(t)

(* gmatch_iter's loop: an empty match at the end of the last one is passed over *)
RECURSIVE IteratorSearch(_, _, _)
IteratorSearch(t, search, steps) ==
    LET again(r) == r.is = "match" /\ r.start = r.end /\ t.last = Number(r.end)
        total(r) == [r EXCEPT !.steps = steps + @, !.polls = 0 .. steps + r.steps - 1]
    IN  UNION {IF ~again(r) THEN {total(r)}
               ELSE IF search = Len(t.subject[2]) THEN {[total(r) EXCEPT !.is = "none"]}
               ELSE IteratorSearch(t, search + 1, steps + r.steps) :
                  r \in Search(t.pattern[2], "literal", t.subject[2], search)}

(* The program sees an error and may call again *)
GmatchFails(w, t) ==
    /\ failures' = failures + 1
    /\ stage' = IF failures' = MaxFailures THEN "done" ELSE "gmatch"
    /\ work' = [w EXCEPT !.error = NoError] /\ sub' = t
    /\ UNCHANGED <<use, answers>>

(* nil ends the loop *)
GmatchEnds(w, t) ==
    /\ stage' = "done" /\ work' = w /\ sub' = t
    /\ answers' = Append(answers, <<>>)
    /\ UNCHANGED <<use, failures>>

GmatchYields(w, t, values) ==
    /\ work' = w /\ sub' = t
    /\ answers' = Append(answers, values)
    /\ UNCHANGED <<use, stage, failures>>

AdvanceBeforeStaging(t, r) == [t EXCEPT !.position = Number(r.end)]
Advanced(t, r) == [t EXCEPT !.position = Number(r.end), !.last = Number(r.end)]

(* Everything that can be refused is pushed before the table is written *)
Unstaged(t, r) == t

GmatchEmpty ==
    /\ stage = "gmatch" /\ IsEmptyIterator
    /\ LET pos == sub.position[2]
       IN  IF pos > sub.length[2] THEN GmatchEnds(work, sub)
           ELSE \/ GmatchYields(work, [sub EXCEPT !.position = Number(pos + 1)], <<String(<<>>)>>)
                \/ GmatchFails(work, sub)

(* Charged once per iterator: the flag is part of the table *)
CompileCharged(w, t) == IF t.flag = Nothing THEN Spend(w, AtLeastOne(Len(t.pattern[2]))) ELSE w

GmatchGeneral ==
    /\ stage = "gmatch" /\ ~IsEmptyIterator
    /\ IF sub.position[2] > Len(sub.subject[2]) THEN GmatchEnds(work, sub)
       ELSE \E charged \in {CompileCharged(work, sub)}, t \in {[sub EXCEPT !.flag = <<"true">>]} :
            \E r \in IteratorSearch(t, t.position[2], 0) :
                IF charged.error # NoError THEN GmatchFails(charged, sub)
                ELSE \E w \in Searched(charged, r) :
                     \E found \in {AfterSearch(w, r)} :
                     \E paid \in {IF r.is = "match" THEN Preflight(found, Returned(r)) ELSE found} :
                            IF found.error # NoError THEN GmatchFails(found, t)
                            ELSE IF r.is = "none" THEN GmatchEnds(found, t)
                            ELSE IF paid.error # NoError THEN GmatchFails(paid, t)
                            ELSE \/ GmatchYields(paid, Advanced(t, r), ValuesOf(use.s, Returned(r)))
                                 \/ GmatchFails(paid, Unstaged(t, r))

(* The host raises a spent budget *)
SetBudget ==
    /\ stage = "gmatch" /\ ~Affordable(work)
    /\ work' = [work EXCEPT !.limit = Unlimited]
    /\ UNCHANGED <<use, stage, sub, answers, failures>>

StringInit ==
    /\ use \in Uses
    /\ stage = "ready" /\ work = [out |-> <<>>, used |-> 0, limit |-> use.limit, error |-> NoError]
    /\ sub = <<>> /\ answers = <<>> /\ failures = 0

StringNext ==
    \/ Sub \/ Beyond \/ FindPlain \/ FindPattern \/ Match
    \/ Gsub \/ GsubEmpty \/ GsubPlain \/ GsubPattern
    \/ Gmatch \/ GmatchEmpty \/ GmatchGeneral \/ SetBudget

StringSpec == StringInit /\ [][StringNext]_stringVars

-----------------------------------------------------------------------------
(* The reference for substring search: compare at every place, byte by byte *)
NaiveCost(s, needle, from, at) ==
    LET places == IF at = -1 THEN from .. Len(s) - Len(needle) ELSE from .. at - 1
    IN  FoldSet(LAMBDA k, n : n + CommonPrefix(s, k, needle) + 1,
                IF at = -1 THEN 0 ELSE Len(needle), places)

(* The positions i .. j of a text, where a negative position counts from its end *)
Between(s, i, j) ==
    LET place(x) == IF x < 0 THEN Len(s) + x + 1 ELSE x
    IN  LET low == Max({1, place(i)}) high == Min({Len(s), place(j)}) IN SubSeq(s, low, high)

PatternErrors ==
    {"too many captures", "invalid pattern capture", "missing frontier bracket", "missing bracket",
     "invalid capture index", "ends with %", "missing balanced arguments"}

Completed == stage = "done" /\ work.error = NoError

(* What a call of find or match answers, by the meaning of its pattern *)
Expected(r) ==
    IF Init0 > Len(use.s) \/ r.is = "none" THEN <<>>
    ELSE IF r.is = "error" THEN <<r.error>>
    ELSE IF use.fn = "find" THEN <<Number(r.start + 1), Number(r.end)>> \o ValuesOf(use.s, r.captures)
    ELSE ValuesOf(use.s, Returned(r))

(* What a call of find answers when it looks for its argument as it stands *)
PlainExpected(at) == IF at = -1 THEN <<>> ELSE <<Number(at + 1), Number(at + Len(use.p))>>

PlainPlaces ==
    {k \in Init0 .. Len(use.s) - Len(use.p) : SubSeq(use.s, k + 1, k + Len(use.p)) = use.p}

EntryCharge == AtLeastOne(Len(use.s) + Len(use.p)) + AtLeastOne(Len(use.p))

(***************************************************************************)
(* find and match answer the leftmost match that the pattern's items       *)
(* prefer, with the captures of that match alone, although the slots are   *)
(* shared by every path and start tried (MatchState::captures); a          *)
(* malformed point raises exactly when a match reaches it; only a pattern  *)
(* of MaxDepth items can exceed the depth limit.  The plain path of find   *)
(* answers what the pattern would and charges what a byte-by-byte scan     *)
(* charges (find_subslice).                                                *)
(***************************************************************************)
SearchFollowsPreference ==
    /\ use.fn = "sub" /\ Completed => answers = <<<<String(Between(use.s, use.init, use.j))>>>>
    /\ stage = "done" /\ use.fn \in {"find", "match"} =>
          \A program \in {Compile(use.p, "honour")} :
          \A r \in {Meaning(program, use.s, Init0)} :
             /\ work.error = "match depth exceeded" => Len(program.items) >= MaxDepth
             /\ work.error \in PatternErrors => r = [is |-> "error", error |-> work.error]
             /\ Completed /\ ~(use.fn = "find" /\ ~IsPlain(use.p) /\ FindsPlainly) => answers = <<Expected(r)>>
    /\ Completed /\ use.fn = "find" /\ FindsPlainly =>
          \A at \in {IF PlainPlaces = {} THEN -1 ELSE Min(PlainPlaces)} :
             /\ answers = <<PlainExpected(at)>>
             /\ use.p # <<>> /\ Init0 <= Len(use.s) =>
                   work.used = EntryCharge + NaiveCost(use.s, use.p, Init0, at)

-----------------------------------------------------------------------------
SegmentText(found, segment) ==
    CASE segment[1] = "literal" -> <<segment[2]>>
      [] segment[1] = "invalid" -> <<"invalid">>
      [] segment[1] = "capture" ->
            LET c == TemplateCapture(found, segment[2])
            IN  IF c[1] = "bytes" THEN CaptureBytes(use.s, c) ELSE Decimal(c[2] + 1)

(* The text that takes the place of the k-th occurrence *)
Substitute(found, k) ==
    IF ~AsksScript
    THEN FoldLeft(LAMBDA t, segment : t \o SegmentText(found, segment), <<>>, Segments(use.repl.text))
    ELSE IF answers[k].reply[1] = "text" THEN answers[k].reply[2]
    ELSE CaptureBytes(use.s, Whole(found))

RECURSIVE Rewritten(_, _, _)
Rewritten(found, k, pos) ==
    IF k > Len(found) THEN SubSeq(use.s, pos + 1, Len(use.s))
    ELSE SubSeq(use.s, pos + 1, found[k].start) \o Substitute(found[k], k) \o Rewritten(found, k + 1, found[k].end)

(***************************************************************************)
(* gsub replaces the occurrences Lua 5.4 defines, which tries one place    *)
(* after another, and counts them, whichever of its three paths runs       *)
(* (empty, plain or matched by search); a replacement function is asked    *)
(* the captures of its own match; no result exceeds the string limit.      *)
(***************************************************************************)
SubstitutionFollowsLua ==
    use.fn = "gsub" =>
        /\ Len(work.out) <= MaxString
        /\ Completed =>
              \A every \in {Occurrences(program, use.s, 0, -1) : program \in {Compile(use.p, "honour")}} :
              \A limit \in {IF use.max = Unlimited THEN Len(every) ELSE Min({Negative(use.max), Len(every)})} :
              \A found \in {SubSeq(every, 1, limit)} :
                  /\ Last(answers) = <<String(Rewritten(found, 1, 0)), Number(limit)>>
                  /\ AsksScript => \A k \in 1 .. limit : answers[k].asked = Asked(found[k])

(* The same table with one value replaced, as a save file could hold it *)
Variants(t) ==
    {[t EXCEPT ![f] = v] : f \in DOMAIN t,
        v \in {Nothing, <<"other">>, <<"true">>, Number(0), Number(Len(use.s) + 1), Number(Len(use.s) + 2),
               Number(MaxString + 1), Number(-1), String(<<"c">>), String(<<>>)}}

(***************************************************************************)
(* A gmatch iterator yields the occurrences of its pattern in order, none  *)
(* lost or repeated by a call that an interrupt, a spent budget or a       *)
(* refused push ended, and ends only after the last; its table passes the  *)
(* checks of a load at every moment, and a table that passes them is one   *)
(* the iterator can read.                                                  *)
(***************************************************************************)
IteratorsLoseNothing ==
    use.fn = "gmatch" /\ sub # <<>> =>
        \A every \in {Occurrences(program, use.s, Init0, -1) : program \in {Compile(use.p, "literal")}},
           yielded \in {SelectSeq(answers, LAMBDA values : values # <<>>)} :
            /\ Len(yielded) <= Len(every)
            /\ \A k \in DOMAIN yielded : yielded[k] = ValuesOf(use.s, Returned(every[k]))
            /\ answers # <<>> /\ Last(answers) = <<>> => Len(yielded) = Len(every)
            /\ ValidGmatchState(sub, IsEmptyIterator)
            /\ \A t \in Variants(sub) : ValidGmatchState(t, IsEmptyIterator) => Reads(t, IsEmptyIterator)

(* The loops over all occurrences, gsub's within one call and gmatch's     *)
(* over many, find each of them once: the two statements above             *)
OccurrencesFollowLua == SubstitutionFollowsLua /\ IteratorsLoseNothing
=============================================================================
