---------------------------- MODULE WeakHandles -----------------------------
(***************************************************************************)
(* Handles into the garbage-collected heap that do not keep their referent *)
(* alive: inline cache entries and the compiled-pattern cache              *)
(* (src/vm/object.rs, caches.rs, inventory.rs, vm.rs).                     *)
(*                                                                         *)
(* A handle names an arena slot and the slot's generation, which comes     *)
(* round again after GenSpace reuses.  A held handle's generation is kept  *)
(* relative to its slot's: `age` reuses ago, modulo GenSpace.  It matches  *)
(* when the age is 0 and the slot is occupied.                             *)
(***************************************************************************)
EXTENDS Integers, Sequences, FiniteSets, SequencesExt, FiniteSetsExt

CONSTANTS
    Slots,            \* arena slots
    Texts,            \* the contents of strings
    Length(_),        \* their lengths
    Carets,           \* the texts that begin with ^
    Sites,            \* inline cache cells
    NoEntry,          \* an empty cell
    GenSpace,         \* reuses after which a generation recurs (2^31)
    PruneInterval,    \* CACHE_PRUNE_INTERVAL
    PatternEntries,   \* PATTERN_CACHE_ENTRIES
    PatternBytes      \* PATTERN_CACHE_BYTES

ASSUME WeakHandlesAssumption ==
    /\ GenSpace \in Nat /\ PruneInterval \in Nat
    /\ 0 < PruneInterval /\ PruneInterval < GenSpace
    /\ NoEntry \notin Texts
    /\ \A x \in Texts : Length(x) \in Nat
    /\ PatternEntries \in Nat /\ PatternBytes \in Nat

VARIABLES
    text,         \* an occupied slot's string, or NoEntry
    rooted,       \* the slots reachable from the roots
    countdown,    \* cache_prune_countdown
    cells,        \* the cache cells: [slot, age, dead] or NoEntry
    patterns,     \* the pattern cache, oldest first: [slot, age, mode, text]
    bytes         \* pattern_bytes

vars == <<text, rooted, countdown, cells, patterns, bytes>>

Occupied(s) == text[s] # NoEntry
Live == {s \in Slots : Occupied(s)}

Init ==
    /\ text = [s \in Slots |-> NoEntry] /\ rooted = {}
    /\ countdown = PruneInterval
    /\ cells = [c \in Sites |-> NoEntry]
    /\ patterns = <<>> /\ bytes = 0

-----------------------------------------------------------------------------
(* The generation moves on: every held handle of the slot is one reuse older *)
Older(age) == IF age = GenSpace - 1 THEN 0 ELSE age + 1

Aged(h, s) == IF h.slot = s THEN [h EXCEPT !.age = Older(@)] ELSE h

AgedCell(c, s) == IF cells[c] = NoEntry THEN NoEntry ELSE Aged(cells[c], s)

(* alloc_string: an interned text is found, a new one takes a vacant slot *)
Alloc ==
    /\ \E x \in Texts :
          \/ /\ \E s \in Live : text[s] = x /\ rooted' = rooted \cup {s}
             /\ UNCHANGED <<text, cells, patterns>>
          \/ /\ \A s \in Live : text[s] # x
             /\ \E s \in Slots \ Live :
                   /\ text' = [text EXCEPT ![s] = x]
                   /\ rooted' = rooted \cup {s}
                   /\ cells' = [c \in Sites |-> AgedCell(c, s)]
                   /\ patterns' = [i \in DOMAIN patterns |-> Aged(patterns[i], s)]
    /\ UNCHANGED <<countdown, bytes>>

(* The program drops its last strong reference *)
DropRoot ==
    /\ \E s \in rooted : rooted' = rooted \ {s}
    /\ UNCHANGED <<text, countdown, cells, patterns, bytes>>

(* A cache fill names an object that is alive *)
FillCell ==
    /\ \E c \in Sites, s \in rooted :
          cells' = [cells EXCEPT ![c] = [slot |-> s, age |-> 0, dead |-> FALSE]]
    /\ UNCHANGED <<text, rooted, countdown, patterns, bytes>>

-----------------------------------------------------------------------------
BytesOf(entries) ==
    LET sum[k \in 0 .. Len(entries)] == IF k = 0 THEN 0 ELSE sum[k - 1] + Length(entries[k].text)
    IN  sum[Len(entries)]

(* The oldest entries go until the new one fits both bounds *)
RoomFor(n) ==
    LET kept == {k \in 0 .. Len(patterns) :
                    LET rest == SubSeq(patterns, k + 1, Len(patterns))
                    IN  Len(rest) < PatternEntries /\ BytesOf(rest) + n <= PatternBytes}
    IN  SubSeq(patterns, Min(kept) + 1, Len(patterns))

Matches(h, s) == h.slot = s /\ h.age = 0 /\ Occupied(s)

AnchorModes == {"honour", "literal"}

(* gmatch reads a leading ^ as a literal; no other text tells the modes apart *)
Effective(mode, x) == IF x \in Carets THEN mode ELSE "honour"

CachedPattern(s, mode) ==
    {i \in DOMAIN patterns : Matches(patterns[i], s) /\ patterns[i].mode = mode}

(* cached_pattern_at: a hit, a pattern too large to keep, or a new entry *)
UsePattern ==
    /\ \E s \in rooted, m \in AnchorModes :
          LET n == Length(text[s])
              mode == Effective(m, text[s])
          IN  /\ CachedPattern(s, mode) = {}
              /\ PatternEntries # 0 /\ n <= PatternBytes
              /\ patterns' = Append(RoomFor(n), [slot |-> s, age |-> 0, mode |-> mode, text |-> text[s]])
              /\ bytes' = BytesOf(RoomFor(n)) + n
    /\ UNCHANGED <<text, rooted, countdown, cells>>

-----------------------------------------------------------------------------
(* val_is_live after the sweep, which frees what is not reachable *)
Survives(h) == h.age = 0 /\ h.slot \in rooted

PruneDue == countdown = 1

SweptCellKeptForever(c) ==
    IF cells[c] = NoEntry \/ Survives(cells[c]) THEN cells[c]
    ELSE [cells[c] EXCEPT !.dead = TRUE]

(* Every cell learns whether its referent died; a due prune clears the dead *)
SweptCell(c) ==
    IF cells[c] = NoEntry \/ Survives(cells[c]) THEN cells[c]
    ELSE IF PruneDue THEN NoEntry
    ELSE [cells[c] EXCEPT !.dead = TRUE]

PrunePatternsNever(entries) == entries
PrunePatterns(entries) ==
    LET kept[k \in 0 .. Len(entries)] ==
            IF k = 0 THEN <<>>
            ELSE IF Survives(entries[k]) THEN Append(kept[k - 1], entries[k])
            ELSE kept[k - 1]
    IN  kept[Len(entries)]

Collect ==
    /\ text' = [s \in Slots |-> IF s \in rooted THEN text[s] ELSE NoEntry]
    /\ countdown' = IF PruneDue THEN PruneInterval ELSE countdown - 1
    /\ cells' = [c \in Sites |-> SweptCell(c)]
    /\ patterns' = PrunePatterns(patterns)
    /\ bytes' = BytesOf(PrunePatterns(patterns))
    /\ UNCHANGED rooted

Next ==
    \/ Alloc \/ DropRoot
    \/ FillCell \/ UsePattern
    \/ Collect

Spec == Init /\ [][Next]_vars

-----------------------------------------------------------------------------
Ages == 0 .. GenSpace - 1

TypeOK ==
    /\ text \in [Slots -> Texts \cup {NoEntry}] /\ rooted \subseteq Live
    /\ countdown \in 1 .. PruneInterval
    /\ cells \in [Sites -> [slot : Slots, age : Ages, dead : BOOLEAN] \cup {NoEntry}]

(***************************************************************************)
(* A cache entry that matches an occupied slot was filled for the object   *)
(* in it: a prune every PruneInterval collections comes before any slot's  *)
(* generation comes round (CACHE_PRUNE_INTERVAL).                          *)
(***************************************************************************)
NoEntryAliases ==
    \A c \in Sites : cells[c] # NoEntry =>
        (Matches(cells[c], cells[c].slot) => ~cells[c].dead)

(***************************************************************************)
(* A cached pattern program that answers for a string was compiled from    *)
(* that string, at most once for each meaning of its anchor, and the cache *)
(* keeps to its entry and byte bounds, its byte count exact, across        *)
(* evictions and collections.                                              *)
(***************************************************************************)
PatternCacheIsExact ==
    /\ TypeOK
    /\ \A i \in DOMAIN patterns : LET h == patterns[i] IN
          /\ Matches(h, h.slot) => h.text = text[h.slot]
          /\ h.mode = Effective(h.mode, h.text)
          /\ \A j \in DOMAIN patterns :
                patterns[j].text = h.text /\ patterns[j].mode = h.mode => j = i
    /\ Len(patterns) <= PatternEntries /\ bytes <= PatternBytes
    /\ bytes = BytesOf(patterns)
=============================================================================
