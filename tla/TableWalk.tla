----------------------------- MODULE TableWalk ------------------------------
(***************************************************************************)
(* Traversals of a table by next or by a `pairs` loop, whose body assigns  *)
(* and clears fields, across which the host may save and load.  A loop     *)
(* site keeps one cursor for all its activations: the loop that is         *)
(* followed here shares it with others over the same table.                *)
(***************************************************************************)
EXTENDS Table

(***************************************************************************)
(* A table and one token that a cache holds for it: a SlotRef (the field,  *)
(* method and string-method caches) or a HashProbe (the global table's),   *)
(* minted for a key and used after any history of the table.               *)
(***************************************************************************)

VARIABLE held      \* [kind |-> "none" | "slot" | "probe", key, slot, probe]

tokenVars == <<program, t, phase, held>>

Nothing == [kind |-> "none"]

TokenInit == Init /\ held = Nothing

TableStep == Next /\ UNCHANGED held

(* find_slot: a lookup that found the key live *)
MintSlot ==
    /\ program.tokens /\ phase = Ready
    /\ \E k \in Keys : Get(t, k) # Nil /\ held' = [kind |-> "slot", key |-> k, slot |-> FindSlot(t, k)]
    /\ UNCHANGED <<program, t, phase>>

(* probe_hash: a lookup of a name, absent ones included *)
MintProbe ==
    /\ program.tokens /\ phase = Ready
    /\ \E k \in program.names : held' = [kind |-> "probe", key |-> k, probe |-> ProbeHash(t, k)]
    /\ UNCHANGED <<program, t, phase>>

(* A store through a slot that is current or can be renewed; a dead slot   *)
(* leaves it to the keyed path.                                            *)
Usable == t.version = held.slot.version \/ CanRenew(t, held.slot, held.key)

Renewed == [held EXCEPT !.slot.version = t.version]

SlotStore ==
    /\ phase = Ready /\ held.kind = "slot" /\ Usable
    /\ \E v \in program.vals, m \in Memories :
          LET stored == StoreSlot(t, held.slot, v)
          IN  t' = (IF stored.ok THEN stored.t ELSE Insert(t, held.key, v, m).t)
    /\ held' = IF t.version = held.slot.version THEN held ELSE Renewed
    /\ UNCHANGED <<program, phase>>

(* A global's store, on a table that revives in place *)
ProbeStore ==
    /\ phase = Ready /\ held.kind = "probe" /\ t.revive
    /\ \E v \in Values, m \in Memories :
          LET stored == StoreProbe(t, held.probe, v)
          IN  t' = (IF stored.ok THEN stored.t ELSE Insert(t, held.key, v, m).t)
    /\ UNCHANGED <<program, phase, held>>

TokenNext ==
    \/ TableStep
    \/ MintSlot
    \/ MintProbe
    \/ SlotStore /\ t'.version <= program.versions
    \/ ProbeStore /\ t'.version <= program.versions

TokenSpec == TokenInit /\ [][TokenNext]_tokenVars

-----------------------------------------------------------------------------
SlotAnswersForItsKey ==
    held.kind = "slot" =>
        /\ ReadSlot(t, held.slot).hit => ReadSlot(t, held.slot).val = Get(t, held.key)
        /\ CanRenew(t, held.slot, held.key) => ValueAt(t, held.slot.index) = Get(t, held.key)
        /\ \A v \in program.vals :
              LET stored == StoreSlot(t, held.slot, v)
              IN  Usable /\ stored.ok => Content(stored.t) = [Content(t) EXCEPT ![held.key] = v]

ProbeAnswersForItsKey ==
    held.kind = "probe" =>
        /\ ReadProbe(t, held.probe).hit => ReadProbe(t, held.probe).val = Get(t, held.key)
        /\ \A v \in Values :
              LET stored == StoreProbe(t, held.probe, v)
              IN  t.revive /\ stored.ok => Content(stored.t) = [Content(t) EXCEPT ![held.key] = v]

(* While the version stands still, no hash slot changes its key: slots are *)
(* only added at the end (check_shape_witness asserts it in debug builds). *)
SlotsKeepTheirKeys ==
    t'.version = t.version /\ phase = Ready =>
        \A i \in DOMAIN t.hash : i \in DOMAIN t'.hash /\ t'.hash[i].key = t.hash[i].key

(***************************************************************************)
(* A token answers only for its own key, whatever happened to the table    *)
(* since it was minted.  A slot that is current or renewed reads the key's *)
(* value, a probe that still answers gives the key's value, nil included,  *)
(* and a store through either writes that key and nothing else.  None of   *)
(* them reads the key again; the version and the slot count carry the      *)
(* whole argument, so no slot changes its key under one version.           *)
(***************************************************************************)
TokensAnswerForTheirKey ==
    [](SlotAnswersForItsKey /\ ProbeAnswersForItsKey) /\ [][SlotsKeepTheirKeys]_tokenVars
-----------------------------------------------------------------------------
VARIABLES
    walk,          \* [on, control, seen: keys yielded, owed: keys still to yield,
                   \*  failed, grown: a new key was assigned]
    cursor         \* the TforCursorEntry's index, or NoCursor

walkVars == <<program, t, phase, held, walk, cursor>>

NoCursor == [part |-> "none", at |-> 0]
AtRest == [on |-> FALSE, control |-> Nil, seen |-> {}, owed |-> {}, failed |-> FALSE, grown |-> FALSE]
LiveKeys(table) == {k \in Keys : Get(table, k) # Nil}

WalkInit == TokenInit /\ walk = AtRest /\ cursor = NoCursor

(* Between traversals, everything else happens to the table. *)
Outside == walk = AtRest /\ TokenNext /\ UNCHANGED <<walk, cursor>>

Start ==
    /\ program.walks /\ phase = Ready /\ walk = AtRest
    /\ walk' = [AtRest EXCEPT !.on = TRUE, !.owed = LiveKeys(t)]
    /\ UNCHANGED <<program, t, phase, held, cursor>>

(* instr_tfor_call_next: the cursor first, then the keyed walk *)
Step(table, index, control) ==
    LET hinted == NextFromMatchingIndex(table, index, control)
    IN  IF index # NoCursor /\ control # Nil /\ hinted # InvalidKey THEN hinted
        ELSE NextWithIndex(table, control)

Advance ==
    /\ walk.on
    /\ LET next == Step(t, cursor, walk.control)
       IN  /\ walk' = CASE next.kind = "pair" -> [walk EXCEPT !.control = next.key,
                                                              !.seen = @ \cup {next.key}]
                        [] next.kind = "end" -> [walk EXCEPT !.on = FALSE]
                        [] OTHER -> [walk EXCEPT !.on = FALSE, !.failed = TRUE]
           /\ cursor' = IF next.kind = "pair" THEN next.index ELSE cursor
    /\ UNCHANGED <<program, t, phase, held>>

(* Another activation of the loop site advances over the same table. *)
AdvanceElsewhere ==
    /\ walk.on
    /\ \E k \in LiveKeys(t) : cursor' = FindSlot(t, k).index
    /\ UNCHANGED <<program, t, phase, held, walk>>

(* The loop is left.  The cursor stays, but the first step of the next     *)
(* loop has no control key and overwrites it, so it is forgotten here.     *)
Leave ==
    /\ walk # AtRest
    /\ walk' = AtRest /\ cursor' = NoCursor
    /\ UNCHANGED <<program, t, phase, held>>

(* The body assigns, to fields that exist or, if the program grows the     *)
(* table as it walks, to any.                                              *)
Assign ==
    /\ walk.on
    /\ \E k \in IF program.grows THEN WrittenKeys ELSE LiveKeys(t), v \in Values, m \in Memories :
          /\ t' = Insert(t, k, v, m).t
          /\ walk' = [walk EXCEPT !.owed = IF v = Nil THEN @ \ {k} ELSE @,
                                  !.grown = @ \/ (v # Nil /\ Get(t, k) = Nil)]
          /\ t'.version <= program.versions
    /\ UNCHANGED <<program, phase, held, cursor>>

(* A program that keeps its control variable walks on in the loaded state, *)
(* whose caches are new.                                                   *)
Load ==
    /\ walk.on
    /\ t' = Restored(t) /\ t'.version <= program.versions
    /\ cursor' = NoCursor
    /\ UNCHANGED <<program, phase, held, walk>>

WalkNext == Outside \/ Start \/ Advance \/ AdvanceElsewhere \/ Leave \/ Assign \/ Load

WalkSpec == WalkInit /\ [][WalkNext]_walkVars

-----------------------------------------------------------------------------
(***************************************************************************)
(* A traversal that adds no key yields what Lua promises.  Nothing is      *)
(* yielded twice and no step fails: the control key, cleared or not, is    *)
(* never refused (next_with_index, next_from_matching_index).  One that    *)
(* ends has yielded every key that was there when it started and was not   *)
(* cleared before its turn.                                                *)
(***************************************************************************)
TraversalsAreComplete ==
    ~walk.grown =>
        /\ ~walk.failed
        /\ walk.on => LET next == Step(t, cursor, walk.control)
                      IN  next.kind = "pair" => next.key \notin walk.seen
        /\ ~walk.on => walk.owed \subseteq walk.seen

(***************************************************************************)
(* A loop gets from its site's cursor, which other activations moved and   *)
(* which the body's assignments may have left behind, the step that next   *)
(* gives: "what it returns and costs [...] never depend on which values    *)
(* the site saw before" (docs/determinism.md).                             *)
(***************************************************************************)
CursorsAreInvisible ==
    walk.on => Step(t, cursor, walk.control) = NextWithIndex(t, walk.control)
=============================================================================
