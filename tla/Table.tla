------------------------------- MODULE Table --------------------------------
(***************************************************************************)
(* One Lua table through its life: a constructor fills it, then programs   *)
(* write keys, insert and remove elements, sort, and the host saves and    *)
(* loads it.  Every operation may be refused by the allocator.             *)
(***************************************************************************)
EXTENDS TableOps, SequencesExt

CONSTANTS
    Vals,          \* the values programs store, Nil aside
    BatchSize,     \* MAX_TABLE_BATCH_SIZE
    Programs       \* the bounds of the programs

(***************************************************************************)
(* What a program does with the table: the names, the integer keys up to   *)
(* maxKey (in order, and the sparse ones at any time) and the values it    *)
(* stores; the longest list of one SET_LIST and range of one sort; the key *)
(* lists of its template constructors; the windows the allocator may stop  *)
(* at; the slot policies set on the table; the number of shape versions.   *)
(***************************************************************************)
ProgramFields == {"names", "maxKey", "sparse", "vals", "maxList", "maxSort",
                  "templates", "memories", "policies", "versions"}

ASSUME TableAssumption ==
    /\ BatchSize \in Nat \ {0} /\ Nil \notin Vals
    /\ \A p \in Programs :
          /\ ProgramFields \subseteq DOMAIN p
          /\ p.names \subseteq Names /\ p.vals \subseteq Vals /\ p.memories \subseteq Nat
          /\ {p.maxKey, p.maxList, p.maxSort, p.versions} \subseteq Nat
          /\ p.sparse \subseteq 1 .. p.maxKey /\ p.templates \subseteq Seq(p.names)

VARIABLES
    program,       \* the program of this behaviour
    t,             \* the table
    phase          \* [kind |-> "list" | "template" | "none", next |-> Nat]

vars == <<program, t, phase>>

Keys == program.names \cup 1 .. program.maxKey
Values == program.vals \cup {Nil}
Memories == program.memories
WrittenKeys == program.names \cup program.sparse \cup 1 .. Min({t.vlen + 1, program.maxKey})
Ready == [kind |-> "none", next |-> 0]

Init ==
    /\ program \in Programs
    /\ \/ \E map \in BOOLEAN : t = SizedTable(map) /\ phase = [kind |-> "list", next |-> 0]
       \/ \E keys \in program.templates :
             t = TemplateTable(keys) /\ phase = [kind |-> "template", next |-> 1]

-----------------------------------------------------------------------------
(* Construction: an error abandons the table, and the next one starts. *)
Construct(result, next) ==
    IF result.ok THEN t' = result.t /\ phase' = next
    ELSE t' = EmptyTable /\ phase' = [kind |-> "list", next |-> 0]

(* reg_init_field and reg_init_index *)
InitField ==
    /\ phase.kind = "list"
    /\ \E k \in WrittenKeys, v \in Values, m \in Memories : Construct(Insert(t, k, v, m), phase)

(* reg_init_field_pinned: the entries in order, once each *)
InitFieldPinned ==
    /\ phase.kind = "template"
    /\ phase.next <= Len(t.hash)
    /\ \E v \in Values, m \in Memories :
          LET k == t.hash[phase.next].key
              pinned == InitAtIndex(t, phase.next, k, v)
          IN  Construct(IF pinned.ok THEN pinned ELSE Insert(t, k, v, m),
                        [phase EXCEPT !.next = @ + 1])

ListLengths ==
    1 .. Max({0, Min({program.maxList, program.maxKey - BatchSize * phase.next})})

SetList(table, first, values, memory) ==
    ListResult(FoldLeft(LAMBDA acc, i : SetListFrom(acc, first, values, i, memory),
                        [ok |-> TRUE, t |-> table, done |-> FALSE, reserved |-> FALSE, mayMigrate |-> FALSE],
                        [i \in DOMAIN values |-> i]))

(* reg_set_list: full batches, then a last one of any length *)
SetListBatch ==
    /\ phase.kind = "list"
    /\ \E n \in ListLengths, m \in Memories :
       \E values \in [1 .. n -> Values] :
          Construct(SetList(t, BatchSize * phase.next + 1, values, m),
                    IF n = BatchSize THEN [phase EXCEPT !.next = @ + 1] ELSE Ready)

FinishConstructor ==
    /\ phase.kind = "list" \/ (phase.kind = "template" /\ phase.next > Len(t.hash))
    /\ phase' = Ready
    /\ UNCHANGED t

-----------------------------------------------------------------------------
(* An operation of a finished table; a refused one keeps what it left.     *)
Operate(result) == phase = Ready /\ t' = result.t /\ UNCHANGED phase

RawSet == \E k \in WrittenKeys, v \in Values, m \in Memories : Operate(Insert(t, k, v, m))

TableInsert ==
    \E v \in Values, m \in Memories : \E pos \in 1 .. ArrayLen(t) + 1 :
        ArrayLen(t) < program.maxKey /\ Operate(ArrayInsert(t, pos, v, m))

TableRemove ==
    \E m \in Memories : \E pos \in 1 .. ArrayLen(t) + 1 :
        pos <= program.maxKey /\ Operate(ArrayRemove(t, pos, m))

(* set_array: a sort writes its range back, key by key *)
SetArray(table, values, memory) ==
    FoldLeft(LAMBDA acc, k : IF acc.ok THEN Insert(acc.t, k, values[k], memory) ELSE acc,
             Done(table), [i \in DOMAIN values |-> i])

SortWriteBack ==
    \E n \in 1 .. program.maxSort, m \in Memories :
        \E values \in [1 .. n -> Values] : Operate(SetArray(t, values, m))

ChoosePolicy == \E p \in program.policies : Operate(Done(SetSlotPolicy(t, p.revive, p.retain)))

(* Save and load: the owner of a policy sets it again *)
Restored(table) ==
    IF table.revive \/ table.retain
    THEN SetSlotPolicy(Reloaded(table), table.revive, table.retain) ELSE Reloaded(table)

Reload == Operate(Done(Restored(t)))

Mutate == RawSet \/ TableInsert \/ TableRemove \/ SortWriteBack \/ ChoosePolicy \/ Reload

Next ==
    /\ InitField \/ InitFieldPinned \/ SetListBatch \/ FinishConstructor \/ Mutate
    /\ t'.version <= program.versions
    /\ UNCHANGED program

Spec == Init /\ [][Next]_vars

-----------------------------------------------------------------------------
TypeOK ==
    /\ program \in Programs
    /\ t.array \in Seq(Values) /\ t.vlen \in 0 .. MaxArrayLen
    /\ \A i \in DOMAIN t.hash : t.hash[i].key \in Keys \cup {Vacant} /\ t.hash[i].val \in Values
    /\ {t.cap, t.base, t.lead, t.live, t.dead} \subseteq Nat
    /\ phase.kind \in {"list", "template", "none"} /\ phase.next \in Nat

(***************************************************************************)
(* The fields of struct Table are well typed, and the counters and hints   *)
(* that the fast paths trust are exact after every operation, refused ones *)
(* included: the window lies inside the logical array, the hinted prefix   *)
(* is nil, live and dead counts are right, no key has two slots, and no    *)
(* live hash key belongs to the array or is the next one to append         *)
(* (debug_assert_invariants states it for debug builds).  The window lies  *)
(* in capacity that was reserved fallibly: no push, splice or resize grows *)
(* the vector infallibly, which could abort the process.                   *)
(***************************************************************************)
RepresentationIsExact ==
    /\ TypeOK
    /\ WindowEnd(t) <= t.vlen /\ t.lead <= Len(t.array)
    /\ \A i \in 1 .. t.lead : t.array[i] = Nil
    /\ t.live = CountLive(t.array)
    /\ t.dead = Cardinality({i \in DOMAIN t.hash : ~IsLive(t.hash[i])})
    /\ \A i \in DOMAIN t.hash :
          /\ IsLive(t.hash[i]) => t.hash[i].key \notin 1 .. t.vlen + 1 \cup {Vacant}
          /\ \A j \in 1 .. i - 1 : t.hash[i].key = t.hash[j].key => t.hash[i].key = Vacant
    /\ ~t.map => Len(t.hash) <= InlineCapacity
    /\ Len(t.array) <= t.cap

Ample == 4 * (MaxArrayLen + program.maxKey)

Logical(result) ==
    [ok |-> result.ok, vlen |-> result.t.vlen, hash |-> result.t.hash, map |-> result.t.map,
     array |-> [k \in 1 .. result.t.vlen |-> ArrayValue(result.t, k)]]

(***************************************************************************)
(* A loaded table continues as the saved one would have: whatever window   *)
(* and hint the history left, each next operation and each step of a       *)
(* traversal gives the same result on the canonical table that a load      *)
(* builds (snapshot_entries, rebuild_from_snapshot).                       *)
(***************************************************************************)
LoadedTableContinues ==
    phase = Ready =>
        LET r == Restored(t)
            n == ArrayLen(t)
        IN  /\ ArrayLen(r) = n
            /\ \A k \in Keys \cup {Nil} : NextWithIndex(t, k) = NextWithIndex(r, k)
            /\ \A v \in Values :
                  /\ \A k \in Keys : Logical(Insert(t, k, v, Ample)) = Logical(Insert(r, k, v, Ample))
                  /\ \A pos \in 1 .. n + 1 :
                        Logical(ArrayInsert(t, pos, v, Ample)) = Logical(ArrayInsert(r, pos, v, Ample))
            /\ \A pos \in 1 .. n + 1 :
                  Logical(ArrayRemove(t, pos, Ample)) = Logical(ArrayRemove(r, pos, Ample))

-----------------------------------------------------------------------------
(* What the Lua manual promises of a table: a function from keys to        *)
(* values, whose sequence operations shift the elements up to a border.    *)
(* Each operator gives the content after one operation.                    *)
IsBorder(c, n) == (n = 0 \/ c[n] # Nil) /\ (n + 1 \in Keys => c[n + 1] = Nil)

Assigned(c, k, v) == [c EXCEPT ![k] = v]

InsertedAt(c, border, pos, v) ==
    [k \in Keys |-> IF k \notin pos .. border + 1 THEN c[k] ELSE IF k = pos THEN v ELSE c[k - 1]]

RemovedAt(c, border, pos) ==
    IF pos > border THEN Assigned(c, pos, Nil)
    ELSE [k \in Keys |-> IF k \notin pos .. border THEN c[k] ELSE IF k = border THEN Nil ELSE c[k + 1]]

(* the first n of the values, stored from key `first` on *)
Filled(c, first, values, n) ==
    [k \in Keys |-> IF k \in first .. first + n - 1 THEN values[k - first + 1] ELSE c[k]]
-----------------------------------------------------------------------------
Content(table) == [k \in Keys |-> Get(table, k)]

Means(result, content) == Content(result.t) = (IF result.ok THEN content ELSE Content(t))

Fills(result, content) == result.ok => Content(result.t) = content

(***************************************************************************)
(* The windowed array, the migrating hash part and the tombstones together *)
(* mean a plain map from keys to values: each operation that succeeds has  *)
(* exactly the effect it has on the content, and one the allocator or the  *)
(* length limit refuses changes no key.  A                                 *)
(* constructor's list lands on its keys, whatever fields came before it.   *)
(***************************************************************************)
OperationsMeanWhatLuaSays ==
    LET c == Content(t)
        n == ArrayLen(t)
    IN  /\ IsBorder(c, n)
        /\ \A m \in Memories, v \in Values :
              /\ \A k \in Keys : Means(Insert(t, k, v, m), Assigned(c, k, v))
              /\ n < program.maxKey => \A pos \in 1 .. n + 1 :
                    Means(ArrayInsert(t, pos, v, m), InsertedAt(c, n, pos, v))
        /\ \A m \in Memories : \A pos \in 1 .. Min({n + 1, program.maxKey}) :
              Means(ArrayRemove(t, pos, m), RemovedAt(c, n, pos))
        /\ phase.kind = "list" =>
              \A len \in ListLengths, m \in Memories : \A values \in [1 .. len -> Values] :
                  Fills(SetList(t, BatchSize * phase.next + 1, values, m),
                        Filled(c, BatchSize * phase.next + 1, values, len))
=============================================================================
