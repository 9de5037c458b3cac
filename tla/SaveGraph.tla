----------------------------- MODULE SaveGraph ------------------------------
(***************************************************************************)
(* Saving a State and loading it into a new one (src/vm/save_state.rs,     *)
(* src/vm/save_state/verify.rs): the object graph behind the global and    *)
(* library tables, renumbered, written, read, verified and rebuilt, with   *)
(* the %p identities of its values.                                        *)
(*                                                                         *)
(* A graph is a record: `node` the objects by slot, `upval` the closed     *)
(* upvalues, `code` the chunks, `pids` the identities and `nextPid` their  *)
(* counter, `anchored` what the host's anchors root, `registered` the host *)
(* functions with a save id and `meters` the RNG and cost counters.  Slots *)
(* 1 and 2 are the global table and the library table.  Strings are        *)
(* interned, so a string is its text.  A table is its slots in order; the  *)
(* array part and compaction are Table's, pins and sealing GlobalEnv's.    *)
(***************************************************************************)
EXTENDS Integers, Sequences, SequencesExt, FiniteSets, FiniteSetsExt

(***************************************************************************)
(* The snapshot codec (src/vm/save_state.rs, Encoder and Decoder).  A file *)
(* is the sequence of its primitive fields: what one write_* call appends  *)
(* and one read_* call takes, <<width, value>>.  The bytes of a field are  *)
(* abstracted: a read finds a field of its width or fails.                 *)
(*                                                                         *)
(* Saved values are tuples that begin with their variant: <<"nil">>,       *)
(* <<"bool", b>>, <<"num", bits>>, <<"str", i>>, <<"obj", i>>,             *)
(* <<"fn", id>> and <<"env", token>>.                                      *)
(***************************************************************************)

CONSTANT Header      \* magic, FORMAT_VERSION and COST_MODEL_VERSION: u16 fields

-----------------------------------------------------------------------------
(* Encoder *)
Put(width, x) == << <<width, x>> >>

WriteVec(items, Item(_)) ==
    Put("u32", Len(items)) \o FlattenSeq([i \in DOMAIN items |-> Item(items[i])])

WriteId(i) == Put("u32", i)
WriteBytes(x) == Put("bytes", x)
WriteBool(b) == Put("u8", IF b THEN 1 ELSE 0)

(* The variants with contents: tag and width *)
Variants == [num |-> <<3, "u64">>, str |-> <<4, "u32">>, obj |-> <<5, "u32">>,
             fn |-> <<6, "bytes">>, env |-> <<7, "bytes">>]

WriteVal(v) ==
    CASE v[1] = "nil" -> Put("u8", 0)
      [] v[1] = "bool" -> Put("u8", IF v[2] THEN 2 ELSE 1)
      [] OTHER -> Put("u8", Variants[v[1]][1]) \o Put(Variants[v[1]][2], v[2])

WriteEntry(e) == WriteVal(e[1]) \o WriteVal(e[2])

WriteObjectWithoutFlag(o) ==
    IF o.kind = "table"
    THEN Put("u8", 0) \o WriteVec(o.entries, WriteEntry) \o WriteVal(o.meta)
    ELSE Put("u8", 1) \o WriteId(o.chunk) \o WriteVec(o.ups, WriteId)

WriteObject(o) ==
    IF o.kind = "table"
    THEN Put("u8", 0) \o WriteVec(o.entries, WriteEntry)
           \o (IF o.meta = <<"nil">> THEN WriteBool(FALSE) ELSE WriteBool(TRUE) \o WriteVal(o.meta))
    ELSE Put("u8", 1) \o WriteId(o.chunk) \o WriteVec(o.ups, WriteId)

WriteChunk(c) == WriteBytes(c.proto) \o WriteVec(c.lits, WriteBytes) \o WriteVec(c.nested, WriteId)

WriteEnv(e) == WriteBytes(e.token) \o WriteObject(e.table)

WritePointerId(p) == WriteVal(p.val) \o Put("u64", p.id)

Encode(p) ==
    Header \o Put("u64", p.meters)
      \o WriteVec(p.strings, WriteBytes) \o WriteVec(p.chunks, WriteChunk)
      \o WriteVec(p.ups, WriteVal) \o WriteVec(p.objects, WriteObject)
      \o WriteObject(p.globals) \o WriteVec(p.envs, WriteEnv)
      \o Put("u64", p.next) \o WriteVec(p.ids, WritePointerId)

-----------------------------------------------------------------------------
(***************************************************************************)
(* Decoder: the fields left, the values read and the reads to do, next     *)
(* first.  A read is a field's width, a vector <<"vec", item>>, a choice   *)
(* by tag or a record, whose parts are read in order and then built.       *)
(***************************************************************************)
Records ==
    [entry |-> << <<"val">>, <<"val">> >>,
     table |-> << <<"vec", "entry">>, <<"meta">> >>,
     closure |-> << <<"u32">>, <<"vec", "u32">> >>,
     chunk |-> << <<"bytes">>, <<"vec", "bytes">>, <<"vec", "u32">> >>,
     env |-> << <<"bytes">>, <<"object">> >>,
     pid |-> << <<"val">>, <<"u64">> >>,
     payload |-> << <<"u64">>, <<"vec", "bytes">>, <<"vec", "chunk">>, <<"vec", "val">>,
                    <<"vec", "object">>, <<"object">>, <<"vec", "env">>, <<"u64">>, <<"vec", "pid">> >>]

Built(record, p) ==
    CASE record = "entry" -> p
      [] record = "table" -> [kind |-> "table", entries |-> p[1], meta |-> p[2]]
      [] record = "closure" -> [kind |-> "closure", chunk |-> p[1], ups |-> p[2]]
      [] record = "chunk" -> [proto |-> p[1], lits |-> p[2], nested |-> p[3]]
      [] record = "env" -> [token |-> p[1], table |-> p[2]]
      [] record = "pid" -> [val |-> p[1], id |-> p[2]]
      [] record = "payload" ->
            [meters |-> p[1], strings |-> p[2], chunks |-> p[3], ups |-> p[4], objects |-> p[5],
             globals |-> p[6], envs |-> p[7], next |-> p[8], ids |-> p[9]]

Widths == {"u8", "u32", "u64", "bytes"}

Do(in, reads) == [in EXCEPT !.todo = reads \o Tail(@)]

(* The last n values read become one *)
Folded(in, n, x) ==
    [in EXCEPT !.got = Append(SubSeq(@, 1, Len(@) - n), x), !.todo = Tail(@)]

LastRead(in, n) == SubSeq(in.got, Len(in.got) - n + 1, Len(in.got))

VariantOf(tag) == CHOOSE v \in DOMAIN Variants : Variants[v][1] = tag

(* After a tag: what it announces *)
Tagged(in, tag) ==
    CASE Head(in.todo)[2] = "object" -> Do(in, << <<IF tag = 0 THEN "table" ELSE "closure">> >>)
      [] Head(in.todo)[2] = "meta" -> IF tag = 0 THEN Folded(in, 0, <<"nil">>) ELSE Do(in, << <<"val">> >>)
      [] tag = 0 -> Folded(in, 0, <<"nil">>)
      [] tag \in {1, 2} -> Folded(in, 0, <<"bool", tag = 2>>)
      [] OTHER -> Do(in, << <<Variants[VariantOf(tag)][2]>>, <<"variant", VariantOf(tag)>> >>)

Broken == [ok |-> FALSE, rest |-> <<>>, got |-> <<>>, todo |-> <<>>]

ReadStep(in, read) ==
    CASE read[1] \in Widths ->
            IF in.rest = <<>> \/ Head(in.rest)[1] # read[1] THEN Broken
            ELSE [Folded(in, 0, Head(in.rest)[2]) EXCEPT !.rest = Tail(@)]
      [] read[1] = "vec" -> Do(in, << <<"u32">>, <<"items", read[2]>> >>)
      [] read[1] = "items" ->
            Do([in EXCEPT !.got = Front(@)],
               [i \in 1 .. Last(in.got) |-> <<read[2]>>] \o << <<"list", Last(in.got)>> >>)
      [] read[1] = "list" -> Folded(in, read[2], LastRead(in, read[2]))
      [] read[1] \in {"val", "object", "meta"} -> Do(in, << <<"u8">>, <<"tagged", read[1]>> >>)
      [] read[1] = "tagged" -> Tagged([in EXCEPT !.got = Front(@)], Last(in.got))
      [] read[1] = "variant" -> Folded(in, 1, <<read[2], Last(in.got)>>)
      [] read[1] \in DOMAIN Records -> Do(in, Records[read[1]] \o << <<"build", read[1]>> >>)
      [] read[1] = "build" ->
            Folded(in, Len(Records[read[2]]), Built(read[2], LastRead(in, Len(Records[read[2]]))))

(* Up to 2^n reads, halved so that long files are no deep recursion *)
RECURSIVE Reads(_, _)
Reads(in, n) ==
    IF in.todo = <<>> THEN in
    ELSE IF n = 0 THEN ReadStep(in, Head(in.todo))
    ELSE CHOOSE end \in {Reads(half, n - 1) : half \in {Reads(in, n - 1)}} : TRUE

RECURSIVE ReadAll(_)
ReadAll(in) == IF in.todo = <<>> THEN in ELSE ReadAll(Reads(in, 8))

(* load_state up to verification: header, payload, and nothing after it *)
DecodedFile(in) ==
    IF in.ok /\ in.rest = <<>> THEN [ok |-> TRUE, payload |-> in.got[1]] ELSE [ok |-> FALSE]

Decode(file) ==
    IF ~IsPrefix(Header, file) THEN [ok |-> FALSE]
    ELSE DecodedFile(ReadAll([ok |-> TRUE, rest |-> SubSeq(file, Len(Header) + 1, Len(file)),
                              got |-> <<>>, todo |-> << <<"payload">> >>]))
-----------------------------------------------------------------------------
CONSTANTS
    ObjectSlots,   \* 1 .. n
    MetaNames,     \* strings a State interns at creation
    MaxPointerId,  \* bound of the identity counter (u64::MAX)
    FirstCode,     \* the chunks a host compiles
    FirstNodes,    \* the global and library tables open_libs makes
    Registries,    \* the sets of functions hosts register
    Scripts, Setups, Sequels,  \* what runs first, in a load's setup, and after a load
    MaxLoads,
    NoObject, NoFile

VARIABLES
    graph,         \* the State
    life,          \* "running", "saved" (it will not run again), "setup", or "none"
    script,        \* the operations still to run
    loads,
    file,          \* the last save
    origin,        \* the graph it was taken from
    refused        \* why the last save was refused: a path, or <<>>

graphVars == <<graph, life, script, loads, file, origin, refused>>

NilVal == <<"nil">>
Str(t) == <<"str", t>>
Obj(s) == <<"obj", s>>
IsObj(v) == v[1] = "obj"

Tokens == <<"_G", "math">>
IsEnv(s) == s \in DOMAIN Tokens

Pos(seq, x) == CHOOSE i \in DOMAIN seq : seq[i] = x
Added(seq, x) == IF Contains(seq, x) THEN seq ELSE Append(seq, x)
Unused(g) == {s \in ObjectSlots : g.node[s] = NoObject}

Fresh(registry) ==
    [node |-> [s \in ObjectSlots |-> IF IsEnv(s) THEN FirstNodes[s] ELSE NoObject],
     upval |-> <<>>, code |-> FirstCode, pids |-> {}, nextPid |-> 1,
     anchored |-> {}, registered |-> registry, meters |-> 0]

-----------------------------------------------------------------------------
(* What scripts and hosts do *)
Table(entries, meta) == [kind |-> "table", entries |-> entries, meta |-> meta]

SlotsOf(g, s, k) == {i \in DOMAIN g.node[s].entries : g.node[s].entries[i][1] = k}

GetField(g, s, k) ==
    IF SlotsOf(g, s, k) = {} THEN NilVal ELSE g.node[s].entries[Min(SlotsOf(g, s, k))][2]

(* A key with a slot is stored to, nil included; a new key takes a slot *)
SetField(g, s, k, v) ==
    IF SlotsOf(g, s, k) # {} THEN [g EXCEPT !.node[s].entries[Min(SlotsOf(g, s, k))][2] = v]
    ELSE IF v = NilVal THEN g
    ELSE [g EXCEPT !.node[s].entries = Append(@, <<k, v>>)]

(* A source is a value or names a global *)
Value(g, src) == IF src[1] = "global" THEN GetField(g, 1, Str(src[2])) ELSE src

IsKind(g, v, kind) == IsObj(v) /\ g.node[v[2]].kind = kind

Allocated(g, object) ==
    LET s == Min(Unused(g)) IN [val |-> Obj(s), g |-> [g EXCEPT !.node[s] = object]]

(* Makers: a table, a closure over a new cell, another over the same cells *)
Made(g, src) ==
    CASE src[1] = "table" -> Allocated(g, Table(<<>>, NilVal))
      [] src[1] = "closure" ->
            Allocated([g EXCEPT !.upval = Append(@, Value(g, src[3]))],
                      [kind |-> "closure", chunk |-> src[2], ups |-> <<Len(g.upval) + 1>>])
      [] src[1] = "sibling" -> Allocated(g, g.node[Value(g, src[2])[2]])
      [] OTHER -> [val |-> Value(g, src), g |-> g]

CanMake(g, src) ==
    /\ src[1] \in {"table", "closure", "sibling"} => Unused(g) # {}
    /\ src[1] = "sibling" => IsKind(g, Value(g, src[2]), "closure")

HasPointerId(v) == v[1] \in {"obj", "str", "fn"}
Identified(g, v) == \E p \in g.pids : p.val = v

CanDo(g, op) ==
    CASE op.op = "store" -> /\ IsKind(g, Value(g, op.on), "table") /\ Value(g, op.key) # NilVal
                            /\ CanMake(g, op.src)
      [] op.op = "meta" -> /\ IsKind(g, Value(g, op.on), "table")
                           /\ IsKind(g, Value(g, op.src), "table")
      [] op.op = "assign" -> IsKind(g, Value(g, op.on), "closure")
      [] op.op = "anchor" -> IsObj(Value(g, op.src))
      [] op.op = "render" -> /\ HasPointerId(Value(g, op.src)) /\ ~Identified(g, Value(g, op.src))
                             /\ g.nextPid < MaxPointerId
      [] OTHER -> TRUE

After(g, op) ==
    CASE op.op = "store" ->
            LET on == Value(g, op.on)[2]
                key == Value(g, op.key)
                made == Made(g, op.src)
            IN  SetField(made.g, on, key, made.val)
      [] op.op = "meta" -> [g EXCEPT !.node[Value(g, op.on)[2]].meta = Value(g, op.src)]
      [] op.op = "assign" ->
            [g EXCEPT !.upval[g.node[Value(g, op.on)[2]].ups[1]] = Value(g, op.src)]
      [] op.op = "anchor" -> [g EXCEPT !.anchored = @ \cup {Value(g, op.src)[2]}]
      [] op.op = "render" ->
            [g EXCEPT !.pids = @ \cup {[val |-> Value(g, op.src), id |-> g.nextPid]},
                      !.nextPid = @ + 1]
      [] OTHER -> [g EXCEPT !.meters = @ + 1]

(* One operation; one that raises an error changes nothing *)
Operate ==
    /\ life \in {"running", "setup"} /\ script # <<>>
    /\ graph' = IF CanDo(graph, Head(script)) THEN After(graph, Head(script)) ELSE graph
    /\ script' = Tail(script)
    /\ UNCHANGED <<life, loads, file, origin, refused>>

-----------------------------------------------------------------------------
(* Collection *)
Inside(g, s) ==
    IF g.node[s].kind = "table"
    THEN UNION {{e[1], e[2]} : e \in Range(g.node[s].entries)} \cup {g.node[s].meta}
    ELSE {g.upval[c] : c \in Range(g.node[s].ups)}

RECURSIVE Reached(_, _)
Reached(g, slots) ==
    LET more == slots \cup {v[2] : v \in {x \in UNION {Inside(g, s) : s \in slots} : IsObj(x)}}
    IN  IF more = slots THEN slots ELSE Reached(g, more)

LiteralsOf(g, s) == IF g.node[s].kind = "closure" THEN Range(g.code[g.node[s].chunk].lits) ELSE {}

Roots(g) == DOMAIN Tokens \cup g.anchored

(* val_is_live after a collection from the roots: a function always is *)
IsAlive(g, v) ==
    LET slots == Reached(g, Roots(g))
    IN  CASE IsObj(v) -> v[2] \in slots
          [] v[1] = "str" -> \/ v[2] \in Range(MetaNames)
                             \/ \E s \in slots : v \in Inside(g, s) \/ v[2] \in LiteralsOf(g, s)
          [] OTHER -> TRUE

Collected(g) ==
    [g EXCEPT !.node = [s \in ObjectSlots |-> IF s \in Reached(g, Roots(g)) THEN @[s] ELSE NoObject],
              !.pids = {p \in @ : IsAlive(g, p.val)}]

CollectGraph ==
    /\ life \in {"running", "setup"}
    /\ graph' = Collected(graph)
    /\ UNCHANGED <<life, script, loads, file, origin, refused>>

-----------------------------------------------------------------------------
(***************************************************************************)
(* The save walk.  Arena ids are positions, given at first encounter: the  *)
(* walk keeps the strings, chunks, upvalues and objects met so far, the    *)
(* pointer values reached and the work to do, next first.                  *)
(***************************************************************************)
NoWalk == [strings |-> <<>>, chunks |-> <<>>, ups |-> <<>>, objects |-> <<>>,
           reached |-> {Obj(s) : s \in DOMAIN Tokens}, todo |-> <<>>, stopped |-> <<>>]

(* encode_bytecode: a chunk before the chunks nested in it, each once *)
RECURSIVE WithChunk(_, _, _)
WithChunk(g, seen, c) ==
    IF Contains(seen, c) THEN seen
    ELSE FoldLeft(LAMBDA met, child : WithChunk(g, met, child), Append(seen, c), g.code[c].nested)

TableParts(t) == FlattenSeq(t.entries) \o (IF t.meta = NilVal THEN <<>> ELSE <<t.meta>>)

(* expand_object *)
Expanded(g, w, s, rest) ==
    LET o == g.node[s]
    IN  IF o.kind = "table" THEN [w EXCEPT !.todo = TableParts(o) \o rest]
        ELSE [w EXCEPT !.chunks = WithChunk(g, @, o.chunk),
                       !.todo = [i \in DOMAIN o.ups |-> <<"cell", o.ups[i]>>] \o rest]

(* run_tasks, one task; a function without a save id stops the save *)
WalkStep(g, w) ==
    LET task == Head(w.todo)
        rest == Tail(w.todo)
        noted == [w EXCEPT !.reached = @ \cup {task}, !.todo = rest]
    IN  CASE task[1] = "expand" -> Expanded(g, w, task[2], rest)
          [] task[1] = "cell" ->
                IF Contains(w.ups, task[2]) THEN [w EXCEPT !.todo = rest]
                ELSE [w EXCEPT !.ups = Append(@, task[2]), !.todo = <<g.upval[task[2]]>> \o rest]
          [] task[1] = "str" -> [noted EXCEPT !.strings = Added(@, task[2])]
          [] task[1] = "fn" -> IF task[2] \in g.registered THEN noted
                               ELSE [w EXCEPT !.stopped = task, !.todo = <<>>]
          [] task[1] = "obj" ->
                IF IsEnv(task[2]) \/ Contains(w.objects, task[2]) THEN noted
                ELSE [noted EXCEPT !.objects = Append(@, task[2]),
                                   !.todo = << <<"expand", task[2]>> >> \o rest]
          [] OTHER -> [w EXCEPT !.todo = rest]

RECURSIVE Walked(_, _)
Walked(g, w) == IF w.todo = <<>> THEN w ELSE Walked(g, WalkStep(g, w))

-----------------------------------------------------------------------------
(***************************************************************************)
(* PathFinder: from the root the walk was in, to the function that stopped *)
(* it, now through environment tables too.  A path is the table of the     *)
(* root and the positions of the parts to follow.                          *)
(***************************************************************************)
PartsOf(g, s) ==
    IF g.node[s].kind = "table" THEN TableParts(g.node[s])
    ELSE [i \in DOMAIN g.node[s].ups |-> <<"cell", g.node[s].ups[i]>>]

NoPath == <<0>>

RECURSIVE FindPath(_, _, _, _)
FindPath(g, function, todo, seen) ==
    IF todo = <<>> THEN NoPath
    ELSE LET task == Head(todo)
             rest == Tail(todo)
         IN  IF task.val = function THEN task.path
             ELSE IF task.val \in seen \/ task.val[1] \notin {"obj", "cell"}
             THEN FindPath(g, function, rest, seen)
             ELSE IF task.val[1] = "cell"
             THEN FindPath(g, function, <<[val |-> g.upval[task.val[2]], path |-> task.path]>> \o rest,
                           seen \cup {task.val})
             ELSE LET parts == PartsOf(g, task.val[2])
                  IN  FindPath(g, function,
                               [i \in DOMAIN parts |-> [val |-> parts[i], path |-> Append(task.path, i)]] \o rest,
                               seen \cup {task.val})

RootParts(g) ==
    FlattenSeq([s \in DOMAIN Tokens |->
        [i \in DOMAIN TableParts(g.node[s]) |-> [val |-> TableParts(g.node[s])[i], path |-> <<s, i>>]]])

(* encode_globals and encode_env_tables: root by root, until one is refused *)
WalkedRoot(g, w, root) ==
    IF w.stopped # <<>> THEN w
    ELSE LET next == Walked(g, [w EXCEPT !.todo = <<root.val>>])
         IN  IF next.stopped = <<>> THEN next
             ELSE [next EXCEPT !.stopped = FindPath(g, next.stopped, <<root>>, {})]

(* Strings that stay observable without being reached keep their identity *)
IdentityStrings(g, w) ==
    MetaNames \o FlattenSeq([i \in DOMAIN w.chunks |-> g.code[w.chunks[i]].lits])

WithIdentityStrings(g, w) ==
    FoldLeft(LAMBDA v, t : IF ~Identified(g, Str(t)) THEN v
                           ELSE [v EXCEPT !.strings = Added(@, t), !.reached = @ \cup {Str(t)}],
             w, IdentityStrings(g, w))

SaveWalk(g) ==
    WithIdentityStrings(g, FoldLeft(LAMBDA w, root : WalkedRoot(g, w, root), NoWalk, RootParts(g)))

-----------------------------------------------------------------------------
(* The payload, every reference renumbered *)
NaNs == {"nan+", "nan-"}
SavedBits(d) == IF d \in NaNs THEN "nan+" ELSE d

SavedVal(w, v) ==
    CASE v[1] = "str" -> <<"str", Pos(w.strings, v[2])>>
      [] v[1] = "obj" -> IF IsEnv(v[2]) THEN <<"env", Tokens[v[2]]>> ELSE <<"obj", Pos(w.objects, v[2])>>
      [] v[1] = "num" -> <<"num", SavedBits(v[2])>>
      [] OTHER -> v

SavedTable(w, t) ==
    Table([i \in DOMAIN t.entries |-> <<SavedVal(w, t.entries[i][1]), SavedVal(w, t.entries[i][2])>>],
          SavedVal(w, t.meta))

SavedObject(w, o) ==
    IF o.kind = "table" THEN SavedTable(w, o)
    ELSE [kind |-> "closure", chunk |-> Pos(w.chunks, o.chunk),
          ups |-> [i \in DOMAIN o.ups |-> Pos(w.ups, o.ups[i])]]

SavedChunk(g, w, c) ==
    [g.code[c] EXCEPT !.nested = [i \in DOMAIN @ |-> Pos(w.chunks, @[i])]]

(* An unreached heap value loses its identity, a registered function never *)
KeptPids(g, w) ==
    {p \in g.pids : IF p.val[1] = "fn" THEN p.val[2] \in g.registered ELSE p.val \in w.reached}

SavedPids(g, w) ==
    SetToSortSeq({[val |-> SavedVal(w, p.val), id |-> p.id] : p \in KeptPids(g, w)},
                 LAMBDA p, q : p.id < q.id)

Payload(g, w) ==
    [meters |-> g.meters,
     strings |-> w.strings,
     chunks |-> [i \in DOMAIN w.chunks |-> SavedChunk(g, w, w.chunks[i])],
     ups |-> [i \in DOMAIN w.ups |-> SavedVal(w, g.upval[w.ups[i]])],
     objects |-> [i \in DOMAIN w.objects |-> SavedObject(w, g.node[w.objects[i]])],
     globals |-> SavedTable(w, g.node[1]),
     envs |-> << [token |-> Tokens[2], table |-> SavedTable(w, g.node[2])] >>,
     next |-> g.nextPid,
     ids |-> SavedPids(g, w)]

SaveState ==
    /\ life = "running"
    /\ LET w == SaveWalk(graph)
       IN  IF w.stopped # <<>>
           THEN refused' = w.stopped /\ UNCHANGED <<life, file, origin>>
           ELSE /\ file' = Encode(Payload(graph, w)) /\ origin' = graph
                /\ life' = "saved" /\ refused' = <<>>
    /\ UNCHANGED <<graph, script, loads>>

-----------------------------------------------------------------------------
(* verify_payload: what a load accepts *)
InRange(p, v) ==
    CASE v[1] = "str" -> v[2] \in DOMAIN p.strings
      [] v[1] = "obj" -> v[2] \in DOMAIN p.objects
      [] OTHER -> TRUE

(* Keys are told apart by content: equal strings with two ids are one key *)
KeyOf(p, v) == IF v[1] = "str" THEN <<"str", p.strings[v[2]]>> ELSE v

ValidMeta(p, v) ==
    \/ v = NilVal \/ v[1] = "env"
    \/ v[1] = "obj" /\ v[2] \in DOMAIN p.objects /\ p.objects[v[2]].kind = "table"

ValidTable(p, t) ==
    /\ \A i \in DOMAIN t.entries :
          /\ InRange(p, t.entries[i][1]) /\ InRange(p, t.entries[i][2])
          /\ t.entries[i][1] # NilVal
    /\ IsInjective([i \in DOMAIN t.entries |-> KeyOf(p, t.entries[i][1])])
    /\ ValidMeta(p, t.meta)

ValidClosure(p, o) == o.chunk \in DOMAIN p.chunks /\ \A i \in DOMAIN o.ups : o.ups[i] \in DOMAIN p.ups

RECURSIVE NestedIn(_, _)
NestedIn(p, chunks) ==
    LET more == chunks \cup UNION {Range(p.chunks[c].nested) : c \in chunks}
    IN  IF more = chunks THEN chunks ELSE NestedIn(p, more)

ValidNesting(p) ==
    /\ \A c \in DOMAIN p.chunks : Range(p.chunks[c].nested) \subseteq DOMAIN p.chunks
    /\ \A c \in DOMAIN p.chunks : c \notin NestedIn(p, Range(p.chunks[c].nested))

ValidPids(p) ==
    /\ \A i \in DOMAIN p.ids : /\ p.ids[i].val[1] \in {"obj", "env", "str", "fn"}
                               /\ InRange(p, p.ids[i].val) /\ p.ids[i].id < p.next
    /\ IsInjective([i \in DOMAIN p.ids |-> p.ids[i].id])
    /\ IsInjective([i \in DOMAIN p.ids |-> KeyOf(p, p.ids[i].val)])

Verified(p) ==
    /\ ValidNesting(p)
    /\ \A i \in DOMAIN p.ups : InRange(p, p.ups[i])
    /\ \A i \in DOMAIN p.objects :
          IF p.objects[i].kind = "table" THEN ValidTable(p, p.objects[i]) ELSE ValidClosure(p, p.objects[i])
    /\ p.globals.kind = "table" /\ ValidTable(p, p.globals)
    /\ \A i \in DOMAIN p.envs : p.envs[i].table.kind = "table" /\ ValidTable(p, p.envs[i].table)
    /\ IsInjective([i \in DOMAIN p.envs |-> p.envs[i].token])
    /\ ValidPids(p)

(* Where files are cut short *)
Cuts(f) == {Len(f) \div 2, Len(f) - 1}

(* load_state, of a file or of one cut short: the host's setup runs in a *)
(* new State once the payload is verified.                               *)
BeginGraphLoad ==
    /\ file # NoFile /\ loads < MaxLoads /\ life \in {"saved", "none"}
    /\ \E n \in {Len(file)} \cup Cuts(file) :
          LET read == Decode(SubSeq(file, 1, n))
          IN  IF read.ok /\ Verified(read.payload)
              THEN /\ life' = "setup" /\ script' \in Setups
                   /\ \E registry \in Registries : graph' = Fresh(registry)
              ELSE life' = "none" /\ script' = <<>> /\ graph' = Fresh({})
    /\ UNCHANGED <<loads, file, origin, refused>>

-----------------------------------------------------------------------------
(***************************************************************************)
(* materialize_payload over setup's graph g.  Every object gets a slot     *)
(* before any is filled, and nothing is collected before the tables of the *)
(* environment hold the graph.                                             *)
(***************************************************************************)
NewSlots(g, n) == SubSeq(SetToSortSeq(Unused(g), LAMBDA s, t : s < t), 1, n)

Decoded(p, new, v) ==
    CASE v[1] = "str" -> <<"str", p.strings[v[2]]>>
      [] v[1] = "obj" -> Obj(new[v[2]])
      [] v[1] = "env" -> Obj(Pos(Tokens, v[2]))
      [] OTHER -> v

DecodedTable(p, new, t) ==
    Table([i \in DOMAIN t.entries |-> <<Decoded(p, new, t.entries[i][1]), Decoded(p, new, t.entries[i][2])>>],
          Decoded(p, new, t.meta))

DecodedObject(g, p, new, o) ==
    IF o.kind = "table" THEN DecodedTable(p, new, o)
    ELSE [kind |-> "closure", chunk |-> Len(g.code) + o.chunk,
          ups |-> [i \in DOMAIN o.ups |-> Len(g.upval) + o.ups[i]]]

(* restore_environment_table: setup adds the string keys the save lacks *)
Restored(p, new, setup, saved) ==
    LET t == DecodedTable(p, new, saved)
        mentioned == {e[1] : e \in Range(t.entries)}
    IN  [t EXCEPT !.entries = @ \o SelectSeq(setup.entries,
                                   LAMBDA e : e[1][1] = "str" /\ e[1] \notin mentioned)]

DecodedCode(g, p) ==
    [i \in DOMAIN p.chunks |->
        [p.chunks[i] EXCEPT !.nested = [j \in DOMAIN @ |-> Len(g.code) + @[j]]]]

Filled(g, p, new) ==
    [g EXCEPT
        !.node = [s \in ObjectSlots |->
            IF s = 1 THEN Restored(p, new, @[1], p.globals)
            ELSE IF s = 2 THEN Restored(p, new, @[2], p.envs[1].table)
            ELSE IF Contains(new, s) THEN DecodedObject(g, p, new, p.objects[Pos(new, s)])
            ELSE @[s]],
        !.upval = @ \o [i \in DOMAIN p.ups |-> Decoded(p, new, p.ups[i])],
        !.code = @ \o DecodedCode(g, p),
        !.meters = p.meters, !.nextPid = p.next]

(* A saved identity of a function no longer registered is retired *)
InstalledPids(g, p, new) ==
    {[val |-> Decoded(p, new, x.val), id |-> x.id] :
        x \in {y \in Range(p.ids) : y.val[1] = "fn" => y.val[2] \in g.registered}}

(* merge_setup_pointer_ids: ids the save does not use are kept, then the *)
(* other values get new ones, in the order setup rendered them.          *)
Rekeyed(g, p) ==
    IF g.nextPid < MaxPointerId
    THEN [g EXCEPT !.pids = @ \cup {[val |-> p.val, id |-> g.nextPid]}, !.nextPid = @ + 1]
    ELSE g

MergedPidsKeepingAll(g, setupPids, savedIds) ==
    LET live == {p \in setupPids : ~Identified(g, p.val) /\ IsAlive(g, p.val)}
    IN  [g EXCEPT !.pids = @ \cup live, !.nextPid = Max({p.id + 1 : p \in live} \cup {@})]

MergedPids(g, setupPids, savedIds) ==
    LET live == {p \in setupPids : ~Identified(g, p.val) /\ IsAlive(g, p.val)}
        kept == {p \in live : p.id \notin savedIds}
        above == {p.id + 1 : p \in kept} \cup {g.nextPid}
    IN  FoldLeft(Rekeyed, [g EXCEPT !.pids = @ \cup kept, !.nextPid = Max(above)],
                 SetToSortSeq(live \ kept, LAMBDA p, q : p.id < q.id))

MaterializedCollectingFirst(g, p) ==
    LET new == NewSlots(g, Len(p.objects))
        filled == [Filled(g, p, new) EXCEPT !.pids = InstalledPids(g, p, new)]
        early == Collected([filled EXCEPT !.node[1] = g.node[1], !.node[2] = g.node[2]])
    IN  MergedPids([early EXCEPT !.node[1] = filled.node[1], !.node[2] = filled.node[2]],
                   g.pids, {x.id : x \in Range(p.ids)})

Materialized(g, p) ==
    LET new == NewSlots(g, Len(p.objects))
        filled == [Filled(g, p, new) EXCEPT !.pids = InstalledPids(g, p, new)]
    IN  MergedPids(Collected(filled), g.pids, {x.id : x \in Range(p.ids)})

SavedValues(p) ==
    UNION ({{e[1], e[2]} : e \in UNION {Range(t.entries) :
                t \in {p.globals, p.envs[1].table} \cup {o \in Range(p.objects) : o.kind = "table"}}}
           \cup {Range(p.ups)})

Resolvable(g, p) == \A v \in SavedValues(p) : v[1] = "fn" => v[2] \in g.registered

FinishGraphLoad ==
    /\ life = "setup" /\ script = <<>>
    /\ LET p == Decode(file).payload
       IN  /\ Cardinality(Unused(graph)) >= Len(p.objects)
           /\ IF Resolvable(graph, p)
              THEN /\ graph' = Materialized(graph, p) /\ life' = "running"
                   /\ script' \in Sequels /\ loads' = loads + 1
              ELSE graph' = Fresh({}) /\ life' = "none" /\ UNCHANGED <<script, loads>>
    /\ UNCHANGED <<file, origin, refused>>

GraphInit ==
    /\ \E registry \in Registries : graph = Fresh(registry)
    /\ life = "running" /\ script \in Scripts /\ loads = 0
    /\ file = NoFile /\ origin = NoFile /\ refused = <<>>

GraphNext == Operate \/ CollectGraph \/ SaveState \/ BeginGraphLoad \/ FinishGraphLoad

GraphSpec == GraphInit /\ [][GraphNext]_graphVars

-----------------------------------------------------------------------------
(***************************************************************************)
(* What a load promises: the graph behind the environment tables of a is   *)
(* the one behind those of b, slot for slot.                               *)
(***************************************************************************)
ValuesAt(g, s) ==
    IF g.node[s] = NoObject THEN <<>>
    ELSE IF g.node[s].kind = "table" THEN FlattenSeq(g.node[s].entries) \o <<g.node[s].meta>>
    ELSE [i \in DOMAIN g.node[s].ups |-> g.upval[g.node[s].ups[i]]]

(* Of a library table only what a had is compared *)
ComparedTo(a, b, s, t) ==
    IF IsEnv(t) THEN FlattenSeq(SubSeq(b.node[t].entries, 1, Len(a.node[s].entries))) \o <<b.node[t].meta>>
    ELSE ValuesAt(b, t)

RECURSIVE PairsFrom(_, _, _)
PairsFrom(a, b, pairs) ==
    LET Under(x) == {<<ValuesAt(a, x[1])[i], ComparedTo(a, b, x[1], x[2])[i]>> :
                        i \in DOMAIN ValuesAt(a, x[1]) \cap DOMAIN ComparedTo(a, b, x[1], x[2])}
        more == pairs \cup {<<y[1][2], y[2][2]>> :
                    y \in {z \in UNION {Under(x) : x \in pairs} : IsObj(z[1]) /\ IsObj(z[2])}}
    IN  IF more = pairs THEN pairs ELSE PairsFrom(a, b, more)

Pairs(a, b) == PairsFrom(a, b, {<<s, s>> : s \in DOMAIN Tokens})

OneToOne(pairs) == \A x, y \in pairs : x[1] = y[1] <=> x[2] = y[2]

RECURSIVE CodeTree(_, _)
CodeTree(g, c) ==
    <<g.code[c].proto, g.code[c].lits, [i \in DOMAIN g.code[c].nested |-> CodeTree(g, g.code[c].nested[i])]>>

SameValue(pairs, v, w) ==
    CASE IsObj(v) -> IsObj(w) /\ <<v[2], w[2]>> \in pairs
      [] v[1] = "num" -> w = <<"num", SavedBits(v[2])>>
      [] OTHER -> w = v

SameNode(a, b, pairs, s, t) ==
    /\ b.node[t] # NoObject /\ b.node[t].kind = a.node[s].kind
    /\ Len(ComparedTo(a, b, s, t)) = Len(ValuesAt(a, s))
    /\ \A i \in DOMAIN ValuesAt(a, s) : SameValue(pairs, ValuesAt(a, s)[i], ComparedTo(a, b, s, t)[i])
    /\ a.node[s].kind = "closure" => CodeTree(a, a.node[s].chunk) = CodeTree(b, b.node[t].chunk)

ClosurePairs(a, pairs) == {x \in pairs : a.node[x[1]].kind = "closure"}

SharedAlike(a, b, pairs) ==
    LET fns == ClosurePairs(a, pairs)
        cells == UNION {{<<a.node[x[1]].ups[i], b.node[x[2]].ups[i]>> : i \in DOMAIN a.node[x[1]].ups} : x \in fns}
    IN  OneToOne(cells) /\ OneToOne({<<a.node[x[1]].chunk, b.node[x[2]].chunk>> : x \in fns})

(* What setup added to a library or global table *)
Extra(a, b, s) == SubSeq(b.node[s].entries, Len(a.node[s].entries) + 1, Len(b.node[s].entries))

Keys(entries) == {e[1] : e \in Range(entries)}

SetupAdds(a, setup, b, s) ==
    Range(Extra(a, b, s)) =
        {e \in Range(setup.node[s].entries) : e[1][1] = "str" /\ e[1] \notin Keys(a.node[s].entries)}

SavedFunctions(g) ==
    {v \in UNION {Inside(g, s) : s \in Reached(g, DOMAIN Tokens)} : v[1] = "fn"}

Loaded == life = "setup" /\ life' = "running"

(***************************************************************************)
(* A load gives back the graph that was saved: the same tables, entry by   *)
(* entry in order, the same metatables and closures, with objects, upvalue *)
(* cells and chunks shared exactly as before, cycles included, nothing     *)
(* collected from under it, the counters restored and setup's own global   *)
(* and library names added behind the saved ones.  What setup anchored     *)
(* stays as it was.  A load whose setup ran fails only for a function the  *)
(* new host did not register (materialize_payload).                        *)
(***************************************************************************)
LoadRebuildsTheGraph ==
    [][/\ Loaded =>
            LET pairs == Pairs(origin, graph')
            IN  /\ OneToOne(pairs)
                /\ \A x \in pairs : SameNode(origin, graph', pairs, x[1], x[2])
                /\ SharedAlike(origin, graph', pairs)
                /\ \A s \in DOMAIN Tokens : SetupAdds(origin, graph, graph', s)
                /\ graph'.meters = origin.meters
                /\ \A s \in Reached(graph, graph.anchored \ DOMAIN Tokens) \ DOMAIN Tokens :
                      graph'.node[s] = graph.node[s]
       /\ life = "setup" /\ life' = "none" =>
            \E v \in SavedFunctions(origin) : v[2] \notin graph.registered]_graphVars

(***************************************************************************)
(* A value's %p identity is its own, for as long as it lives and across a  *)
(* load: no two values share one, one recorded in a save is shown by the   *)
(* same value after the load or, if its function is gone, by none, and one *)
(* issued in a run is above every earlier one (format_pointer_id and       *)
(* merge_setup_pointer_ids).                                               *)
(***************************************************************************)
Observable(g, v) ==
    CASE v[1] = "obj" -> v[2] \in Reached(g, DOMAIN Tokens)
      [] v[1] = "fn" -> v[2] \in g.registered
      [] OTHER -> IsAlive([g EXCEPT !.anchored = {}], v)

IdentitiesSurviveLoads ==
    [][/\ \A p, q \in graph'.pids : (p.id = q.id <=> p.val = q.val) /\ p.id < graph'.nextPid
       /\ Loaded =>
            LET pairs == Pairs(origin, graph')
            IN  \A p \in {x \in origin.pids : Observable(origin, x.val)} :
                    LET same == {q \in graph'.pids : q.id = p.id}
                    IN  /\ same = {q \in graph'.pids : SameValue(pairs, p.val, q.val) /\ Observable(graph', q.val)}
                        /\ same = {} => p.val[1] = "fn" /\ p.val[2] \notin graph'.registered
       /\ life' = life /\ loads' = loads =>
            /\ \A p \in graph'.pids \ graph.pids : p.id >= graph.nextPid
            /\ \A p \in graph.pids \ graph'.pids : ~IsAlive(graph, p.val)]_graphVars

RECURSIVE AtPath(_, _, _)
AtPath(g, v, path) ==
    CASE v[1] = "cell" -> AtPath(g, g.upval[v[2]], path)
      [] path = <<>> -> v
      [] OTHER -> AtPath(g, PartsOf(g, v[2])[Head(path)], Tail(path))

(***************************************************************************)
(* Saving is repeatable: the file reads back as exactly what was written   *)
(* and passes verification, a prefix of it does not read at all, and a    *)
(* State loaded from it by a host that adds nothing saves to the same file *)
(* again.  A save is refused only for a function without a save id, and    *)
(* the path it reports leads to that function (save_state, load_state).    *)
(***************************************************************************)
SavesAreReproducible ==
    [][/\ file' # file =>
            /\ Decode(file') = [ok |-> TRUE, payload |-> Payload(graph, SaveWalk(graph))]
            /\ Verified(Decode(file').payload)
            /\ \A n \in Cuts(file') : ~Decode(SubSeq(file', 1, n)).ok
       /\ refused' # refused /\ refused' # <<>> =>
            LET v == AtPath(graph, Obj(refused'[1]), Tail(refused'))
            IN  v[1] = "fn" /\ v[2] \notin graph.registered
       /\ life = "running" /\ life' = "saved" =>
            \A v \in SavedFunctions(graph) : v[2] \in graph.registered
       /\ Loaded /\ graph = Fresh(origin.registered) =>
            Encode(Payload(graph', SaveWalk(graph'))) = file]_graphVars
=============================================================================
