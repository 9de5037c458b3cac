--------------------------- MODULE MCFieldAccess ----------------------------
(* Small programs over three tables, for FieldAccess *)
EXTENDS FieldAccess

CONSTANTS o, c, d, f, k, index, newindex, spare

RawWrites(t, key, vals) == [table : {t}, key : {key}, val : vals]

(* An object o of class c or d, c with its own methods, d inheriting from c *)
Methods ==
    [writes |-> RawWrites(o, k, {Atom, Nil}) \cup RawWrites(c, k, {Atom, Nil})
                \cup RawWrites(c, index, {c, f, Nil}) \cup RawWrites(d, index, {c}),
     metas |-> [table : {o}, meta : {c, d}] \cup [table : {c}, meta : {d}],
     stored |-> {}, accessed |-> {o, c, Atom}, maxVersion |-> 1]

(* Strings, whose metatable d names the library c or a string as __index *)
Strings ==
    [writes |-> RawWrites(c, k, {Atom, Nil}) \cup RawWrites(c, spare, {Atom, Nil})
                \cup RawWrites(d, index, {c, o, f, Str, Nil}) \cup RawWrites(o, k, {f}),
     metas |-> [table : {c}, meta : {d, NoEntry}],
     stored |-> {}, accessed |-> {c, Str}, maxVersion |-> 1]

(* An object o whose class c forwards stores to d, to a function, or fails *)
Forwarding ==
    [writes |-> RawWrites(o, k, {Nil}) \cup RawWrites(o, spare, {Atom})
                \cup RawWrites(c, newindex, {d, f, Atom, Nil}),
     metas |-> [table : {o}, meta : {c, NoEntry}] \cup [table : {d}, meta : {c}],
     stored |-> {Atom, Nil}, accessed |-> {o, d, Atom}, maxVersion |-> 1]

ThreePrograms == {Methods, Strings, Forwarding}
=============================================================================
