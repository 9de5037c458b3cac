------------------------------ MODULE MCSaves ------------------------------
(***************************************************************************)
(* What a save keeps.  A behaviour is one of a host's environment          *)
(* (GlobalEnv), of a host that restricts a builtin and a global or one     *)
(* that saves and loads two globals; or one of small scripts, saves and    *)
(* loads of the object graph (SaveGraph).                                  *)
(***************************************************************************)
EXTENDS GlobalEnv, SaveGraph

CONSTANTS b, x, y, u

TwoWhitelists == {<<b>>, <<x, b>>}

TwoHosts ==
    {[names |-> {b, x}, saves |-> FALSE, nesting |-> 1, versions |-> 3],
     [names |-> {x, y}, saves |-> TRUE, nesting |-> 0, versions |-> 4]}

Versions == << <<"u16", 1>>, <<"u16", 2>> >>
MetaTexts == <<"__index">>

Slots6 == 1 .. 6

Code == << [proto |-> "outer", lits |-> <<"lit">>, nested |-> <<2>>],
           [proto |-> "inner", lits |-> <<>>, nested |-> <<>>] >>

Nodes == << Table(<< <<Str("math"), Obj(2)>> >>, NilVal),
            Table(<< <<Str("nan"), <<"num", "nan-">>>> >>, NilVal) >>

Global(n) == <<"global", n>>
Store(on, key, src) == [op |-> "store", on |-> on, key |-> key, src |-> src]
SetGlobal(n, src) == Store(Obj(1), Str(n), src)
Render(src) == [op |-> "render", src |-> src]

(* Every script makes a table and a closure over it, and goes on in two *)
(* of these ways.                                                         *)
Begin == << SetGlobal("a", <<"table">>), SetGlobal("b", <<"closure", 1, Global("a")>>) >>

Steps ==
    {SetGlobal("a", NilVal), SetGlobal("c", <<"sibling", Global("b")>>),
     Store(Global("a"), Global("b"), Global("a")),
     Store(Obj(2), Str("k"), Global("b")),
     Store(Global("a"), Str("f"), <<"fn", "f">>),
     [op |-> "assign", on |-> Global("b"), src |-> Global("b")],
     [op |-> "meta", on |-> Global("a"), src |-> Obj(1)]}

Renders == {Render(Global("a")), Render(<<"fn", "f">>), Render(Str("lit"))}

Programs == {Begin \o <<s, t>> : s \in Steps, t \in Steps \cup Renders}
Rerenders == {<<>>, << Render(Global("b")) >>}

NewTable == SetGlobal("new", <<"table">>)
HostSetups ==
    {<<>>, << SetGlobal("a", <<"table">>), Render(Global("a")) >>,
     << NewTable, Render(Global("new")), SetGlobal("math", NilVal) >>,
     << NewTable, [op |-> "anchor", src |-> Global("new")], Render(<<"fn", "f">>), Render(Global("new")) >>}
-----------------------------------------------------------------------------
NoGraph ==
    /\ graph = Fresh({}) /\ life = "idle" /\ script = <<>> /\ loads = 0
    /\ file = NoFile /\ origin = NoFile /\ refused = <<>>

InitSaves ==
    \/ Init /\ NoGraph
    \/ GraphInit /\ Init /\ host.saves

NextSaves ==
    \/ life = "idle" /\ Next /\ UNCHANGED graphVars
    \/ life # "idle" /\ GraphNext /\ UNCHANGED vars

SavesSpec == InitSaves /\ [][NextSaves]_<<vars, graphVars>>
=============================================================================
