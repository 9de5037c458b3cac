---------------------------- MODULE LuaVariables ----------------------------
(***************************************************************************)
(* What a Lua program may rely on about its variables, without saying      *)
(* where they are stored.  A variable is the set of names it goes by and   *)
(* its one value: the stack position of a local is a name, and so is the   *)
(* k-th upvalue of a closure.  Capturing adds a name, leaving a scope      *)
(* takes the position away, and an assignment through any name is seen     *)
(* through all the others for as long as one of them exists.               *)
(***************************************************************************)
EXTENDS Naturals, FiniteSets

CONSTANTS Closures, Data, Nil, MaxPosition, MaxUpvalues

VARIABLES
    variables,  \* set of [names, value]; no name belongs to two of them
    closures,   \* the closures that exist
    global

vvars == <<variables, closures, global>>

Position(i) == <<Nil, i>>
Upvalue(c, k) == <<c, k>>
PositionsFrom(i) == {Position(j) : j \in i .. MaxPosition}

VInit ==
    /\ variables = {[names |-> {Position(1)}, value |-> c] : c \in closures}
    /\ \E c \in Closures : closures = {c}
    /\ global = Nil

(* Values some variable of `vs` has, or the global *)
Known(vs) == {x.value : x \in vs} \cup {global, Nil}

-----------------------------------------------------------------------------
(* A closure can be reached from the positions and the global through the  *)
(* upvalues of closures that can be reached.                               *)
Holds(vs, c) ==
    {x.value : x \in {y \in vs : \E k \in 1 .. MaxUpvalues : Upvalue(c, k) \in y.names}}

Roots(vs) == {global} \cup
    {x.value : x \in {y \in vs : y.names \cap PositionsFrom(1) # {}}}

Reachable(vs) ==
    LET all == closures
        roots == Roots(vs) \cap all
        held == [c \in all |-> Holds(vs, c) \cap all]
    IN  {c \in all :
            \A S \in SUBSET all : roots \subseteq S /\ (\A d \in S : held[d] \subseteq S) => c \in S}

(* vs without some names; a variable nothing names is gone. *)
Without(vs, names) ==
    {[x EXCEPT !.names = @ \ names] : x \in {y \in vs : ~(y.names \subseteq names)}}

UpvaluesOf(S) == {Upvalue(c, k) : c \in S, k \in 1 .. MaxUpvalues}

-----------------------------------------------------------------------------
(* Each step relates the variables before it, old, to those after, new.    *)
(* One variable takes a value; its names stay together.                    *)
Assign(old, new) ==
    /\ UNCHANGED <<closures, global>>
    /\ LET ended == old \ new
           begun == new \ old
       IN  /\ Cardinality(ended) = 1 /\ Cardinality(begun) = 1
           /\ \A x \in ended, y \in begun :
                 y.names = x.names /\ y.value \in Known(old) \cup Data

AssignGlobal(old, new) ==
    /\ UNCHANGED closures
    /\ global' \in Known(old)
    /\ new = old

(***************************************************************************)
(* Scopes end and begin: the positions from i on leave their variables,    *)
(* whose upvalues keep name and value, and any positions used afterwards   *)
(* are new variables.                                                      *)
(***************************************************************************)
Rescope(old, new) ==
    /\ UNCHANGED <<closures, global>>
    /\ \E i \in 1 .. MaxPosition :
          LET begun == {x \in new : x.names \cap PositionsFrom(i) # {}}
          IN  /\ new = Without(old, PositionsFrom(i)) \cup begun
              /\ \A x \in begun : Cardinality(x.names) = 1 /\ x.value \in Known(old)

(* Closures nothing can reach disappear with their names. *)
Forget(old, new) ==
    /\ UNCHANGED global
    /\ closures' \subseteq closures
    /\ new = Without(old, UpvaluesOf(closures \ closures'))
    /\ Reachable(old) \subseteq closures'

(***************************************************************************)
(* A closure is created and assigned to the variable at a position.  Each  *)
(* of its upvalues is one more name of a variable that exists.  Closures   *)
(* nothing can reach may disappear at that moment.                         *)
(***************************************************************************)
Create(old, new) ==
    /\ UNCHANGED global
    /\ \E c \in closures' \ closures :
          LET joined(x) == UNION {y.names \cap UpvaluesOf({c}) :
                                  y \in {z \in new : x.names \subseteq z.names}}
          IN  /\ closures' \ closures = {c}
              /\ Reachable(old) \subseteq closures'
              /\ \E i \in 1 .. MaxPosition :
                    new = {[names |-> x.names \cup joined(x),
                            value |-> IF Position(i) \in x.names THEN c ELSE x.value] :
                                x \in Without(old, UpvaluesOf(closures \ closures'))}

VNext ==
    \E old \in {variables}, new \in {variables'} :
        \/ Assign(old, new) \/ AssignGlobal(old, new) \/ Rescope(old, new)
        \/ Forget(old, new) \/ Create(old, new)

VSpec == VInit /\ [][VNext]_vvars
=============================================================================
