------------------------------ MODULE MCTable -------------------------------
(* Long arrays with one sparse key under a tight allocator limit, and short *)
(* ones whose keys arrive in any order.                                    *)
EXTENDS Table

CONSTANTS u, v

Unnamed == [names |-> {}, templates |-> {}, policies |-> {}, versions |-> 0]

Arrays == [maxKey |-> 8, sparse |-> {7}, vals |-> {u}, memories |-> {6},
           maxList |-> 3, maxSort |-> 1] @@ Unnamed

Migrations == [maxKey |-> 4, sparse |-> {2, 4}, vals |-> {u, v}, memories |-> {2, 20},
               maxList |-> 2, maxSort |-> 2] @@ Unnamed

ArrayPrograms == {Arrays, Migrations}
=============================================================================
