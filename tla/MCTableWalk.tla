---------------------------- MODULE MCTableWalk -----------------------------
(* Programs whose caches hold a token of an environment table, that        *)
(* traverse a table, and that grow one as they traverse it.                *)
EXTENDS TableWalk

CONSTANTS x, y, z, u

Short == [maxKey |-> 2, vals |-> {u}, memories |-> {20}, maxList |-> 4, maxSort |-> 0, versions |-> 1,
          policies |-> {}, tokens |-> FALSE, walks |-> FALSE, grows |-> FALSE]

(* A sealed environment keeps its dead slots, an open one compacts them *)
Caching ==
    [names |-> {x, y}, sparse |-> {2}, templates |-> {<<x>>, <<x, y>>}, tokens |-> TRUE,
     policies |-> {[revive |-> TRUE, retain |-> TRUE]}] @@ Short

Compacting ==
    [names |-> {x, y}, sparse |-> {}, templates |-> {<<x>>, <<x, y>>}, tokens |-> TRUE,
     policies |-> {[revive |-> TRUE, retain |-> FALSE], [revive |-> TRUE, retain |-> TRUE]}] @@ Short

(* A table that leaves its inline form, and one with a longer array part *)
Traversing ==
    [names |-> {x, y, z}, sparse |-> {}, templates |-> {<<x, y>>}, maxKey |-> 1, walks |-> TRUE] @@ Short

Listing ==
    [names |-> {x, y}, sparse |-> {}, templates |-> {<<x, y>>}, walks |-> TRUE] @@ Short

FourPrograms == {Caching, Compacting, Traversing, Listing}

(* Integer keys that start in the hash part *)
Growing ==
    [names |-> {x, y}, sparse |-> {2}, templates |-> {}, walks |-> TRUE, grows |-> TRUE] @@ Short

GrowingProgram == {Growing}
=============================================================================
