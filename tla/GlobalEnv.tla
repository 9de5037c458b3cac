------------------------------ MODULE GlobalEnv -----------------------------
(***************************************************************************)
(* The global environment (src/vm/global_env.rs): one heap table that      *)
(* bytecode globals, builtin opcodes, the host and raw writes through _G   *)
(* all share, read through lookup caches and a mirror of the builtins;     *)
(* its restriction, its sealing, and its save and load.                    *)
(*                                                                         *)
(* The heap's mutation epoch is kept as what it is compared for: a mirror  *)
(* entry is fresh while no access has moved the epoch since it was filled. *)
(***************************************************************************)
EXTENDS TableOps

CONSTANTS
    Builtins,      \* the builtin names
    Sites,         \* the other names bytecode reads and writes
    Vals,          \* the values globals hold, Nil aside
    NoProbe,       \* an empty cache
    NoSave,        \* no snapshot was taken
    Whitelists,    \* the whitelists hosts restrict to, sequences of names
    Hosts          \* the hosts: the names in use, whether they save and load,
                   \* and the bounds on nested restrictions and shape versions

ASSUME GlobalEnvAssumption ==
    /\ Builtins \subseteq Names /\ Sites \subseteq Names \ Builtins /\ Nil \notin Vals
    /\ Whitelists \subseteq Seq(Names)
    /\ Hosts \subseteq [names : SUBSET Names, saves : BOOLEAN, nesting : Nat, versions : Nat]
    /\ \A h \in Hosts : h.versions + 1 < VersionSpace

VARIABLES
    host,          \* the host of this behaviour
    g,             \* the global table's contents
    phase,         \* "initializing", "loading" (load setup) or "sealed"
    pins,          \* names a load keeps deleted
    suspended,     \* the environments with_restricted_env suspended
    cache,         \* one GlobalLookupCacheSlot per name
    mirror,        \* builtin_mirror: [fresh, val] per builtin
    known,         \* names bound while not sealed (a history of States that are saved)
    saved          \* the snapshot: [slots, pins, sealed, known], or NoSave

vars == <<host, g, phase, pins, suspended, cache, mirror, known, saved>>

Values == Vals \cup {Nil}
Ample == MaxArrayLen

SlotPolicyOf(t, p) == SetSlotPolicy(t, TRUE, p # "sealed")

FreshTable(p) == SlotPolicyOf(SizedTable(TRUE), p)
NoCaches == [n \in Sites \cup Builtins |-> NoProbe]
StaleMirror == [b \in Builtins |-> [fresh |-> FALSE, val |-> Nil]]

(* A new State, whose host installs its environment *)
FreshEnv(p) ==
    /\ g' = FreshTable(p) /\ phase' = p
    /\ pins' = <<>> /\ suspended' = <<>> /\ known' = {}
    /\ cache' = NoCaches /\ mirror' = StaleMirror

Init ==
    /\ host \in Hosts
    /\ g = FreshTable("initializing") /\ phase = "initializing"
    /\ pins = <<>> /\ suspended = <<>> /\ known = {}
    /\ cache = NoCaches /\ mirror = StaleMirror
    /\ saved = NoSave

-----------------------------------------------------------------------------
(* Every mutable access to the table moves the epoch (GcHeap::get_mut). *)
EpochMoved == [b \in Builtins |-> [mirror[b] EXCEPT !.fresh = FALSE]]

NoteBound(n, v) == known' = IF host.saves /\ v # Nil /\ phase # "sealed" THEN known \cup {n} ELSE known

ReadCached(n) == IF cache[n] = NoProbe THEN Miss ELSE ReadProbe(g, cache[n])

(* read_global, and refresh_builtin's read: a cache that misses is filled *)
Looked(n) == IF ReadCached(n).hit THEN cache ELSE [cache EXCEPT ![n] = ProbeHash(g, n)]

ReadGlobal ==
    /\ \E n \in Sites \cap host.names : cache' = Looked(n)
    /\ UNCHANGED <<g, phase, pins, suspended, mirror, known, saved>>

ReadBuiltin ==
    /\ \E b \in Builtins \cap host.names :
          /\ ~mirror[b].fresh
          /\ cache' = Looked(b)
          /\ mirror' = [mirror EXCEPT ![b] = [fresh |-> TRUE, val |->
                           IF ReadCached(b).hit THEN ReadCached(b).val ELSE HashGet(g, b)]]
    /\ UNCHANGED <<g, phase, pins, suspended, known, saved>>

WriteCached(n, v) == IF cache[n] = NoProbe THEN Failed(g) ELSE StoreProbe(g, cache[n], v)

(* The keyed write: a name with a slot is stored through it *)
WriteKeyed(n, v) ==
    IF HasSlot(g, n) THEN StoreProbe(g, ProbeHash(g, n), v).t
    ELSE IF v # Nil THEN Insert(g, n, v, Ample).t ELSE g

(* write: through the cache, or keyed, which refills it if there is a slot *)
Written(n, v, cached) ==
    /\ g' = IF cached.ok THEN cached.t ELSE WriteKeyed(n, v)
    /\ cache' = IF ~cached.ok /\ HasSlot(g, n) THEN [cache EXCEPT ![n] = ProbeHash(g, n)] ELSE cache
    /\ NoteBound(n, v)
    /\ UNCHANGED <<phase, pins, suspended, saved>>

(* A cached store to a name that is no builtin leaves the epoch alone *)
MirrorAfterWrite(n, cached) ==
    IF n \in Builtins /\ cache[n] # NoProbe THEN EpochMoved
    ELSE IF ~cached.ok THEN EpochMoved ELSE mirror

WriteGlobal ==
    \E n \in host.names \cap (Sites \cup Builtins), v \in Values :
        /\ Written(n, v, WriteCached(n, v))
        /\ mirror' = MirrorAfterWrite(n, WriteCached(n, v))

(* write_key, for the host: only a builtin goes through a cache *)
HostWrite ==
    \E n \in host.names \ Builtins, v \in Values :
        /\ g' = WriteKeyed(n, v)
        /\ mirror' = EpochMoved
        /\ NoteBound(n, v)
        /\ UNCHANGED <<phase, pins, suspended, cache, saved>>

(* rawset, table functions and field writes on a reference to _G *)
RawWrite ==
    \E n \in host.names, v \in Values :
        /\ g' = Insert(g, n, v, Ample).t
        /\ mirror' = EpochMoved
        /\ NoteBound(n, v)
        /\ UNCHANGED <<phase, pins, suspended, cache, saved>>

-----------------------------------------------------------------------------
Keyed(slots, names) == {i \in DOMAIN slots : slots[i].key \in names}

KeysOf(slots) == [i \in DOMAIN slots |-> slots[i].key]

SlotNames(t) == KeysOf(Picked(t.hash, Keyed(t.hash, Names)))

SealForgettingTombstones ==
    /\ IF phase # "initializing" THEN UNCHANGED <<g, phase, pins, mirror>>
       ELSE /\ phase' = "sealed"
            /\ pins' = SelectSeq(SlotNames(g), LAMBDA n : HashGet(g, n) # Nil)
            /\ g' = SlotPolicyOf(g, "sealed")
            /\ mirror' = EpochMoved
    /\ UNCHANGED <<suspended, cache, known, saved>>

Seal ==
    /\ IF phase # "initializing" THEN UNCHANGED <<g, phase, pins, mirror>>
       ELSE /\ phase' = "sealed"
            /\ pins' = SlotNames(g)
            /\ g' = SlotPolicyOf(g, "sealed")
            /\ mirror' = EpochMoved
    /\ UNCHANGED <<suspended, cache, known, saved>>

(* The whitelisted globals that are set, as a sealed table: inserted in *)
(* order, a name listed again writes the value it has                   *)
Admitted(whitelist) ==
    {i \in DOMAIN whitelist : /\ HashGet(g, whitelist[i]) # Nil
                              /\ \A j \in 1 .. i - 1 : whitelist[j] # whitelist[i]}

Restricted(whitelist) ==
    [FreshTable("sealed") EXCEPT !.hash =
        Picked([i \in DOMAIN whitelist |-> [key |-> whitelist[i], val |-> HashGet(g, whitelist[i])]],
               Admitted(whitelist))]

RestrictEnv ==
    /\ Len(suspended) < host.nesting
    /\ \E whitelist \in Whitelists : g' = SwapIn(g, Restricted(whitelist))
    /\ suspended' = Append(suspended, [contents |-> g, phase |-> phase])
    /\ phase' = "sealed"
    /\ mirror' = EpochMoved
    /\ UNCHANGED <<pins, cache, known, saved>>

SwapInKeepingVersion(incoming) == incoming

Swapped(incoming) == SwapIn(g, incoming)

Resume ==
    /\ suspended # <<>>
    /\ g' = Swapped(suspended[Len(suspended)].contents)
    /\ phase' = suspended[Len(suspended)].phase
    /\ suspended' = SubSeq(suspended, 1, Len(suspended) - 1)
    /\ mirror' = EpochMoved
    /\ UNCHANGED <<pins, cache, known, saved>>

-----------------------------------------------------------------------------
(* A save is refused while host code is active, so never inside a          *)
(* restriction or a load's setup.                                          *)
Save ==
    /\ host.saves /\ suspended = <<>> /\ phase # "loading"
    /\ saved' = [slots |-> g.hash, pins |-> pins, sealed |-> phase = "sealed", known |-> known]
    /\ UNCHANGED <<g, phase, pins, suspended, cache, mirror, known>>

(* load_state makes a new State and runs the host's setup in it ... *)
BeginLoad ==
    /\ saved # NoSave /\ suspended = <<>> /\ phase # "loading"
    /\ FreshEnv("loading")
    /\ UNCHANGED saved

Mentioned == {saved.slots[i].key : i \in DOMAIN saved.slots} \cup Range(saved.pins)

Rebuilt(slots) == Reloaded([g EXCEPT !.hash = slots])

(* ... and then restores the saved table over what setup made *)
FinishLoad ==
    /\ phase = "loading" /\ suspended = <<>>
    /\ phase' = IF saved.sealed THEN "sealed" ELSE "initializing"
    /\ g' = SlotPolicyOf(Rebuilt(saved.slots \o Picked(g.hash, Keyed(g.hash, Names \ Mentioned))),
                         phase')
    /\ pins' = IF saved.sealed
               THEN saved.pins \o KeysOf(Picked(g.hash, Keyed(g.hash, Names \ Range(saved.pins))))
               ELSE <<>>
    /\ mirror' = EpochMoved
    /\ known' = known \cup saved.known
    /\ UNCHANGED <<suspended, cache, saved>>

Next ==
    /\ \/ ReadGlobal \/ ReadBuiltin
       \/ WriteGlobal \/ HostWrite \/ RawWrite
       \/ Seal \/ RestrictEnv \/ Resume
       \/ Save \/ BeginLoad \/ FinishLoad
    /\ g'.version <= host.versions
    /\ UNCHANGED host

Spec == Init /\ [][Next]_vars

-----------------------------------------------------------------------------
TypeOK ==
    /\ host \in Hosts
    /\ \A i \in DOMAIN g.hash : g.hash[i].key \in Names /\ g.hash[i].val \in Values
    /\ g.map /\ g.revive /\ g.retain = (phase # "sealed")
    /\ phase \in {"initializing", "loading", "sealed"} /\ pins \in Seq(Names)
    /\ \A i \in DOMAIN suspended : suspended[i].phase \in {"initializing", "loading", "sealed"}
    /\ mirror \in [Builtins -> [fresh : BOOLEAN, val : Values]]

(***************************************************************************)
(* A builtin read from the mirror, without reaching the table, is what the *)
(* table holds, whichever route last wrote it: a cached or keyed store, a  *)
(* raw write through _G, a restriction or a load.                          *)
(***************************************************************************)
MirrorIsCurrent == \A b \in Builtins : mirror[b].fresh => mirror[b].val = HashGet(g, b)

(***************************************************************************)
(* The state is well typed, the global table keeps tombstones exactly      *)
(* until it is sealed, and a cached lookup that answers gives the name's   *)
(* value in the environment in force: no entry filled in a suspended,      *)
(* restricted or pre-load environment answers for another one.  The mirror *)
(* of the builtins is current (above).                                     *)
(***************************************************************************)
CachesAnswerForTheEnvironment ==
    /\ TypeOK /\ MirrorIsCurrent
    /\ \A n \in DOMAIN cache : ReadCached(n).hit => ReadCached(n).val = HashGet(g, n)

(***************************************************************************)
(* A load gives every name bound before the seal the value it was saved    *)
(* with, deletions included, whatever the setup installs and however many  *)
(* tombstones were compacted or loads came before.                         *)
(***************************************************************************)
SavedValue(n) ==
    IF \E i \in DOMAIN saved.slots : saved.slots[i].key = n
    THEN saved.slots[CHOOSE i \in DOMAIN saved.slots : saved.slots[i].key = n].val ELSE Nil

LoadKeepsWhatWasSaved ==
    [][phase = "loading" /\ phase' # "loading" /\ suspended' = <<>> =>
           \A n \in saved.known : HashGet(g', n) = SavedValue(n)]_vars
=============================================================================
