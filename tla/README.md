# A TLA+ verification of dellingr

dellingr is an embeddable Lua VM whose results, costs and errors must be the
same on every run and every host (`docs/determinism.md`, `docs/budget.md`). This
directory models the parts of it whose correctness rests on long histories of
legal steps: accounting that is batched, caches that must be invisible, memory
that is recycled, calls that fail half way. TLC checks the modules on small
instances; TLAPS proves the cost accounting and the lifetime of cache entries
for every value of the constants.

Paths below are relative to the repository (`src/vm/table.rs`). `PROJECT.json`
maps every definition that models code to its lines.

- [1. The system](#1-the-system)
- [2. Modules](#2-modules)
- [3. Runs](#3-runs)
- [4. Proofs](#4-proofs)
- [5. A disagreement between code and documentation](#5-a-disagreement-between-code-and-documentation)
- [6. What is not modelled](#6-what-is-not-modelled)
- [7. Plan](#7-plan)

## 1. The system

A host compiles source text to a `Program` (immutable bytecode, shared between
threads) and runs it in a `State`, which belongs to one thread at a time. A State
holds the heap, the value stack, the global environment, the in-flight record of
the calls in progress, the cost meter, and several caches.

| Part | State it owns | What changes it |
| --- | --- | --- |
| Cost accounting (`cost_meter.rs`, `frame.rs`) | limit, remaining, used; one uncharged batch per dispatch loop | every instruction, native charges, `set_cost_budget`, save and load |
| Calls (`eval.rs`, `frame.rs`, `inventory.rs`) | activation records, stack bounds, vararg arena, three depths, poison and interrupt flags | calls from Lua and from Rust, tail calls, `__call` chains, returns, errors, panics, another thread's interrupt |
| Captured variables (`object.rs`, `eval.rs`, `registers.rs`) | upvalue pool, open list, closures | capture, assignment, leaving a scope, unwinding, collection |
| Tables (`table.rs`) | array window, hash slots with tombstones, shape version, reserved capacity | constructors, stores, insert, remove, sort, traversal, load, an allocator that refuses |
| Global environment (`global_env.rs`) | one table, its builtin mirror and epoch, suspended environments, the seal and its pins | bytecode, host and raw writes, restriction, sealing, save and load |
| Field access (`metamethod.rs`, `eval_index.rs`, `eval_store.rs`, `caches.rs`) | inline caches of a site | reads and writes through metatables that change between them |
| Anchors (`anchor.rs`) | registry slots, a release queue shared with other threads | anchoring, releasing, dropping on any thread, collection |
| Weak handles (`object.rs`, `caches.rs`, `inventory.rs`) | cache cells, compiled patterns, `%p` identities | allocation, collection, periodic pruning, eviction |
| Bytecode runtimes (`vm.rs`, `collector.rs`) | literals and caches of each bytecode, keyed by address | closure creation, collection, dropping and compiling programs |
| Save and load (`save_state.rs`) | none of its own | a quiescent State becomes bytes and a fresh State |
| Compiler, verifier, patterns, libraries, elementary functions | none that outlives a call, or pure functions | |

How the parts meet:

- Everything that allocates may run the collector, which sweeps the heap, the
  upvalue pool, the runtime map, the anchors' queue and the weak tables. That is
  why Anchors, Upvalues, WeakHandles and Runtimes each have the collector as an
  action that may come between two steps of another operation.
- Caches everywhere name a table slot by position and shape version. TableOps is
  therefore the base of GlobalEnv and FieldAccess: the caches are checked over
  the table that really moves its slots, not over an abstract one.
- Rust code is called by Lua and calls Lua. Cost accounting and calls are
  modelled with that recursion; a callback may change the budget, fail, handle a
  failure, or panic.
- Only three things happen on other threads: an anchor is dropped, an interrupt
  is raised, a Program is compiled or dropped. They interleave freely.

What makes it hard, and what must hold nevertheless, is the list of hazards in
`PROJECT.json`, each at the line where it bites and with the properties that
would catch it.

## 2. Modules

| Module | Models | State |
| --- | --- | --- |
| `CostMeter` | `CostMeter`'s fields and pure operations, with both integer widths and their saturation | none (operators) |
| `CostContract` | what `docs/budget.md` promises: each operation is charged as it executes | `meter`, `outcome` |
| `CostDispatch` | the dispatch loop's batches, flushes, settlements, callbacks and nested runs | `meter`, `depth`, `pending`, `control`, `outcome` |
| `CostDispatchProofs` | theorems about `CostDispatch` | |
| `Calls` | `InFlight` and the native levels above it | `st` (the in-flight record), `natives`, `raised`, `unwinding`, `poisoned`, `interrupt`, `outcome`, `phase` |
| `Upvalues` | pool, open list, frames and closures, with the collector | stack, frames, pool, open list, heap |
| `LuaVariables` | the abstract meaning: a variable is a set of names with one value | |
| `TableOps` | `struct Table` as a record and an operator per method | none (operators) |
| `LuaTable` | the manual's meaning of a table: a function from keys to values | none (operators) |
| `Table` | one table through constructor, stores, list operations, sort, load | `t`, `program` and the construction in progress |
| `TableTokens` | a slot token or probe held by a cache | `held` |
| `TableWalk` | a `pairs` loop with its shared cursor | the traversal and the cursor |
| `GlobalEnv` | the global table, mirror, probes, restriction, seal, save and load | `g` and the caches, `host` |
| `FieldAccess` | one read site and one write site over changing metatables | tables, metatables, cache entries, open handler calls |
| `Anchors` | the registries of two States and their queues | registries, queues, handles, heaps |
| `WeakHandles` | string slots with generations and everything that holds them weakly | slots, cells, patterns, identities |
| `WeakHandlesProofs` | the theorem about cache entries | |
| `Runtimes` | the map from bytecode address to runtime | bytecode memory, map, literals, closures, frames |

Each `MC*` module gives the constants of one of them their small values.

Conventions that hold throughout:

- An action is a whole handler. Where the code can be interrupted inside it (the
  collector inside an allocation, another thread between taking a queue and
  applying it, a callback inside a native function) the handler is split at
  exactly those points and nowhere else.
- A refused allocation is an input: operators of TableOps take `memory`, the
  largest window the allocator will grant, and return the table the error leaves.
- Values, names and texts are model values. Only what the properties tell apart
  is kept of them.
- Generations and shape versions wrap in the code. They are kept modulo a small
  space (`GenSpace`, `VersionSpace`). WeakHandles explores the wrap, because the
  code has an argument for it. For table versions (2^64) the code's argument is
  that it is never reached, so the runs keep versions below the wrap.
- Where one run covers several situations, a variable chosen in `Init` and never
  changed (`program`, `host`) holds the inputs and bounds of that situation.

### Cost accounting

`CostDispatch` has one batch per nested run of the dispatch loop. `AddCost` is
the instruction prologue of `Frame::run`: add to the batch, flush when the batch
reaches the check interval or could use up the budget, fail when the meter
refuses. Every call out, return and failure settles the batch. Rust code charges
the meter directly, in one amount or in units, and may set a new budget at any
depth. `ImplementsContract` states that with the pending batch added to the
meter (`ChargedMeter`) this is `CostContract`, where nothing is batched: which
operation is refused, and what `cost_used` reads, does not depend on batching.

### Calls

`Calls` keeps lengths and bounds of the stack, not its contents. A native level
is a call made from Rust, a run of the dispatch loop with its frames, or a
callback. An error unwinds level by level; a callback may handle it or pass it
on; a panic poisons the State and unwinds everything. A tail call drops its
caller at the moment the code does, which differs for a refused, a Rust and a
Lua callee.

### Captured variables

`Upvalues` runs frames with registers and closures with upvalue lists.
`ImplementsVariables` maps a pool slot to the variable it holds: two names share
a variable exactly when they reach the same stack or pool slot. The collector
runs between any two instructions and between capture and allocation.

### Tables

`TableOps` follows `table.rs` method by method: the array part is a window
`base .. base+len` of the logical keys `1 .. vlen`; keys below or beyond live in
the hash part until a migration; hash slots keep tombstones so that traversal
and cached positions stay valid; a slot policy (used for the global tables)
revives or retains them. `OperationsMeanWhatLuaSays` compares each operation
with `LuaTable`, in every reachable representation, under every allocator limit.

### Global environment and field access

Both compare what a warmed cache answers with what a cold lookup answers in the
same state, over tables that are changed by every route the code offers. In
`FieldAccess` a function handler that is called runs any of the actions before
it returns, so a site's caches can change under it.

### Anchors, weak handles, runtimes

Anchoring and collecting are two steps each, because the release queue is taken
under a lock and applied after it. A weak handle's generation is kept relative
to its slot, as an age, so that the model stays finite while slots are recycled
for ever. In `Runtimes` bytecode addresses are reused as soon as no `Arc` holds
the bytecode, the map's own included.

## 3. Runs

`tlc -config <cfg> <module>` repeats a run.

| Run | Module, cfg | Shows |
| --- | --- | --- |
| `cost_dispatch` | `MCCostDispatch` | batched accounting implements the contract; batches stay below the budget; an exhausted meter is frozen; every meter can be saved and loaded; charging n units equals n charges |
| `calls` | `MCCalls` | counters and records agree through success, errors and refusals; whoever runs has its own slots; limits hold; calls from Rust keep the caller's slots; poison is final |
| `calls_interrupt` | `MCCalls`, `MCCallsInterrupt.cfg` | a raised interrupt ends every call (liveness) |
| `upvalues` | `MCUpvalues` | pool and open list implement Lua's variables; nothing in use is freed |
| `table` | `MCTable` | representation exact; every operation means what Lua says; growth only into reserved room; a loaded table continues as the saved one |
| `table_use` | `MCTableWalk` | cached tokens answer for their key; traversals are complete; cursors are invisible; slots keep their keys while the version stands still |
| `table_cursor` | `MCTableWalk`, `MCTableCursor.cfg` | violated: see section 5 |
| `globals` | `MCGlobalEnv` | the mirror is current; caches answer for the environment in force; a load keeps what was saved |
| `fields` | `MCFieldAccess` | reads and writes do not depend on what the site cached, nor on the spelling; sites stay well formed |
| `anchors` | `MCAnchors` | queued keys are live; handles keep their value; the count is right; a drain reclaims |
| `weak` | `MCWeakHandles` | no entry answers for another object; the pattern cache is exact; identities are unique |
| `runtimes` | `MCRuntimes` | whatever executes has its map's runtime; its literals are alive; nested runtimes survive |

### Bounds, and why they are enough

- **cost_dispatch**: four-bit integers in the real relation (`u64::MAX` is twice
  `i64::MAX` plus one). Costs, unit counts and limits reach both ends, so every
  saturating operation saturates; limits have both signs; the interval is larger
  than the small budgets and smaller than the largest, so both causes of a flush
  occur; two native levels give a callback inside a callback.
- **calls**: call depth 3, native depth 2, metamethod depth 1, a stack of 7 with
  frames of 2 registers and 2 slots of headroom: each limit can be hit while the
  others have room. `__call` chains of up to 2 exceed the metamethod limit.
  Calls without arguments suffice here because an argument only moves the base
  of a frame; a vararg arena that is not empty comes from chain receivers.
- **calls_interrupt**: a host value on the stack, and loops that show a state of
  their own (`LoopPhases = 2`), so that an endless loop is a real cycle.
- **upvalues**: three closures, two frames of two registers, two pool slots, two
  captures, five of them together (`MaxShape`): enough for a sibling that
  shares a variable, a recycled slot, and a collection inside creation.
- **table**: keys up to 8 around a largest array length of 7, one sparse key, and
  allocator limits of 6 and 40; then four keys in every order with two values.
  The window moves, refills, resets and migrates, and refusals hit each step.
- **table_use**: inline capacity 2 with three names makes the hash part promote
  and compact; two template constructors; three policies.
- **globals**: a host with a restriction over one builtin and one global, and one
  that saves and loads (repeatedly) with a seal in between.
- **fields**: three programs: methods over a two-level class, strings, and
  forwarded stores, with a metamethod depth of 2 so that the limit decides.
- **anchors**: two States, two slots each, three anchorings, so a slot is reused
  while keys of its earlier tenants are queued.
- **weak**: generation space 4 and prune interval 3, the largest the code's rule
  admits; both pattern bounds and the end of the identity counter are reached.
- **runtimes**: three addresses for two programs, one with a nested function, so
  both fit and a recompiled one takes a freed address.

`anchors`, `table`, `table_use` and `table_cursor` do not check deadlock: a
process whose States are gone, and a program at its bounds, may stop. All others
do.

Symmetry is used in `anchors`, `upvalues` and `runtimes`, for safety properties
only.

### Fairness

One run is about liveness. `Calls` assumes `WF_vars(VmStep)`: a thread inside the
VM keeps executing, and a callback that has returned control to it is among its
steps. That is what a running thread does; nothing is assumed of the host's own
steps or of the thread that raises the interrupt. `InterruptStops` says that if
the interrupt stays raised, control returns to the host again and again. No
assumption is made that any loop or recursion ends.

## 4. Proofs

Checked with `tlapm CostDispatchProofs.tla` and `tlapm WeakHandlesProofs.tla`.

**Cost accounting.** Assumptions: `i64::MAX` is a positive number, costs and
counts are `u64`, limits are `i64`, interval and nesting limit are positive. For
every such choice:

| Theorem | States |
| --- | --- |
| `TypeCorrect` | no counter leaves its width |
| `BatchNeverReachesTheBudget` | what is pending is less than what remains, so no flush is refused |
| `CallbacksSeeExactCosts` | while Rust code runs, no run holds uncharged cost |
| `EveryMeterCanBeRestored` | every reachable meter passes `from_snapshot`'s conditions |
| `ExhaustedMeterFreezes` | a meter at or below zero changes only when a budget is set |
| `DispatchImplementsContract` | `CostDispatch` implements `CostContract` |

The inductive invariant `IInv` joins the type invariant, `BatchStaysBelowBudget`,
`SuspendedRunsAreSettled` and `SnapshotLoads`. None is inductive alone. That a
flush is admitted needs the batch to be below the budget; a callback that lowers
the budget would break that, but for the fact that suspended runs are settled;
and that the snapshot's relation survives a charge needs the charge to have been
admitted. The refinement rests on one algebraic fact, `ChargedTwice`: charging
`a` and then `b` is charging their saturated sum, also when either counter
saturates. From it, settling is invisible (`SettlingIsInvisible`), and an
instruction is charged, refused or batched exactly as the contract's operation
(`AddCostIsAnOperation`).

**Weak handles.** `CacheEntriesNeverAlias`: for any number of slots and cache
cells, and any prune interval below the generation space, no cache cell matches
an object it was not filled for. The code argues this in the comment on
`CACHE_PRUNE_INTERVAL` (`src/vm/object.rs`); no test can reach 2^31 reuses. The
property is not inductive: it must bound the age of entries that do not match
yet. The invariant `AgesAreBounded` says that a dead entry is no older than the
number of collections since the last prune, and strictly younger while its slot
is vacant: a slot is reused at most once per collection, because only a
collection vacates it. A prune comes before the age reaches the generation
space.

Model-checked only: every other property. Liveness under fairness is outside
the prover; what recursive definitions compute for every input would need
induction over data, which it cannot do either (the border search of
`ArrayLen` is an example).

## 5. A disagreement between code and documentation

Run `table_cursor` violates `CursorsAreInvisible`. In a table with hash slots
`x, [2], y`, a `pairs` body that assigns key 1 while its control is key 2 moves
key 2 into the array part and leaves a tombstone in its hash slot. The loop's
cursor still names that slot, whose key is still 2, so
`next_from_matching_index` (`src/vm/table.rs:2562`) goes on with `y`. Without the
cursor `next_with_index` finds key 2 in the array part and walks the hash part
from its start, so the loop goes on with `x`. `docs/determinism.md:169-172` says
that what an instruction returns never depends on what the site saw before, and
`src/vm/caches.rs:557` that a stale cursor cannot give a wrong result. Adding a
key during a traversal is outside what Lua defines, so neither answer is wrong
Lua; the disagreement is with the promise that caches are unobservable. Without
added keys the property holds (`table_use`).

## 6. What is not modelled

- **Save and load as a whole.** Its effect on tables, globals and the meter is
  modelled where they are. Renumbering, the two-pass rebuild of the graph and the
  merge of identities are planned. The byte codec is encoding.
- **Compiler and verifier.** Planned (section 7). Character scanning and numeral
  parsing are sequential and left out.
- **Pattern matching and the libraries.** The pattern cache is modelled; the
  matcher, `gsub`, `gmatch` and `table.sort` with a comparator are planned.
- **Tables**: float keys, `-0.0` and NaN, the hash function, and the metatable
  pointer, which `FieldAccess` has instead.
- **Elementary functions, random numbers, the floating-point environment**: bit
  arithmetic on 64-bit words, out of TLC's reach.
- **Rust function table, value stack interface, error rendering, cost analysis,
  disassembly, command line, benchmarks**: no state that several steps share, or
  input and output only.

## 7. Plan

1. **Save and load** (`SaveGraph`): objects, upvalues and bytecode renumbered, a
   two-pass rebuild without collections, one collection at the end, the merge of
   `%p` identities. Abstract specification: the reachable graph up to renaming.
   It composes with `WeakHandles` (identities) and `Runtimes` (rebuilt entries).
2. **Code generation and verifier** (`RegisterCode`, `Verifier`): the register
   stack discipline and evaluation order over captured locals against a
   left-to-right evaluator; open results and jumps against what the verifier
   accepts.
3. **Pattern matching** (`LuaPattern`): the compiled matcher against a reference
   matcher over short subjects and patterns, with its depth limit and its cost.
4. **Library calls that re-enter**: `gsub`, `gmatch` and `table.sort`, whose
   callback changes what they work on.
5. **Collector thresholds**: automatic collection, its growth and its accounting.
6. **Proofs**: `AgesAreBounded`'s method for anchors (`QueuedKeysAreLive`,
   `HandlesKeepTheirValue`) and for runtimes (`RuntimesAreCached`); the counters
   of `Calls` (`CountsMatch`); lemmas on `TableOps` towards
   `RepresentationIsExact` for the operations that do not search.

New questions join existing runs where they share a module: the programs of the
table runs, the hosts of `globals`, and the pure algorithms of points 2 and 3
in one run.
