------------------------------ MODULE Upvalues ------------------------------
(***************************************************************************)
(* Captured variables (src/vm/object.rs, eval.rs, registers.rs).  A local  *)
(* lives in a stack slot.  The first closure that captures it opens a pool *)
(* slot pointing at the stack slot, later ones share it, and when the      *)
(* frame leaves the slot the pool slot is closed over its last value.      *)
(* Pool slots are not objects: a collection recycles those that no         *)
(* reachable closure and no open entry names.                              *)
(*                                                                         *)
(* The module runs whole frames: calls, tail calls, returns, errors that   *)
(* unwind an invocation, calls re-entered through Rust, and collections    *)
(* between any two instructions and inside closure creation.               *)
(***************************************************************************)
EXTENDS Naturals, Sequences, FiniteSets, SequencesExt, TLC

CONSTANTS
    Objects,     \* keys the heap ever hands out; here closures only
    Data,        \* values that are not objects
    Nil,
    Width,       \* registers of a frame (Bytecode::max_stack)
    MaxFrames,   \* bound on the call depth
    MaxPool,     \* bound on the pool's slots
    MaxCaptures, \* bound on the upvalues of one function
    MaxShape     \* bound on frames, closures and pool slots together

ASSUME UpvaluesAssumption ==
    /\ Nil \notin Objects \cup Data
    /\ Objects \cap Data = {}
    /\ Width \in Nat \ {0} /\ MaxFrames \in Nat \ {0}
    /\ {MaxPool, MaxCaptures, MaxShape} \subseteq Nat

VARIABLES
    stack,   \* State::stack
    frames,  \* the frames of all invocations, innermost last
    open,    \* InFlight::open_upvalues
    pool,    \* UpvaluePool::slots
    free,    \* UpvaluePool::free; a slot is coloured Free iff it is listed
    heap,    \* live closures and their upvalue references
    global   \* a global variable

vars == <<stack, frames, open, pool, free, heap, global>>

Values == Objects \cup Data \cup {Nil}

OpenAt(i) == [open |-> TRUE, at |-> i, value |-> Nil]
ClosedOver(v) == [open |-> FALSE, at |-> 0, value |-> v]

IsClosure(v) == v \in DOMAIN heap

MaxStack == 1 + MaxFrames * Width

TypeOK ==
    /\ stack \in Seq(Values) /\ Len(stack) <= MaxStack
    /\ frames \in Seq([bottom : 1 .. MaxStack + 1, entry : BOOLEAN,
                       upvalues : Seq(1 .. MaxPool)])
    /\ open \in Seq([at : 1 .. MaxStack, ref : 1 .. MaxPool])
    /\ pool \in Seq([open : BOOLEAN, at : 0 .. MaxStack, value : Values])
    /\ free \in Seq(1 .. MaxPool)
    /\ DOMAIN heap \subseteq Objects
    /\ \A c \in DOMAIN heap : heap[c] \in Seq(1 .. MaxPool)
    /\ global \in Values

(* A host pushed a loaded chunk, a closure without upvalues. *)
Init ==
    /\ \E main \in Objects : stack = <<main>> /\ heap = [c \in {main} |-> <<>>]
    /\ frames = <<>> /\ open = <<>> /\ pool = <<>> /\ free = <<>>
    /\ global = Nil

-----------------------------------------------------------------------------
(* The running frame, its registers as stack positions, its upvalues. *)
Running == frames # <<>>
Bottom == Last(frames).bottom
Registers == Bottom .. Bottom + Width - 1

(* Vec::resize(n, Nil) *)
Resized(s, n) == [i \in 1 .. n |-> IF i <= Len(s) THEN s[i] ELSE Nil]

(* upvalue_value *)
ReadSlot(r) == IF pool[r].open THEN stack[pool[r].at] ELSE pool[r].value

(***************************************************************************)
(* close_upvalues: entries leave from the end of the sorted list while     *)
(* they are at or above the level, each taking the value under it.         *)
(***************************************************************************)
ClosedTo(level) == {k \in 1 .. Len(open) : \A j \in k .. Len(open) : open[j].at >= level}

ClosedPool(level) ==
    [r \in 1 .. Len(pool) |->
        IF \E k \in ClosedTo(level) : open[k].ref = r
        THEN ClosedOver(stack[open[CHOOSE k \in ClosedTo(level) : open[k].ref = r].at])
        ELSE pool[r]]

CloseUpvalues(level) ==
    /\ open' = SubSeq(open, 1, Len(open) - Cardinality(ClosedTo(level)))
    /\ pool' = ClosedPool(level)

-----------------------------------------------------------------------------
(***************************************************************************)
(* Collection: mark from the value stack and the globals through closed    *)
(* upvalues; sweep the closures not reached, then the pool slots neither a *)
(* reached closure nor an open entry names.  `pl`, `op` and `fr` are the   *)
(* pool, open list and free list at the moment of the collection.          *)
(***************************************************************************)
RootValues == Range(stack) \cup {global}

References(c, pl) == {pl[r].value : r \in {q \in Range(heap[c]) : ~pl[q].open}}

Traced(S, pl) == \A c \in S : References(c, pl) \cap DOMAIN heap \subseteq S

Marked(pl) ==
    LET roots == RootValues \cap DOMAIN heap
    IN  {c \in DOMAIN heap :
            \A S \in SUBSET DOMAIN heap : roots \subseteq S /\ Traced(S, pl) => c \in S}

OpenRefs(op) == {e.ref : e \in Range(op)}

MarkedSlotsOfClosures(live, op) == UNION {Range(heap[c]) : c \in live}

MarkedSlots(live, op) ==
    UNION {Range(heap[c]) : c \in live} \cup OpenRefs(op)

(* The slots UpvaluePool::sweep frees, in the order it lists them *)
SlotsExcept(kept, pl) == SelectSeq([r \in 1 .. Len(pl) |-> r], LAMBDA r : r \notin kept)

Swept(live, pl, op, fr) == SlotsExcept(MarkedSlots(live, op) \cup Range(fr), pl)

SweptPool(swept, pl) ==
    [r \in 1 .. Len(pl) |-> IF r \in Range(swept) THEN ClosedOver(Nil) ELSE pl[r]]

Collect ==
    \E live \in {Marked(pool)} : \E swept \in {Swept(live, pool, open, free)} :
        /\ heap' = [c \in live |-> heap[c]]
        /\ pool' = SweptPool(swept, pool)
        /\ free' = free \o swept
        /\ UNCHANGED <<stack, frames, open, global>>

-----------------------------------------------------------------------------
(***************************************************************************)
(* reg_closure.  Capturing walks the descriptors in order: a local finds   *)
(* its open entry or opens a slot (UpvaluePool::alloc: the last freed, or  *)
(* a new one) inserted by position; an upvalue is shared with the running  *)
(* closure.  The allocation may then collect, before the closure exists.   *)
(***************************************************************************)
Descriptors ==
    [local : {TRUE}, index : 0 .. Width - 1]
    \cup [local : {FALSE}, index : DOMAIN Last(frames).upvalues]

Alloc(cap, upvalue) ==
    IF cap.free # <<>>
    THEN [ref |-> Last(cap.free), free |-> Front(cap.free),
          pool |-> [cap.pool EXCEPT ![Last(cap.free)] = upvalue]]
    ELSE [ref |-> Len(cap.pool) + 1, free |-> <<>>, pool |-> Append(cap.pool, upvalue)]

OpenSlot(cap, at) ==
    LET slot == Alloc(cap, OpenAt(at))
        below == Cardinality({k \in 1 .. Len(cap.open) : cap.open[k].at < at})
    IN  [open |-> InsertAt(cap.open, below + 1, [at |-> at, ref |-> slot.ref]),
         pool |-> slot.pool, free |-> slot.free, refs |-> Append(cap.refs, slot.ref)]

(* find_or_create_upvalue *)
FindOrCreateUpvalue(cap, at) ==
    IF \E e \in Range(cap.open) : e.at = at
    THEN [cap EXCEPT !.refs = Append(@, (CHOOSE e \in Range(cap.open) : e.at = at).ref)]
    ELSE OpenSlot(cap, at)

Capture(cap, desc) ==
    IF desc.local
    THEN FindOrCreateUpvalue(cap, Bottom + desc.index)
    ELSE [cap EXCEPT !.refs = Append(@, Last(frames).upvalues[desc.index])]

Captured(descs) ==
    FoldLeft(Capture, [open |-> open, pool |-> pool, free |-> free, refs |-> <<>>], descs)

Fits(depth, closures, slots) == depth + Cardinality(DOMAIN closures) + Len(slots) <= MaxShape

(* What is live, and what is swept, when the allocation collects or not *)
KeptBy(collects, pl) == IF collects THEN Marked(pl) ELSE DOMAIN heap
SweptBy(collects, live, cap) ==
    IF collects THEN Swept(live, cap.pool, cap.open, cap.free) ELSE <<>>

NewClosure(descs) ==
    \E cap \in {Captured(descs)}, collects \in BOOLEAN :
    \E live \in {KeptBy(collects, cap.pool)} :
    \E swept \in {SweptBy(collects, live, cap)} :
        /\ Len(cap.pool) <= MaxPool
        /\ pool' = SweptPool(swept, cap.pool)
        /\ free' = cap.free \o swept
        /\ \E c \in Objects \ DOMAIN heap, dst \in Registers :
              /\ heap' = [d \in live \cup {c} |-> IF d = c THEN cap.refs ELSE heap[d]]
              /\ Fits(Len(frames), heap', cap.pool)
              /\ stack' = [stack EXCEPT ![dst] = c]
        /\ open' = cap.open
        /\ UNCHANGED <<frames, global>>

-----------------------------------------------------------------------------
(* Register moves and the instructions on upvalues and globals *)
Move(dst, v) ==
    /\ stack' = [stack EXCEPT ![dst] = v]
    /\ UNCHANGED <<frames, open, pool, free, heap, global>>

GetUpvalue(dst, k) ==
    /\ stack' = [stack EXCEPT ![dst] = ReadSlot(Last(frames).upvalues[k])]
    /\ UNCHANGED <<frames, open, pool, free, heap, global>>

SetUpvalue(k, src) ==
    /\ LET r == Last(frames).upvalues[k]
       IN  IF pool[r].open
           THEN stack' = [stack EXCEPT ![pool[r].at] = stack[src]] /\ UNCHANGED pool
           ELSE pool' = [pool EXCEPT ![r] = ClosedOver(stack[src])] /\ UNCHANGED stack
    /\ UNCHANGED <<frames, open, free, heap, global>>

GetGlobal(dst) ==
    /\ stack' = [stack EXCEPT ![dst] = global]
    /\ UNCHANGED <<frames, open, pool, free, heap, global>>

SetGlobal(src) ==
    /\ global' = stack[src]
    /\ UNCHANGED <<stack, frames, open, pool, free, heap>>

(* A block with captured locals ends. *)
CloseBlock(from) ==
    /\ CloseUpvalues(from)
    /\ UNCHANGED <<stack, frames, free, heap, global>>

-----------------------------------------------------------------------------
(***************************************************************************)
(* Calls.  The callee at position f has its arguments above it; the        *)
(* compiler keeps them above every captured register.  A Lua callee's      *)
(* frame starts above its function slot, padded with nil.  A Rust function *)
(* in between leaves its slot to the function it calls and makes the new   *)
(* frame the entry of an invocation of its own.                            *)
(***************************************************************************)
CallWindow(f, args) ==
    /\ f + args <= Bottom + Width - 1
    /\ IsClosure(stack[f])
    /\ \A e \in Range(open) : e.at < f

Call(f, args, entry) ==
    /\ CallWindow(f, args)
    /\ Len(frames) < MaxFrames /\ Fits(Len(frames) + 1, heap, pool)
    /\ stack' = Resized(SubSeq(stack, 1, f + args), f + Width)
    /\ frames' = Append(frames, [bottom |-> f + 1, entry |-> entry, upvalues |-> heap[stack[f]]])
    /\ UNCHANGED <<open, pool, free, heap, global>>

TailCallWithoutClosing(f, args) ==
    /\ CallWindow(f, args)
    /\ stack' = Resized(SubSeq(stack, 1, Bottom - 2) \o SubSeq(stack, f, f + args),
                        Bottom - 1 + Width)
    /\ frames' = [frames EXCEPT ![Len(frames)].upvalues = heap[stack[f]]]
    /\ UNCHANGED <<open, pool, free, heap, global>>

TailCall(f, args) ==
    /\ CallWindow(f, args)
    /\ CloseUpvalues(Bottom)
    /\ stack' = Resized(SubSeq(stack, 1, Bottom - 2) \o SubSeq(stack, f, f + args),
                        Bottom - 1 + Width)
    /\ frames' = [frames EXCEPT ![Len(frames)].upvalues = heap[stack[f]]]
    /\ UNCHANGED <<free, heap, global>>

(* The stack of the caller once `result` is in the callee's function slot *)
BackInCaller(result, callee, depth) ==
    LET below == SubSeq(stack, 1, callee.bottom - 2)
    IN  IF depth = 0 THEN Append(below, result)
        ELSE Resized(Append(below, result), frames[depth].bottom + Width - 1)

(* collect_returns, then pop_activation: upvalues close before values move. *)
Return(result) ==
    /\ CloseUpvalues(Bottom)
    /\ stack' = BackInCaller(result, Last(frames), Len(frames) - 1)
    /\ frames' = Front(frames)
    /\ UNCHANGED <<free, heap, global>>

(***************************************************************************)
(* unwind_invocation, then fail_call: every frame of the failing           *)
(* invocation is closed and truncated, innermost first; the Rust function  *)
(* that made the call handles the error and returns nothing.               *)
(***************************************************************************)
EntryIndex == CHOOSE i \in 1 .. Len(frames) :
    frames[i].entry /\ \A j \in i + 1 .. Len(frames) : ~frames[j].entry

Error ==
    /\ Running
    /\ CloseUpvalues(frames[EntryIndex].bottom)
    /\ frames' = SubSeq(frames, 1, EntryIndex - 1)
    /\ stack' = IF EntryIndex = 1 THEN SubSeq(stack, 1, frames[1].bottom - 2)
                ELSE BackInCaller(Nil, frames[EntryIndex], EntryIndex - 1)
    /\ UNCHANGED <<free, heap, global>>

(* The host, between calls *)
HostCall ==
    /\ ~Running /\ stack # <<>> /\ IsClosure(Last(stack)) /\ Fits(1, heap, pool)
    /\ frames' = <<[bottom |-> Len(stack) + 1, entry |-> TRUE, upvalues |-> heap[Last(stack)]]>>
    /\ stack' = Resized(stack, Len(stack) + Width)
    /\ UNCHANGED <<open, pool, free, heap, global>>

HostPop ==
    /\ ~Running /\ stack # <<>>
    /\ stack' = Front(stack)
    /\ UNCHANGED <<frames, open, pool, free, heap, global>>

HostGetGlobal ==
    /\ ~Running /\ stack = <<>>
    /\ stack' = <<global>>
    /\ UNCHANGED <<frames, open, pool, free, heap, global>>

DescriptorLists == UNION {[1 .. n -> Descriptors] : n \in 0 .. MaxCaptures}

Next ==
    \/ /\ Running
       /\ \E descs \in DescriptorLists : NewClosure(descs)
    \/ /\ Running
       /\ \E i \in Registers :
             \/ \E v \in Data \cup {Nil} \cup {stack[r] : r \in Registers} : Move(i, v)
             \/ \E k \in DOMAIN Last(frames).upvalues : GetUpvalue(i, k) \/ SetUpvalue(k, i)
             \/ GetGlobal(i)
             \/ SetGlobal(i)
             \/ CloseBlock(i)
             \/ \E args \in 0 .. Width :
                   TailCall(i, args) \/ \E entry \in BOOLEAN : Call(i, args, entry)
    \/ Running /\ \E v \in {Nil} \cup {stack[i] : i \in Registers} : Return(v)
    \/ Error
    \/ Collect
    \/ HostCall
    \/ HostPop
    \/ HostGetGlobal

Spec == Init /\ [][Next]_vars

-----------------------------------------------------------------------------
(***************************************************************************)
(* The state is well typed.  The open list is sorted by stack position     *)
(* without repetition, which the binary search and the closing loop rely   *)
(* on; it lists exactly the open slots of the pool, and every position in  *)
(* it is on the stack and belongs to a frame that is still running.        *)
(***************************************************************************)
OpenListMatchesPool ==
    /\ TypeOK
    /\ \A j, k \in 1 .. Len(open) : j < k => open[j].at < open[k].at
    /\ \A e \in Range(open) :
          /\ pool[e.ref] = OpenAt(e.at)
          /\ Running /\ frames[1].bottom <= e.at /\ e.at <= Len(stack)
    /\ \A r \in 1 .. Len(pool) : pool[r].open => r \in OpenRefs(open)

(***************************************************************************)
(* Nothing a program can use has been freed.  No reference of a running    *)
(* frame, a live closure or an open entry names a recycled slot, and a     *)
(* slot is on the free list once, so no two upvalues are ever given the    *)
(* same one (the assertions of mark_slot and UpvaluePool::get).  Every     *)
(* object on the stack, in the global or in the upvalue of a live closure  *)
(* is in the heap, and so is the closure of every running frame.  The open *)
(* list and the pool agree (above).                                        *)
(***************************************************************************)
UsedRefs ==
    UNION {Range(heap[c]) : c \in DOMAIN heap} \cup OpenRefs(open)
        \cup UNION {Range(f.upvalues) : f \in Range(frames)}

NothingInUseIsFreed ==
    /\ OpenListMatchesPool
    /\ IsInjective(free)
    /\ Range(free) \cap UsedRefs = {}
    /\ RootValues \cap Objects \subseteq DOMAIN heap
    /\ \A c \in DOMAIN heap : References(c, pool) \cap Objects \subseteq DOMAIN heap
    /\ \A f \in Range(frames) :
          /\ IsClosure(stack[f.bottom - 1])
          /\ heap[stack[f.bottom - 1]] = f.upvalues

(***************************************************************************)
(* Upvalues implement Lua's variables: sharing, closing on every way out   *)
(* of a frame, recycling and collecting are invisible.                     *)
(***************************************************************************)
NamesOf(r) == {<<c, k>> \in Objects \X (1 .. MaxCaptures) :
                  c \in DOMAIN heap /\ k \in DOMAIN heap[c] /\ heap[c][k] = r}

VariableAt(i) ==
    [names |-> {<<Nil, i>>} \cup
                  UNION {NamesOf(r) : r \in {q \in 1 .. Len(pool) : pool[q].open /\ pool[q].at = i}},
     value |-> stack[i]]

VariablesClosed ==
    {[names |-> NamesOf(r), value |-> pool[r].value] :
        r \in {q \in 1 .. Len(pool) : ~pool[q].open /\ NamesOf(q) # {}}}

Variables == INSTANCE LuaVariables WITH
    Closures <- Objects, MaxPosition <- MaxStack, MaxUpvalues <- MaxCaptures,
    variables <- {VariableAt(i) : i \in 1 .. Len(stack)} \cup VariablesClosed,
    closures <- DOMAIN heap

ImplementsVariables == Variables!VSpec

(* Closures are only compared. *)
Symmetry == Permutations(Objects)
=============================================================================
