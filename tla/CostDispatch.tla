---------------------------- MODULE CostDispatch ----------------------------
(***************************************************************************)
(* Cost accounting as the VM does it (src/vm/frame.rs, the charging half   *)
(* of src/vm.rs).  Every run of the dispatch loop collects the cost of its *)
(* instructions in a local batch, and moves the batch to the meter when it *)
(* reaches Interval, when it would use the budget up, before every call    *)
(* out and return, and when the run fails.  Rust code, the host's at depth *)
(* 0 or a callback's above it, charges the meter directly, reads it, sets  *)
(* a new budget, and may enter the VM again, which starts another run with *)
(* a batch of its own.                                                     *)
(***************************************************************************)
EXTENDS CostMeter

CONSTANTS
    Interval,       \* COST_CHECK_INTERVAL
    MaxNativeDepth  \* MAX_NATIVE_CALL_DEPTH

ASSUME IntervalAssumption == Interval \in Nat \ {0}

ASSUME NativeDepthAssumption == MaxNativeDepth \in Nat \ {0}

VARIABLES
    meter,    \* State::cost
    depth,    \* runs of the dispatch loop in progress, the innermost last
    pending,  \* local_cost of each run
    control,  \* "lua" while the innermost run dispatches, else "rust"
    outcome   \* units asked and units admitted by the latest charge

vars == <<meter, depth, pending, control, outcome>>

(* The batch of the innermost run; 0 when no run is in progress. *)
Batch == IF depth = 0 THEN 0 ELSE pending[depth]

TypeOK ==
    /\ meter \in Meters
    /\ depth \in 0 .. MaxNativeDepth
    /\ pending \in [1 .. MaxNativeDepth -> U64]
    /\ control \in {"rust", "lua"}
    /\ outcome \in [asked : U64, admitted : U64]

Init ==
    /\ meter \in {NewMeter("off"), NewMeter("metered")}
    /\ depth = 0
    /\ pending = [d \in 1 .. MaxNativeDepth |-> 0]
    /\ control = "rust"
    /\ outcome = [asked |-> 0, admitted |-> 0]

-----------------------------------------------------------------------------
(* Rust code: the host, or a callback a run called.                        *)

SetCostBudget(limit) ==
    /\ control = "rust"
    /\ meter' = SetBudget(meter, limit)
    /\ UNCHANGED <<depth, pending, control, outcome>>

(* consume_cost, charge_cost, charge *)
ConsumeCostCheckingTheLimit(c) ==
    /\ control = "rust"
    /\ meter' = IF ~meter.configured \/ meter.limit > 0 THEN Charged(meter, c) ELSE meter
    /\ outcome' = [asked |-> 1, admitted |-> IF Admits(meter, c) THEN 1 ELSE 0]
    /\ UNCHANGED <<depth, pending, control>>

ConsumeCost(c) ==
    /\ control = "rust"
    /\ meter' = Consume(meter, c)
    /\ outcome' = [asked |-> 1, admitted |-> IF Admits(meter, c) THEN 1 ELSE 0]
    /\ UNCHANGED <<depth, pending, control>>

ChargeUnits(n, unit) ==
    /\ control = "rust"
    /\ meter' = ConsumeUnits(meter, n, unit)
    /\ outcome' = [asked |-> n, admitted |-> UnitsAdmitted(meter, n, unit)]
    /\ UNCHANGED <<depth, pending, control>>

(* State::call of a Lua function: a new run, with an empty batch. *)
EnterRun ==
    /\ control = "rust"
    /\ depth < MaxNativeDepth
    /\ depth' = depth + 1
    /\ pending' = [pending EXCEPT ![depth'] = 0]
    /\ control' = "lua"
    /\ UNCHANGED <<meter, outcome>>

-----------------------------------------------------------------------------
(* The dispatch loop.                                                      *)

(* Frame::run on an error: what executed is charged, the answer ignored. *)
FailRunDroppingBatch ==
    /\ meter' = meter
    /\ pending' = [pending EXCEPT ![depth] = 0]
    /\ depth' = depth - 1
    /\ control' = "rust"

FailRun ==
    /\ meter' = Consume(meter, Batch)
    /\ pending' = [pending EXCEPT ![depth] = 0]
    /\ depth' = depth - 1
    /\ control' = "rust"

(* settle_cost and flush_local_cost: the batch reaches the meter at once. *)
Settle(batch) ==
    /\ meter' = Charged(meter, batch)
    /\ pending' = [pending EXCEPT ![depth] = 0]

(***************************************************************************)
(* add_cost!, for every instruction whose weight is not 0 (fixed_cost!     *)
(* skips the others, and with costing off every effective weight is 0) and *)
(* for the elements SET_LIST stores.                                       *)
(***************************************************************************)
AddCostCheckingIntervalOnly(c) ==
    /\ control = "lua"
    /\ meter.costing # "off" /\ c > 0
    /\ LET next == SatAdd(Batch, c)
       IN  IF next < Interval
           THEN /\ pending' = [pending EXCEPT ![depth] = next]
                /\ outcome' = [asked |-> 1, admitted |-> 1]
                /\ UNCHANGED <<meter, depth, control>>
           ELSE IF Admits(meter, next)
           THEN /\ Settle(next)
                /\ outcome' = [asked |-> 1, admitted |-> 1]
                /\ UNCHANGED <<depth, control>>
           ELSE FailRun /\ outcome' = [asked |-> 1, admitted |-> 0]

AddCost(c) ==
    /\ control = "lua"
    /\ meter.costing # "off" /\ c > 0
    /\ LET next == SatAdd(Batch, c)
       IN  IF next < Interval /\ ~BatchNeedsFlush(meter, next)
           THEN /\ pending' = [pending EXCEPT ![depth] = next]
                /\ outcome' = [asked |-> 1, admitted |-> 1]
                /\ UNCHANGED <<meter, depth, control>>
           ELSE IF Admits(meter, next)
           THEN /\ Settle(next)
                /\ outcome' = [asked |-> 1, admitted |-> 1]
                /\ UNCHANGED <<depth, control>>
           ELSE FailRun /\ outcome' = [asked |-> 1, admitted |-> 0]

(* A step that flushes first; the run fails if the flush is refused. *)
FlushThen(step) ==
    /\ control = "lua"
    /\ UNCHANGED outcome
    /\ IF Admits(meter, Batch) THEN Settle(Batch) /\ step ELSE FailRun

(* CALL, TAILCALL and RETURN between Lua functions of one run *)
CallLua == FlushThen(UNCHANGED <<depth, control>>)

(* CALL, TAILCALL, TFOR_CALL and metamethod calls that reach Rust code *)
CallRust == FlushThen(control' = "rust" /\ UNCHANGED depth)

(* RETURN of the run's entry function *)
LeaveRun == FlushThen(control' = "rust" /\ depth' = depth - 1)

(* An instruction fails for a reason that is not the budget. *)
RuntimeError == control = "lua" /\ FailRun /\ UNCHANGED outcome

(* A callback returns to the run that called it, or fails it. *)
CallbackReturns ==
    /\ control = "rust" /\ depth > 0
    /\ control' = "lua"
    /\ UNCHANGED <<meter, depth, pending, outcome>>

CallbackFails == control = "rust" /\ depth > 0 /\ FailRun /\ UNCHANGED outcome

Next ==
    \/ \E limit \in Limits : SetCostBudget(limit)
    \/ \E c \in Costs : ConsumeCost(c)
    \/ \E n \in UnitCounts, unit \in Costs : ChargeUnits(n, unit)
    \/ EnterRun
    \/ \E c \in Costs : AddCost(c)
    \/ CallLua
    \/ CallRust
    \/ LeaveRun
    \/ RuntimeError
    \/ CallbackReturns
    \/ CallbackFails

Spec == Init /\ [][Next]_vars

-----------------------------------------------------------------------------
(***************************************************************************)
(* A batch never reaches the budget's edge (the comment in Frame::run,     *)
(* "pending never reaches budget edge"): whatever is pending could still   *)
(* be charged and leave budget over.  So no flush is ever refused, and     *)
(* only the operation that was to be charged raises BudgetExceeded.        *)
(***************************************************************************)
BatchStaysBelowBudget ==
    meter.configured /\ Batch > 0 => Batch < meter.remaining

(***************************************************************************)
(* Only the run that dispatches has a batch.  While Rust code runs, every  *)
(* suspended run has been flushed, so cost_used is exact in a callback and *)
(* a budget set there is not charged with earlier work.                    *)
(***************************************************************************)
SuspendedRunsAreSettled ==
    /\ control = "rust" => Batch = 0
    /\ \A d \in 1 .. MaxNativeDepth : d # depth => pending[d] = 0
    /\ meter.costing = "off" => Batch = 0

(***************************************************************************)
(* Whatever was charged, saturated or refused, in whatever order, the      *)
(* meter's fields stay in the relation that from_snapshot demands: a State *)
(* can always be saved and its snapshot loads.                             *)
(***************************************************************************)
SnapshotLoads ==
    SnapshotAccepted(meter.costing, meter.configured,
                     meter.limit, meter.remaining, meter.used)

(***************************************************************************)
(* A meter at or below zero moves only by a new budget: no run, flush,     *)
(* settled error or native charge takes more from it.                      *)
(***************************************************************************)
NextOnlyBudget ==
    meter.configured /\ meter.remaining <= 0 =>
        \/ meter' = meter
        \/ meter'.used = 0 /\ meter'.remaining = meter'.limit
ExhaustedMeterIsFrozen == [][NextOnlyBudget]_vars

(***************************************************************************)
(* The unit loop that consume_units claims to equal: charge one unit at a  *)
(* time and stop at the first refusal.                                     *)
(***************************************************************************)
UnitLoop(m, n, unit) ==
    LET after[k \in 0 .. n] ==
            IF k = 0 THEN [meter |-> m, admitted |-> 0, open |-> TRUE]
            ELSE LET s == after[k - 1]
                 IN  IF s.open /\ Admits(s.meter, unit)
                     THEN [meter |-> Charged(s.meter, unit),
                           admitted |-> s.admitted + 1, open |-> TRUE]
                     ELSE [s EXCEPT !.open = FALSE]
    IN  after[n]

(***************************************************************************)
(* consume_units_admitted charges n units "with the exact outcome of n     *)
(* consecutive consume(unit) calls", on every meter the machine reaches.   *)
(***************************************************************************)
UnitsEqualUnitLoop ==
    \A n \in UnitCounts, unit \in Costs :
        LET loop == UnitLoop(meter, n, unit)
        IN  /\ ConsumeUnits(meter, n, unit) = loop.meter
            /\ UnitsAdmitted(meter, n, unit) = loop.admitted

(***************************************************************************)
(* The batched machine implements the contract: with the batch counted as  *)
(* charged, every instruction, native charge and new budget does what the  *)
(* unbatched meter does, and flushes and settled errors do nothing.  The   *)
(* interval therefore never decides which operation is the last one.       *)
(***************************************************************************)
ChargedMeter == Charged(meter, Batch)

Contract == INSTANCE CostContract WITH meter <- ChargedMeter

ImplementsContract == Contract!ContractSpec
=============================================================================
