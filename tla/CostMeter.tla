----------------------------- MODULE CostMeter -----------------------------
(***************************************************************************)
(* The cost meter of a State (src/cost_meter.rs): its fields and the pure  *)
(* operations on them.  Two machines are built on it: CostContract, where  *)
(* every charge reaches the meter at once, and CostDispatch, where the     *)
(* dispatch loop batches the charges of its instructions.                  *)
(*                                                                         *)
(* The two integer widths matter: `remaining` is an i64 that saturates at  *)
(* its minimum, `used` a u64 that saturates at its maximum.  I64Max stands *)
(* for 2^63 - 1; the relation between the two widths is the real one.      *)
(***************************************************************************)
EXTENDS Integers

CONSTANTS
    I64Max,     \* i64::MAX
    Costs,      \* what one operation, or one unit of work, may cost
    UnitCounts, \* how many units a native function charges at a time
    Limits      \* the budgets a host sets

ASSUME I64MaxAssumption == I64Max \in Nat \ {0}

I64Min == -I64Max - 1
U64Max == 2 * I64Max + 1

I64 == I64Min .. I64Max
U64 == 0 .. U64Max

ASSUME CostInputsAssumption ==
    /\ Costs \subseteq U64
    /\ UnitCounts \subseteq U64
    /\ Limits \subseteq I64

(***************************************************************************)
(* A meter.  "off" is Costing::Off, "metered" a CostModel.  Without a      *)
(* budget `limit` and `remaining` read as i64::MAX, which is also how a    *)
(* snapshot stores the absence of one.                                     *)
(***************************************************************************)
Meters == [costing : {"off", "metered"}, configured : BOOLEAN,
           limit : I64, remaining : I64, used : U64]

NewMeter(costing) ==
    [costing |-> costing, configured |-> FALSE,
     limit |-> I64Max, remaining |-> I64Max, used |-> 0]

(* saturating_add, saturating_mul and saturating_sub_unsigned *)
SatAdd(a, b) == IF a + b > U64Max THEN U64Max ELSE a + b
SatMul(a, b) == IF a * b > U64Max THEN U64Max ELSE a * b
SatSub(r, c) == IF r - c < I64Min THEN I64Min ELSE r - c

(***************************************************************************)
(* set_budget: refused without effect when costing is off.  A negative     *)
(* limit is accepted.                                                      *)
(***************************************************************************)
SetBudget(m, limit) ==
    IF m.costing = "off"
    THEN m
    ELSE [m EXCEPT !.configured = TRUE, !.limit = limit,
                   !.remaining = limit, !.used = 0]

(***************************************************************************)
(* CostMeter::consume, split into its answer and its effect.               *)
(***************************************************************************)
Admits(m, c) == ~m.configured \/ c = 0 \/ m.remaining > 0

ChargedWithoutUsed(m, c) ==
    IF m.costing = "off" THEN m
    ELSE [m EXCEPT !.remaining = IF m.configured THEN SatSub(@, c) ELSE @]

Charged(m, c) ==
    IF m.costing = "off" THEN m
    ELSE [m EXCEPT !.remaining = IF m.configured THEN SatSub(@, c) ELSE @,
                   !.used = SatAdd(@, c)]

Consume(m, c) == IF Admits(m, c) THEN Charged(m, c) ELSE m

(***************************************************************************)
(* consume_units_admitted: n units at `unit` each, charged in one step.    *)
(* With a budget, the units admitted are those a loop of single charges    *)
(* would admit: the one that crosses zero completes.                       *)
(***************************************************************************)
CeilDiv(r, unit) == (r + unit - 1) \div unit

UnitsAdmittedRoundingDown(m, n, unit) ==
    IF ~m.configured \/ n = 0 \/ unit = 0 THEN n
    ELSE IF m.remaining <= 0 THEN 0
    ELSE IF n <= m.remaining \div unit THEN n ELSE m.remaining \div unit

UnitsAdmitted(m, n, unit) ==
    IF ~m.configured \/ n = 0 \/ unit = 0 THEN n
    ELSE IF m.remaining <= 0 THEN 0
    ELSE IF n <= CeilDiv(m.remaining, unit) THEN n ELSE CeilDiv(m.remaining, unit)

ConsumeUnits(m, n, unit) == Charged(m, SatMul(UnitsAdmitted(m, n, unit), unit))

(* batch_needs_flush: the batch would use the budget up *)
BatchNeedsFlush(m, batch) == m.configured /\ SatSub(m.remaining, batch) <= 0

(***************************************************************************)
(* from_snapshot.  Whether the fields a snapshot stores describe a meter   *)
(* a State can have; a snapshot that fails this does not load.             *)
(***************************************************************************)
SnapshotAccepted(costing, configured, limit, remaining, used) ==
    /\ IF configured
       THEN /\ limit > 0 \/ used = 0
            /\ remaining = SatSub(limit, used)
       ELSE limit = I64Max /\ remaining = I64Max
    /\ costing = "off" => ~configured /\ used = 0
=============================================================================
