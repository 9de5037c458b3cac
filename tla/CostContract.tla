---------------------------- MODULE CostContract ----------------------------
(***************************************************************************)
(* What docs/budget.md promises of cost accounting: every costed operation *)
(* is charged to the meter the moment it executes.  An operation that      *)
(* starts with budget left completes, also when it crosses zero; the next  *)
(* one is refused and changes nothing.                                     *)
(*                                                                         *)
(* This machine has no batches.  CostDispatch, which has, implements it.   *)
(***************************************************************************)
EXTENDS CostMeter

VARIABLES
    meter,    \* the accounting
    outcome   \* units asked and units admitted by the latest charge

contractVars == <<meter, outcome>>

Outcomes == [asked : U64, admitted : U64]

ContractInit ==
    /\ meter \in {NewMeter("off"), NewMeter("metered")}
    /\ outcome = [asked |-> 0, admitted |-> 0]

Operation(c) ==
    /\ meter' = Consume(meter, c)
    /\ outcome' = [asked |-> 1, admitted |-> IF Admits(meter, c) THEN 1 ELSE 0]

Units(n, unit) ==
    /\ meter' = ConsumeUnits(meter, n, unit)
    /\ outcome' = [asked |-> n, admitted |-> UnitsAdmitted(meter, n, unit)]

Budget(limit) ==
    /\ meter' = SetBudget(meter, limit)
    /\ UNCHANGED outcome

ContractNext ==
    \/ \E c \in Costs : Operation(c)
    \/ \E n \in UnitCounts, unit \in Costs : Units(n, unit)
    \/ \E limit \in Limits : Budget(limit)

ContractSpec == ContractInit /\ [][ContractNext]_contractVars
=============================================================================
