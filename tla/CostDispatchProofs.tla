------------------------- MODULE CostDispatchProofs -------------------------
(***************************************************************************)
(* For every integer width, interval, nesting limit and set of costs:      *)
(* the accounting invariants of CostDispatch hold, and it implements       *)
(* CostContract.                                                           *)
(***************************************************************************)
EXTENDS CostDispatch, WellFoundedInduction, TLAPS

(* The saturating operations stay in their type. *)
LEMMA SaturationTypes ==
    /\ \A a, b \in U64 : SatAdd(a, b) \in U64 /\ SatMul(a, b) \in U64
    /\ \A r \in I64, c \in U64 : SatSub(r, c) \in I64
  <1>1. \A a, b \in U64 : a * b \in Nat
    BY I64MaxAssumption DEF U64, U64Max
  <1> QED
    BY <1>1, I64MaxAssumption DEF SatAdd, SatMul, SatSub, U64, U64Max, I64, I64Min

(* Saturating twice is saturating once: a batch may be charged in parts. *)
LEMMA SaturationComposes ==
    /\ \A u, a, b \in U64 : SatAdd(SatAdd(u, a), b) = SatAdd(u, SatAdd(a, b))
    /\ \A r \in I64, a, b \in U64 :
           SatSub(SatSub(r, a), b) = SatSub(r, SatAdd(a, b))
  BY I64MaxAssumption DEF SatAdd, SatSub, U64, U64Max, I64, I64Min

LEMMA ConstantTypes ==
    /\ 0 \in U64 /\ 1 \in U64
    /\ I64Max \in I64
  BY I64MaxAssumption DEF U64, U64Max, I64, I64Min

LEMMA ChargedType ==
    ASSUME NEW m \in Meters, NEW c \in U64
    PROVE  Charged(m, c) \in Meters /\ Consume(m, c) \in Meters
  BY SaturationTypes DEF Charged, Consume, Meters

LEMMA UnitsType ==
    ASSUME NEW m \in Meters, NEW n \in U64, NEW unit \in U64
    PROVE  /\ UnitsAdmitted(m, n, unit) \in U64
           /\ ConsumeUnits(m, n, unit) \in Meters
  <1>1. UnitsAdmitted(m, n, unit) \in U64
    <2>1. CASE ~(m.configured /\ n # 0 /\ unit # 0 /\ m.remaining > 0)
      BY <2>1, ConstantTypes, I64MaxAssumption DEF UnitsAdmitted, Meters, I64, I64Min
    <2>2. CASE m.configured /\ n # 0 /\ unit # 0 /\ m.remaining > 0
      <3>1. /\ m.remaining \in Nat /\ unit \in Nat /\ n \in Nat /\ unit > 0
        BY <2>2, I64MaxAssumption DEF Meters, I64, I64Min, U64, U64Max
      <3>2. CeilDiv(m.remaining, unit) \in Nat
        BY <3>1 DEF CeilDiv
      <3> QED
        BY <2>2, <3>1, <3>2, I64MaxAssumption DEF UnitsAdmitted, U64, U64Max
    <2> QED BY <2>1, <2>2
  <1> QED
    BY <1>1, SaturationTypes, ChargedType DEF ConsumeUnits

(* What a charge does to each field. *)
LEMMA ChargedFields ==
    ASSUME NEW m \in Meters, NEW c \in U64
    PROVE  /\ Charged(m, c).costing = m.costing
           /\ Charged(m, c).configured = m.configured
           /\ Charged(m, c).limit = m.limit
           /\ Charged(m, c).remaining =
                IF m.costing # "off" /\ m.configured
                THEN SatSub(m.remaining, c) ELSE m.remaining
           /\ Charged(m, c).used =
                IF m.costing # "off" THEN SatAdd(m.used, c) ELSE m.used
  BY DEF Charged, Meters

(***************************************************************************)
(* The relation from_snapshot demands survives every charge: the sum that  *)
(* `used` saturates at is the one that takes `remaining` to its minimum,   *)
(* and nothing positive is charged to a budget that started exhausted.     *)
(***************************************************************************)
MeterSound(m) ==
    SnapshotAccepted(m.costing, m.configured, m.limit, m.remaining, m.used)

LEMMA ChargePreservesSoundness ==
    ASSUME NEW m \in Meters, NEW c \in U64, MeterSound(m), Admits(m, c)
    PROVE  MeterSound(Charged(m, c))
  <1> DEFINE n == Charged(m, c)
  <1>1. CASE m.costing = "off"
    BY <1>1 DEF Charged
  <1>2. CASE m.costing # "off" /\ ~m.configured
    BY <1>2, ChargedFields DEF MeterSound, SnapshotAccepted
  <1>3. CASE m.costing # "off" /\ m.configured
    <2>1. /\ m.limit \in I64 /\ m.used \in U64 /\ m.remaining \in I64
          /\ m.limit > 0 \/ m.used = 0
          /\ m.remaining = SatSub(m.limit, m.used)
      BY <1>3 DEF MeterSound, SnapshotAccepted, Meters
    <2>2. SatSub(m.remaining, c) = SatSub(m.limit, SatAdd(m.used, c))
      BY <2>1, SaturationComposes
    <2>3. m.limit > 0 \/ SatAdd(m.used, c) = 0
      <3>1. CASE m.limit > 0
        BY <3>1
      <3>2. CASE ~(m.limit > 0)
        <4>1. m.used = 0 /\ m.remaining = m.limit
          BY <2>1, <3>2, I64MaxAssumption DEF SatSub, I64, I64Min
        <4>2. c = 0
          BY <4>1, <3>2, <2>1, <1>3 DEF Admits
        <4> QED BY <4>1, <4>2, I64MaxAssumption DEF SatAdd, U64Max
      <3> QED BY <3>1, <3>2
    <2> QED
      BY <1>3, <2>2, <2>3, ChargedFields DEF MeterSound, SnapshotAccepted
  <1> QED BY <1>1, <1>2, <1>3

(* What consume_units takes is a charge that consume would admit. *)
LEMMA UnitsAreAdmitted ==
    ASSUME NEW m \in Meters, NEW n \in U64, NEW unit \in U64
    PROVE  Admits(m, SatMul(UnitsAdmitted(m, n, unit), unit))
  <1>1. CASE ~m.configured \/ m.remaining > 0
    BY <1>1 DEF Admits
  <1>2. CASE m.configured /\ ~(m.remaining > 0)
    <2>1. m.remaining <= 0
      BY <1>2 DEF Meters, I64
    <2>2. UnitsAdmitted(m, n, unit) = 0 \/ unit = 0
      BY <1>2, <2>1 DEF UnitsAdmitted
    <2>3. UnitsAdmitted(m, n, unit) \in Nat /\ unit \in Nat
      BY UnitsType DEF U64
    <2>4. SatMul(UnitsAdmitted(m, n, unit), unit) = 0
      BY <2>2, <2>3, I64MaxAssumption DEF SatMul, U64Max
    <2> QED BY <2>4 DEF Admits
  <1> QED BY <1>1, <1>2

-----------------------------------------------------------------------------
(***************************************************************************)
(* The inductive invariant.  No part is inductive alone: that a flush is   *)
(* admitted needs BatchStaysBelowBudget, which a new budget would break    *)
(* but for SuspendedRunsAreSettled.                                        *)
(***************************************************************************)
DepthMatchesControl == control = "lua" => depth > 0

IInv ==
    /\ TypeOK
    /\ DepthMatchesControl
    /\ BatchStaysBelowBudget
    /\ SuspendedRunsAreSettled
    /\ SnapshotLoads

LEMMA BatchType == TypeOK => Batch \in U64
  BY ConstantTypes, NativeDepthAssumption DEF TypeOK, Batch

(* Under the invariant no flush and no settlement is refused. *)
LEMMA BatchIsAdmitted == IInv => Admits(meter, Batch)
  <1> SUFFICES ASSUME IInv PROVE Admits(meter, Batch)
    OBVIOUS
  <1>1. Batch \in Nat /\ meter.remaining \in Int
    BY BatchType DEF IInv, TypeOK, Meters, U64, I64
  <1> QED
    BY <1>1 DEF IInv, BatchStaysBelowBudget, Admits

LEMMA InitEstablishesInvariant == Init => IInv
  <1> SUFFICES ASSUME Init PROVE IInv
    OBVIOUS
  <1>1. meter \in Meters /\ meter.configured = FALSE /\ meter.used = 0
        /\ meter.limit = I64Max /\ meter.remaining = I64Max
    <2>1. PICK costing \in {"off", "metered"} : meter = NewMeter(costing)
      BY DEF Init
    <2> QED BY <2>1, ConstantTypes DEF NewMeter, Meters
  <1>2. TypeOK
    BY <1>1, ConstantTypes, NativeDepthAssumption DEF Init, TypeOK
  <1>3. Batch = 0 /\ \A d \in 1 .. MaxNativeDepth : pending[d] = 0
    BY DEF Init, Batch
  <1>4. SnapshotLoads
    BY <1>1 DEF SnapshotLoads, SnapshotAccepted
  <1>5. BatchStaysBelowBudget /\ SuspendedRunsAreSettled
    BY <1>1, <1>3 DEF BatchStaysBelowBudget, SuspendedRunsAreSettled
  <1> QED
    BY <1>2, <1>4, <1>5 DEF Init, IInv, DepthMatchesControl

(***************************************************************************)
(* A step that leaves the meter at an admitted charge, clears the batch it *)
(* charged, and ends with no batch anywhere.                               *)
(***************************************************************************)
LEMMA SettledStep ==
    ASSUME IInv, NEW c \in U64, Admits(meter, c),
           meter' = Charged(meter, c),
           pending' \in [1 .. MaxNativeDepth -> U64],
           \A d \in 1 .. MaxNativeDepth : pending'[d] = 0,
           depth' \in 0 .. MaxNativeDepth,
           control' \in {"rust", "lua"},
           control' = "lua" => depth' > 0,
           outcome' \in [asked : U64, admitted : U64]
    PROVE  IInv'
  <1>1. TypeOK'
    BY ChargedType DEF IInv, TypeOK
  <1>2. Batch' = 0
    BY NativeDepthAssumption DEF Batch
  <1>3. SnapshotLoads'
    BY ChargePreservesSoundness DEF IInv, TypeOK, SnapshotLoads, MeterSound
  <1> QED
    BY <1>1, <1>2, <1>3 DEF IInv, DepthMatchesControl, BatchStaysBelowBudget,
       SuspendedRunsAreSettled

(* FailRun is such a step. *)
LEMMA FailRunSettles ==
    ASSUME IInv, depth > 0, FailRun, outcome' \in [asked : U64, admitted : U64]
    PROVE  IInv'
  <1>1. Batch \in U64 /\ Admits(meter, Batch)
    BY BatchType, BatchIsAdmitted DEF IInv
  <1>2. meter' = Charged(meter, Batch)
    BY <1>1 DEF FailRun, Consume
  <1>3. /\ pending' \in [1 .. MaxNativeDepth -> U64]
        /\ \A d \in 1 .. MaxNativeDepth : pending'[d] = 0
    BY ConstantTypes DEF FailRun, IInv, TypeOK, SuspendedRunsAreSettled
  <1>4. depth' \in 0 .. MaxNativeDepth /\ control' = "rust"
    BY NativeDepthAssumption DEF FailRun, IInv, TypeOK
  <1> QED BY <1>1, <1>2, <1>3, <1>4, SettledStep

(* So is every flush that lets its step go on. *)
LEMMA FlushSettles ==
    ASSUME IInv, control = "lua", UNCHANGED outcome, Settle(Batch),
           depth' \in 0 .. MaxNativeDepth,
           control' \in {"rust", "lua"},
           control' = "lua" => depth' > 0
    PROVE  IInv'
  <1>1. Batch \in U64 /\ Admits(meter, Batch)
    BY BatchType, BatchIsAdmitted DEF IInv
  <1>2. /\ pending' \in [1 .. MaxNativeDepth -> U64]
        /\ \A d \in 1 .. MaxNativeDepth : pending'[d] = 0
    BY ConstantTypes DEF Settle, IInv, TypeOK, SuspendedRunsAreSettled
  <1>3. outcome' \in [asked : U64, admitted : U64]
    BY DEF IInv, TypeOK
  <1> QED BY <1>1, <1>2, <1>3, SettledStep DEF Settle

LEMMA FlushThenFails ==
    ASSUME IInv, control = "lua"
    PROVE  depth > 0 /\ depth \in 1 .. MaxNativeDepth /\ Admits(meter, Batch)
  BY BatchIsAdmitted, NativeDepthAssumption DEF IInv, TypeOK, DepthMatchesControl

(* add_cost!: the batch grows below the edge, is settled, or the run fails. *)
LEMMA AddCostPreservesInvariant ==
    ASSUME IInv, NEW c \in Costs, AddCost(c)
    PROVE  IInv'
  <1> DEFINE next == SatAdd(Batch, c)
  <1>1. /\ c \in U64 /\ Batch \in U64 /\ next \in U64
        /\ depth > 0 /\ depth \in 1 .. MaxNativeDepth
    BY BatchType, FlushThenFails, SaturationTypes, CostInputsAssumption
    DEF IInv, AddCost
  <1>2. CASE next < Interval /\ ~BatchNeedsFlush(meter, next)
    <2>1. /\ pending' = [pending EXCEPT ![depth] = next]
          /\ outcome' = [asked |-> 1, admitted |-> 1]
          /\ UNCHANGED <<meter, depth, control>>
      BY <1>2 DEF AddCost
    <2>2. Batch' = next
      BY <1>1, <2>1 DEF Batch, IInv, TypeOK
    <2>3. TypeOK'
      BY <1>1, <2>1, ConstantTypes DEF IInv, TypeOK
    <2>4. BatchStaysBelowBudget'
      <3>1. meter.configured => next < meter.remaining
        BY <1>1, <1>2, I64MaxAssumption
        DEF BatchNeedsFlush, SatSub, IInv, TypeOK, Meters, I64, I64Min, U64, U64Max
      <3> QED BY <2>1, <2>2, <3>1 DEF BatchStaysBelowBudget
    <2>5. SuspendedRunsAreSettled'
      BY <1>1, <2>1, <2>2 DEF AddCost, IInv, TypeOK, SuspendedRunsAreSettled
    <2> QED
      BY <2>1, <2>3, <2>4, <2>5
      DEF IInv, DepthMatchesControl, SnapshotLoads
  <1>3. CASE ~(next < Interval /\ ~BatchNeedsFlush(meter, next)) /\ Admits(meter, next)
    <2>1. /\ Settle(next)
          /\ outcome' = [asked |-> 1, admitted |-> 1]
          /\ UNCHANGED <<depth, control>>
      BY <1>3 DEF AddCost
    <2>2. /\ pending' \in [1 .. MaxNativeDepth -> U64]
          /\ \A d \in 1 .. MaxNativeDepth : pending'[d] = 0
      BY <2>1, ConstantTypes DEF Settle, IInv, TypeOK, SuspendedRunsAreSettled
    <2>3. outcome' \in [asked : U64, admitted : U64]
      BY <2>1, ConstantTypes
    <2>4. depth' \in 0 .. MaxNativeDepth /\ control' \in {"rust", "lua"} /\ depth' > 0
      BY <1>1, <2>1 DEF IInv, TypeOK
    <2> QED BY <1>1, <1>3, <2>1, <2>2, <2>3, <2>4, SettledStep DEF Settle
  <1>4. CASE ~(next < Interval /\ ~BatchNeedsFlush(meter, next)) /\ ~Admits(meter, next)
    <2>1. FailRun /\ outcome' = [asked |-> 1, admitted |-> 0]
      BY <1>4 DEF AddCost
    <2> QED BY <1>1, <2>1, ConstantTypes, FailRunSettles
  <1> QED BY <1>2, <1>3, <1>4

LEMMA NextPreservesInvariant == IInv /\ [Next]_vars => IInv'
  <1> SUFFICES ASSUME IInv, [Next]_vars PROVE IInv'
    OBVIOUS
  <1>0. Batch \in U64 /\ Admits(meter, Batch)
    BY BatchType, BatchIsAdmitted DEF IInv
  <1>1. ASSUME NEW limit \in Limits, SetCostBudget(limit) PROVE IInv'
    <2>1. /\ meter' = SetBudget(meter, limit) /\ limit \in I64 /\ control = "rust"
          /\ UNCHANGED <<depth, pending, control, outcome>>
      BY <1>1, CostInputsAssumption DEF SetCostBudget
    <2>2. Batch' = 0 /\ Batch = 0
      BY <2>1 DEF Batch, IInv, SuspendedRunsAreSettled
    <2>3. meter' \in Meters /\ SnapshotLoads'
      <3>1. CASE meter.costing = "off"
        BY <2>1, <3>1 DEF SetBudget, IInv, TypeOK, SnapshotLoads
      <3>2. CASE meter.costing # "off"
        <4>1. meter' = [costing |-> meter.costing, configured |-> TRUE,
                        limit |-> limit, remaining |-> limit, used |-> 0]
          BY <2>1, <3>2 DEF SetBudget, IInv, TypeOK, Meters
        <4>2. SatSub(limit, 0) = limit
          BY <2>1, I64MaxAssumption DEF SatSub, I64, I64Min
        <4> QED
          BY <2>1, <3>2, <4>1, <4>2, ConstantTypes
          DEF IInv, TypeOK, Meters, SnapshotLoads, SnapshotAccepted
      <3> QED BY <3>1, <3>2
    <2> QED
      BY <2>1, <2>2, <2>3 DEF IInv, TypeOK, DepthMatchesControl,
         BatchStaysBelowBudget, SuspendedRunsAreSettled
  <1>2. ASSUME NEW c \in Costs, ConsumeCost(c) PROVE IInv'
    <2>1. /\ c \in U64 /\ control = "rust"
          /\ UNCHANGED <<depth, pending, control>>
          /\ outcome' \in [asked : U64, admitted : U64]
      BY <1>2, CostInputsAssumption, ConstantTypes DEF ConsumeCost
    <2>2. /\ \A d \in 1 .. MaxNativeDepth : pending[d] = 0
          /\ pending \in [1 .. MaxNativeDepth -> U64]
          /\ depth \in 0 .. MaxNativeDepth
      BY <2>1, NativeDepthAssumption DEF IInv, TypeOK, SuspendedRunsAreSettled, Batch
    <2>3. CASE Admits(meter, c)
      BY <1>2, <2>1, <2>2, <2>3, SettledStep DEF ConsumeCost, Consume
    <2>4. CASE ~Admits(meter, c)
      <3>1. meter' = meter
        BY <1>2, <2>4 DEF ConsumeCost, Consume
      <3> QED
        BY <2>1, <3>1 DEF IInv, TypeOK, DepthMatchesControl, BatchStaysBelowBudget,
           SuspendedRunsAreSettled, SnapshotLoads, Batch
    <2> QED BY <2>3, <2>4
  <1>3. ASSUME NEW n \in UnitCounts, NEW unit \in Costs, ChargeUnits(n, unit) PROVE IInv'
    <2>1. /\ n \in U64 /\ unit \in U64 /\ control = "rust" /\ meter \in Meters
          /\ UNCHANGED <<depth, pending, control>>
      BY <1>3, CostInputsAssumption DEF ChargeUnits, IInv, TypeOK
    <2>2. /\ \A d \in 1 .. MaxNativeDepth : pending[d] = 0
          /\ pending \in [1 .. MaxNativeDepth -> U64]
          /\ depth \in 0 .. MaxNativeDepth
      BY <2>1, NativeDepthAssumption DEF IInv, TypeOK, SuspendedRunsAreSettled, Batch
    <2>3. UnitsAdmitted(meter, n, unit) \in U64
      BY <2>1, UnitsType
    <2>4. SatMul(UnitsAdmitted(meter, n, unit), unit) \in U64
      BY <2>1, <2>3, SaturationTypes
    <2>5. Admits(meter, SatMul(UnitsAdmitted(meter, n, unit), unit))
      BY <2>1, UnitsAreAdmitted
    <2>6. outcome' \in [asked : U64, admitted : U64]
      BY <1>3, <2>1, <2>3 DEF ChargeUnits
    <2>7. meter' = Charged(meter, SatMul(UnitsAdmitted(meter, n, unit), unit))
      BY <1>3 DEF ChargeUnits, ConsumeUnits
    <2> QED BY <2>1, <2>2, <2>4, <2>5, <2>6, <2>7, SettledStep
  <1>4. CASE EnterRun
    <2>1. /\ control = "rust" /\ control' = "lua" /\ depth < MaxNativeDepth
          /\ depth' = depth + 1 /\ pending' = [pending EXCEPT ![depth + 1] = 0]
          /\ UNCHANGED <<meter, outcome>>
      BY <1>4 DEF EnterRun
    <2>2. depth' \in 1 .. MaxNativeDepth
      BY <2>1, NativeDepthAssumption DEF IInv, TypeOK
    <2>3. /\ pending' \in [1 .. MaxNativeDepth -> U64]
          /\ \A d \in 1 .. MaxNativeDepth : pending'[d] = 0
      BY <2>1, <2>2, ConstantTypes, NativeDepthAssumption
      DEF IInv, TypeOK, SuspendedRunsAreSettled, Batch
    <2>4. Batch' = 0
      BY <2>2, <2>3 DEF Batch
    <2> QED
      BY <2>1, <2>2, <2>3, <2>4, NativeDepthAssumption DEF IInv, TypeOK, DepthMatchesControl,
         BatchStaysBelowBudget, SuspendedRunsAreSettled, SnapshotLoads
  <1>5. ASSUME NEW c \in Costs, AddCost(c) PROVE IInv'
    BY <1>5, AddCostPreservesInvariant
  <1>6. CASE CallLua
    BY <1>0, <1>6, FlushThenFails, FlushSettles DEF CallLua, FlushThen, IInv, TypeOK
  <1>7. CASE CallRust
    BY <1>0, <1>7, FlushThenFails, FlushSettles DEF CallRust, FlushThen, IInv, TypeOK
  <1>8. CASE LeaveRun
    <2>1. depth' \in 0 .. MaxNativeDepth
      BY <1>0, <1>8, FlushThenFails, NativeDepthAssumption DEF LeaveRun, FlushThen
    <2> QED
      BY <1>0, <1>8, <2>1, FlushSettles DEF LeaveRun, FlushThen
  <1>9. CASE RuntimeError
    BY <1>9, FlushThenFails, FailRunSettles DEF RuntimeError, IInv, TypeOK
  <1>10. CASE CallbackReturns
    BY <1>10 DEF CallbackReturns, IInv, TypeOK, DepthMatchesControl,
       BatchStaysBelowBudget, SuspendedRunsAreSettled, SnapshotLoads, Batch
  <1>11. CASE CallbackFails
    BY <1>11, FailRunSettles DEF CallbackFails, IInv, TypeOK
  <1>12. CASE UNCHANGED vars
    BY <1>12 DEF vars, IInv, TypeOK, DepthMatchesControl, BatchStaysBelowBudget,
       SuspendedRunsAreSettled, SnapshotLoads, Batch
  <1> QED
    BY <1>1, <1>2, <1>3, <1>4, <1>5, <1>6, <1>7, <1>8, <1>9, <1>10, <1>11, <1>12
    DEF Next

(* Every reachable state of the batched machine satisfies the invariant. *)
THEOREM InvariantHolds == Spec => []IInv
  BY InitEstablishesInvariant, NextPreservesInvariant, PTL DEF Spec

(***************************************************************************)
(* A batch held by the dispatch loop is always smaller than what is left   *)
(* of the budget, so settling it is never refused.                         *)
(***************************************************************************)
THEOREM BatchNeverReachesTheBudget == Spec => []BatchStaysBelowBudget
  <1>1. IInv => BatchStaysBelowBudget
    BY DEF IInv
  <1> QED BY <1>1, InvariantHolds, PTL

(***************************************************************************)
(* Whenever Rust code runs, the accounting it reads or replaces is exact.  *)
(***************************************************************************)
THEOREM CallbacksSeeExactCosts == Spec => []SuspendedRunsAreSettled
  <1>1. IInv => SuspendedRunsAreSettled
    BY DEF IInv
  <1> QED BY <1>1, InvariantHolds, PTL

(* The meter of every reachable State passes the checks of from_snapshot. *)
THEOREM EveryMeterCanBeRestored == Spec => []SnapshotLoads
  <1>1. IInv => SnapshotLoads
    BY DEF IInv
  <1> QED BY <1>1, InvariantHolds, PTL

(* Type correctness of the batched machine. *)
THEOREM TypeCorrect == Spec => []TypeOK
  <1>1. IInv => TypeOK
    BY DEF IInv
  <1> QED BY <1>1, InvariantHolds, PTL
-----------------------------------------------------------------------------
(* The contract is stated with the meter operations of this module. *)
LEMMA ContractOperators ==
    /\ \A m, c : Contract!Admits(m, c) = Admits(m, c)
    /\ \A m, c : Contract!Consume(m, c) = Consume(m, c)
    /\ \A m, limit : Contract!SetBudget(m, limit) = SetBudget(m, limit)
    /\ \A m, n, unit : Contract!UnitsAdmitted(m, n, unit) = UnitsAdmitted(m, n, unit)
    /\ \A m, n, unit : Contract!ConsumeUnits(m, n, unit) = ConsumeUnits(m, n, unit)
  BY DEF Contract!Admits, Contract!Consume, Contract!Charged, Contract!SetBudget,
     Contract!UnitsAdmitted, Contract!ConsumeUnits, Contract!CeilDiv,
     Contract!SatAdd, Contract!SatSub, Contract!SatMul, Contract!U64Max, Contract!I64Min,
     Admits, Consume, Charged, SetBudget, UnitsAdmitted, ConsumeUnits, CeilDiv,
     SatAdd, SatSub, SatMul, U64Max, I64Min

(* Charging nothing changes nothing; charging twice is charging the sum. *)
LEMMA ChargedNothing ==
    ASSUME NEW m \in Meters
    PROVE  Charged(m, 0) = m
  <1>1. SatAdd(m.used, 0) = m.used /\ SatSub(m.remaining, 0) = m.remaining
    BY I64MaxAssumption DEF Meters, SatAdd, SatSub, U64, U64Max, I64, I64Min
  <1> QED BY <1>1 DEF Charged, Meters

LEMMA ChargedTwice ==
    ASSUME NEW m \in Meters, NEW a \in U64, NEW b \in U64
    PROVE  Charged(Charged(m, a), b) = Charged(m, SatAdd(a, b))
  <1>1. /\ SatAdd(SatAdd(m.used, a), b) = SatAdd(m.used, SatAdd(a, b))
        /\ SatSub(SatSub(m.remaining, a), b) = SatSub(m.remaining, SatAdd(a, b))
    BY SaturationComposes DEF Meters
  <1> QED BY <1>1 DEF Charged, Meters

(* Counting the batch as charged leaves a meter that still has budget. *)
LEMMA ChargedMeterHasBudget ==
    ASSUME IInv, meter.configured => meter.remaining > 0
    PROVE  \A c : Admits(ChargedMeter, c)
  <1>1. CASE meter.costing = "off" \/ ~meter.configured
    BY <1>1 DEF ChargedMeter, Charged, Admits, IInv, SnapshotLoads, SnapshotAccepted, TypeOK, Meters
  <1>2. CASE meter.costing # "off" /\ meter.configured
    <2>1. Batch \in U64 /\ meter \in Meters /\ meter.remaining > 0
      BY <1>2, BatchType DEF IInv, TypeOK
    <2>2. SatSub(meter.remaining, Batch) > 0
      BY <1>2, <2>1, I64MaxAssumption
      DEF IInv, BatchStaysBelowBudget, SatSub, Meters, I64, I64Min, U64
    <2>3. ChargedMeter.remaining > 0
      BY <1>2, <2>1, <2>2, ChargedFields DEF ChargedMeter
    <2> QED BY <2>3 DEF Admits
  <1> QED BY <1>1, <1>2

(* A step that settles the batch is invisible to the contract. *)
LEMMA SettlingIsInvisible ==
    ASSUME IInv, meter' = Charged(meter, Batch), Batch' = 0
    PROVE  ChargedMeter' = ChargedMeter
  <1>1. Charged(meter, Batch) \in Meters
    BY BatchType, ChargedType DEF IInv, TypeOK
  <1> QED BY <1>1, ChargedNothing DEF ChargedMeter

LEMMA NoBatchLeft ==
    ASSUME IInv, IInv', pending' = [pending EXCEPT ![depth] = 0],
           depth \in 1 .. MaxNativeDepth, depth' \in {depth, depth - 1}
    PROVE  Batch' = 0
  BY NativeDepthAssumption DEF Batch, IInv, TypeOK, SuspendedRunsAreSettled

LEMMA FailRunIsInvisible ==
    ASSUME IInv, IInv', FailRun, depth \in 1 .. MaxNativeDepth
    PROVE  ChargedMeter' = ChargedMeter
  BY NoBatchLeft, BatchIsAdmitted, SettlingIsInvisible DEF FailRun, Consume

LEMMA FlushIsInvisible ==
    ASSUME IInv, IInv', Settle(Batch), depth \in 1 .. MaxNativeDepth,
           depth' \in {depth, depth - 1}
    PROVE  ChargedMeter' = ChargedMeter
  BY NoBatchLeft, SettlingIsInvisible DEF Settle

LEMMA RustSeesTheMeter ==
    ASSUME IInv, control = "rust"
    PROVE  Batch = 0 /\ ChargedMeter = meter
  BY ChargedNothing DEF IInv, TypeOK, SuspendedRunsAreSettled, ChargedMeter

(* An instruction is charged, refused or batched exactly as the contract does. *)
LEMMA AddCostIsAnOperation ==
    ASSUME IInv, IInv', NEW c \in Costs, AddCost(c)
    PROVE  Contract!Operation(c)
  <1> DEFINE next == SatAdd(Batch, c)
  <1>1. /\ c \in U64 /\ Batch \in U64 /\ next \in U64 /\ c > 0
        /\ meter \in Meters /\ depth \in 1 .. MaxNativeDepth
    BY BatchType, FlushThenFails, SaturationTypes, CostInputsAssumption
    DEF IInv, TypeOK, AddCost
  <1>2. next > 0 /\ (Batch = 0 => next = c)
    BY <1>1, I64MaxAssumption DEF SatAdd, U64, U64Max
  <1>3. Charged(meter, next) = Charged(ChargedMeter, c)
    BY <1>1, ChargedTwice DEF ChargedMeter
  <1>4. SUFFICES /\ ChargedMeter' = Consume(ChargedMeter, c)
                 /\ outcome' = [asked |-> 1,
                                admitted |-> IF Admits(ChargedMeter, c) THEN 1 ELSE 0]
    BY ContractOperators DEF Contract!Operation
  <1>5. CASE next < Interval /\ ~BatchNeedsFlush(meter, next)
    <2>1. /\ pending' = [pending EXCEPT ![depth] = next]
          /\ outcome' = [asked |-> 1, admitted |-> 1]
          /\ UNCHANGED <<meter, depth, control>>
      BY <1>5 DEF AddCost
    <2>2. Batch' = next
      BY <1>1, <2>1 DEF Batch, IInv, TypeOK
    <2>3. meter.configured => meter.remaining > 0
      BY <1>1, <1>2, <1>5, I64MaxAssumption
      DEF BatchNeedsFlush, SatSub, Meters, I64, I64Min, U64
    <2>4. Admits(ChargedMeter, c)
      BY <2>3, ChargedMeterHasBudget
    <2> QED BY <1>3, <2>1, <2>2, <2>4 DEF ChargedMeter, Consume
  <1>6. CASE ~(next < Interval /\ ~BatchNeedsFlush(meter, next)) /\ Admits(meter, next)
    <2>1. /\ meter' = Charged(meter, next)
          /\ pending' = [pending EXCEPT ![depth] = 0]
          /\ outcome' = [asked |-> 1, admitted |-> 1]
          /\ UNCHANGED <<depth, control>>
      BY <1>6 DEF AddCost, Settle
    <2>2. Batch' = 0
      BY <1>1, <2>1, NoBatchLeft
    <2>3. meter' \in Meters
      BY DEF IInv, TypeOK
    <2>4. ChargedMeter' = Charged(ChargedMeter, c)
      BY <1>3, <2>1, <2>2, <2>3, ChargedNothing DEF ChargedMeter
    <2>5. Admits(ChargedMeter, c)
      BY <1>1, <1>2, <1>6, ChargedMeterHasBudget DEF Admits
    <2> QED BY <2>1, <2>4, <2>5 DEF Consume
  <1>7. CASE ~(next < Interval /\ ~BatchNeedsFlush(meter, next)) /\ ~Admits(meter, next)
    <2>1. FailRun /\ outcome' = [asked |-> 1, admitted |-> 0]
      BY <1>7 DEF AddCost
    <2>2. meter.configured /\ ~(meter.remaining > 0)
      BY <1>7 DEF Admits
    <2>3. Batch = 0
      BY <1>1, <2>2 DEF IInv, BatchStaysBelowBudget, Meters, I64, U64
    <2>4. ChargedMeter = meter /\ next = c
      BY <1>1, <1>2, <2>3, ChargedNothing DEF ChargedMeter
    <2>5. ChargedMeter' = ChargedMeter
      BY <1>1, <2>1, FailRunIsInvisible
    <2> QED BY <1>7, <2>1, <2>4, <2>5 DEF Consume
  <1> QED BY <1>5, <1>6, <1>7

LEMMA StepImplementsContract ==
    IInv /\ IInv' /\ [Next]_vars => [Contract!ContractNext]_(Contract!contractVars)
  <1> SUFFICES ASSUME IInv, IInv', [Next]_vars
               PROVE  Contract!ContractNext \/ UNCHANGED <<ChargedMeter, outcome>>
    BY DEF Contract!contractVars
  <1>1. ASSUME NEW limit \in Limits, SetCostBudget(limit) PROVE Contract!Budget(limit)
    <2>1. ChargedMeter = meter /\ ChargedMeter' = meter'
      BY <1>1, RustSeesTheMeter, ChargedNothing
      DEF SetCostBudget, Batch, ChargedMeter, IInv, TypeOK
    <2> QED BY <1>1, <2>1, ContractOperators DEF SetCostBudget, Contract!Budget
  <1>2. ASSUME NEW c \in Costs, ConsumeCost(c) PROVE Contract!Operation(c)
    <2>1. ChargedMeter = meter /\ ChargedMeter' = meter'
      BY <1>2, RustSeesTheMeter, ChargedNothing
      DEF ConsumeCost, Batch, ChargedMeter, IInv, TypeOK
    <2> QED BY <1>2, <2>1, ContractOperators DEF ConsumeCost, Contract!Operation
  <1>3. ASSUME NEW n \in UnitCounts, NEW unit \in Costs, ChargeUnits(n, unit)
        PROVE  Contract!Units(n, unit)
    <2>1. ChargedMeter = meter /\ ChargedMeter' = meter'
      BY <1>3, RustSeesTheMeter, ChargedNothing
      DEF ChargeUnits, Batch, ChargedMeter, IInv, TypeOK
    <2> QED BY <1>3, <2>1, ContractOperators DEF ChargeUnits, Contract!Units
  <1>4. CASE EnterRun
    <2>1. ChargedMeter = meter
      BY <1>4, RustSeesTheMeter DEF EnterRun
    <2>2. Batch' = 0
      BY <1>4, NativeDepthAssumption DEF EnterRun, Batch, IInv, TypeOK
    <2> QED BY <1>4, <2>1, <2>2, ChargedNothing DEF EnterRun, ChargedMeter, IInv, TypeOK
  <1>5. ASSUME NEW c \in Costs, AddCost(c) PROVE Contract!Operation(c)
    BY <1>5, AddCostIsAnOperation
  <1>6. CASE CallLua \/ CallRust \/ LeaveRun
    <2>1. Settle(Batch) /\ depth' \in {depth, depth - 1} /\ UNCHANGED outcome
      BY <1>6, BatchIsAdmitted DEF CallLua, CallRust, LeaveRun, FlushThen
    <2>2. depth \in 1 .. MaxNativeDepth
      BY <1>6, FlushThenFails DEF CallLua, CallRust, LeaveRun, FlushThen
    <2> QED BY <2>1, <2>2, FlushIsInvisible
  <1>7. CASE RuntimeError \/ CallbackFails
    <2>1. FailRun /\ UNCHANGED outcome /\ depth \in 1 .. MaxNativeDepth
      BY <1>7, FlushThenFails, NativeDepthAssumption
      DEF RuntimeError, CallbackFails, IInv, TypeOK
    <2> QED BY <2>1, FailRunIsInvisible
  <1>8. CASE CallbackReturns
    BY <1>8 DEF CallbackReturns, ChargedMeter, Batch
  <1>9. CASE UNCHANGED vars
    BY <1>9 DEF vars, ChargedMeter, Batch
  <1>10. CASE \E limit \in Limits : SetCostBudget(limit)
    BY <1>1, <1>10 DEF Contract!ContractNext
  <1>11. CASE \E c \in Costs : ConsumeCost(c) \/ AddCost(c)
    BY <1>2, <1>5, <1>11 DEF Contract!ContractNext
  <1>12. CASE \E n \in UnitCounts, unit \in Costs : ChargeUnits(n, unit)
    BY <1>3, <1>12 DEF Contract!ContractNext
  <1> QED
    BY <1>4, <1>6, <1>7, <1>8, <1>9, <1>10, <1>11, <1>12 DEF Next

(***************************************************************************)
(* Batched accounting implements unbatched accounting, whatever the        *)
(* interval: no host, callback or script can tell them apart.              *)
(***************************************************************************)
THEOREM DispatchImplementsContract == Spec => ImplementsContract
  <1>1. Init => Contract!ContractInit
    <2> SUFFICES ASSUME Init PROVE Contract!ContractInit
      OBVIOUS
    <2>1. ChargedMeter = meter
      <3>1. Batch = 0 /\ meter \in Meters
        BY InitEstablishesInvariant DEF Init, Batch, IInv, TypeOK
      <3> QED BY <3>1, ChargedNothing DEF ChargedMeter
    <2> QED
      BY <2>1 DEF Init, Contract!ContractInit, Contract!NewMeter, NewMeter
  <1> QED
    BY <1>1, InvariantHolds, StepImplementsContract, PTL
    DEF Spec, ImplementsContract, Contract!ContractSpec

(***************************************************************************)
(* Once the budget is used up, nothing but a new budget moves the meter.   *)
(***************************************************************************)
THEOREM ExhaustedMeterFreezes == Spec => ExhaustedMeterIsFrozen
  <1>1. IInv /\ [Next]_vars => [NextOnlyBudget]_vars
    <2> SUFFICES ASSUME IInv, Next, meter.configured, meter.remaining <= 0
                 PROVE  \/ meter' = meter
                        \/ meter'.used = 0 /\ meter'.remaining = meter'.limit
      BY DEF NextOnlyBudget
    <2>1. meter \in Meters /\ Batch \in U64 /\ Batch = 0
      BY BatchType DEF IInv, TypeOK, BatchStaysBelowBudget, Meters, I64, U64
    <2>2. \A c \in U64 : c > 0 => ~Admits(meter, c)
      BY <2>1, I64MaxAssumption DEF Admits, Meters, I64, I64Min, U64
    <2>3. \A c \in U64 : Consume(meter, c) = meter
      BY <2>1, <2>2, ChargedNothing, I64MaxAssumption DEF Consume, U64
    <2>4. ASSUME NEW limit \in Limits, SetCostBudget(limit)
          PROVE  \/ meter' = meter
                 \/ meter'.used = 0 /\ meter'.remaining = meter'.limit
      <3>1. CASE meter.costing = "off"
        <4>1. SetBudget(meter, limit) = meter
          BY <3>1 DEF SetBudget
        <4> QED BY <2>4, <4>1 DEF SetCostBudget
      <3>2. CASE meter.costing # "off"
        <4>1. meter' = [costing |-> meter.costing, configured |-> TRUE,
                        limit |-> limit, remaining |-> limit, used |-> 0]
          BY <2>1, <2>4, <3>2 DEF SetCostBudget, SetBudget, Meters
        <4> QED BY <4>1
      <3> QED BY <3>1, <3>2
    <2>5. ASSUME NEW c \in Costs, ConsumeCost(c) PROVE meter' = meter
      BY <2>3, <2>5, CostInputsAssumption DEF ConsumeCost
    <2>6. ASSUME NEW n \in UnitCounts, NEW unit \in Costs, ChargeUnits(n, unit)
          PROVE  meter' = meter
      <3> DEFINE cost == SatMul(UnitsAdmitted(meter, n, unit), unit)
      <3>1. n \in U64 /\ unit \in U64
        BY CostInputsAssumption
      <3>2. cost \in U64 /\ Admits(meter, cost)
        BY <2>1, <3>1, UnitsType, UnitsAreAdmitted, SaturationTypes
      <3>3. Charged(meter, cost) = meter
        BY <2>3, <3>2 DEF Consume
      <3> QED BY <2>6, <3>3 DEF ChargeUnits, ConsumeUnits
    <2>7. ASSUME NEW c \in Costs, AddCost(c) PROVE meter' = meter
      <3>1. c \in U64 /\ c > 0 /\ SatAdd(Batch, c) \in U64 /\ SatAdd(Batch, c) > 0
        BY <2>1, <2>7, CostInputsAssumption, SaturationTypes, I64MaxAssumption
        DEF AddCost, SatAdd, U64, U64Max
      <3>2. ~Admits(meter, SatAdd(Batch, c))
        BY <2>2, <3>1
      <3> QED BY <2>1, <2>3, <2>7, <3>2 DEF AddCost, FailRun
    <2>8. CASE CallLua \/ CallRust \/ LeaveRun \/ RuntimeError \/ CallbackFails
      BY <2>1, <2>3, <2>8, ChargedNothing
      DEF CallLua, CallRust, LeaveRun, RuntimeError, CallbackFails, FlushThen, Settle, FailRun
    <2>9. CASE EnterRun \/ CallbackReturns
      BY <2>9 DEF EnterRun, CallbackReturns
    <2> QED BY <2>4, <2>5, <2>6, <2>7, <2>8, <2>9 DEF Next
  <1> QED BY <1>1, InvariantHolds, PTL DEF Spec, ExhaustedMeterIsFrozen
-----------------------------------------------------------------------------
(* Charging n units at once and one by one.  The loop is a recursive       *)
(* function; that it computes what UnitsAdmitted says follows from the     *)
(* least number of rounds after which it would not.                        *)

LEMMA LeastElement ==
    ASSUME NEW T \in SUBSET Nat, T # {}
    PROVE  \E x \in T : \A y \in T : x <= y
  <1> DEFINE R == OpToRel(<, Nat)
  <1>1. IsWellFoundedOn(R, Nat)
    BY NatLessThanWellFounded, Zenon
  <1>2. \A a, b \in Nat : a < b => <<a, b>> \in R
    BY DEF OpToRel
  <1> HIDE DEF R
  <1>3. PICK x \in T : \A y \in T : ~ (<<y, x>> \in R)
    BY <1>1, WFMin, Zenon
  <1>4. \A y \in T : ~ (y < x)
    BY <1>2, <1>3, Zenon
  <1>5. \A y \in T : x <= y
    BY <1>4
  <1> QED
    BY <1>5

(* One more unit: the saturated product grows by the unit. *)
LEMMA OneMoreUnit ==
    ASSUME NEW k \in Nat, NEW unit \in U64
    PROVE  SatMul(k + 1, unit) = SatAdd(SatMul(k, unit), unit)
  <1>1. unit \in Nat /\ k * unit \in Nat /\ (k + 1) * unit = k * unit + unit
    BY DEF U64
  <1> QED
    BY <1>1, I64MaxAssumption DEF SatMul, SatAdd, U64Max

(* The last unit admitted is the one that reaches the remaining budget. *)
LEMMA CeilingUnits ==
    ASSUME NEW r \in Nat \ {0}, NEW unit \in Nat \ {0}
    PROVE  /\ CeilDiv(r, unit) \in Nat
           /\ CeilDiv(r, unit) * unit >= r
           /\ \A k \in Nat : k < CeilDiv(r, unit) => k * unit < r
  <1> DEFINE x == r + unit - 1
             q == x \div unit
  <1>1. x \in Nat /\ q \in Nat
    OBVIOUS
  <1>2. q * unit <= x /\ x < (q + 1) * unit
    OBVIOUS
  <1>3. CeilDiv(r, unit) = q
    BY DEF CeilDiv
  <1>4. x = r + unit - 1
    OBVIOUS
  <1> HIDE DEF q, x
  <1>5. (q + 1) * unit = q * unit + unit /\ q * unit \in Nat
    BY <1>1
  <1>6. q * unit >= r
    BY <1>1, <1>2, <1>4, <1>5
  <1>7. ASSUME NEW k \in Nat, k < q PROVE k * unit < r
    <2>1. k + 1 <= q
      BY <1>1, <1>7
    <2>2. (k + 1) * unit <= q * unit
      BY <2>1, <1>1
    <2>3. (k + 1) * unit = k * unit + unit /\ k * unit \in Nat
      OBVIOUS
    <2> QED
      BY <2>2, <2>3, <1>1, <1>2, <1>4, <1>5
  <1> QED
    BY <1>1, <1>3, <1>6, <1>7

(* The loop as a recursive function, one round per unit *)
Going(x, j) == [meter |-> x, admitted |-> j, open |-> TRUE]
Stopped(x, j) == [meter |-> x, admitted |-> j, open |-> FALSE]

Round(s, unit) ==
    IF s.open /\ Admits(s.meter, unit)
    THEN Going(Charged(s.meter, unit), s.admitted + 1)
    ELSE [s EXCEPT !.open = FALSE]

Rounds(m, n, unit, f) ==
    f = [k \in 0 .. n |-> IF k = 0 THEN Going(m, 0)
                          ELSE Round(f[k - 1], unit)]

LEMMA LoopIsRounds ==
    ASSUME NEW m, NEW n, NEW unit
    PROVE  UnitLoop(m, n, unit) = (CHOOSE f : Rounds(m, n, unit, f))[n]
  BY DEF UnitLoop, Rounds, Round, Going

(* What the loop has done after k rounds, of which it admits a *)
After(m, unit, a, k) ==
    IF k <= a THEN Going(Charged(m, SatMul(k, unit)), k)
              ELSE Stopped(Charged(m, SatMul(a, unit)), a)

(* A unit is admitted while fewer than UnitsAdmitted were. *)
LEMMA NextUnit ==
    ASSUME NEW m \in Meters, m.costing = "off" => ~m.configured,
           NEW n \in U64, NEW unit \in U64, NEW k \in Nat, k < n,
           k <= UnitsAdmitted(m, n, unit)
    PROVE  Admits(Charged(m, SatMul(k, unit)), unit) <=> k < UnitsAdmitted(m, n, unit)
  <1> DEFINE c == SatMul(k, unit)
             r == m.remaining
  <1>1. n \in Nat /\ unit \in Nat /\ r \in Int /\ r <= I64Max /\ n # 0 /\ k \in U64
    BY I64MaxAssumption DEF U64, U64Max, Meters, I64, I64Min
  <1>2. c \in U64
    BY <1>1, SaturationTypes
  <1>3. CASE ~m.configured \/ unit = 0
    <2>1. UnitsAdmitted(m, n, unit) = n
      BY <1>3 DEF UnitsAdmitted
    <2> QED
      BY <1>2, <1>3, <2>1, ChargedFields DEF Admits
  <1>4. CASE m.configured /\ unit # 0
    <2>1. Admits(Charged(m, c), unit) <=> SatSub(r, c) > 0
      BY <1>2, <1>4, ChargedFields DEF Admits
    <2>2. CASE r <= 0
      <3>1. UnitsAdmitted(m, n, unit) = 0
        BY <1>1, <1>4, <2>2 DEF UnitsAdmitted
      <3>2. ~(SatSub(r, c) > 0)
        BY <1>1, <1>2, <2>2, I64MaxAssumption DEF SatSub, U64, I64Min
      <3> QED
        BY <2>1, <3>1, <3>2
    <2>3. CASE r > 0
      <3> DEFINE q == CeilDiv(r, unit)
      <3>1. /\ q \in Nat /\ q * unit >= r
            /\ \A j \in Nat : j < q => j * unit < r
        BY <1>1, <1>4, <2>3, CeilingUnits
      <3>2. UnitsAdmitted(m, n, unit) = IF n <= q THEN n ELSE q
        BY <1>1, <1>4, <2>3 DEF UnitsAdmitted
      <3>3. k * unit \in Nat
        BY <1>1
      <3> HIDE DEF q
      <3>4. CASE k < q
        <4>1. k * unit < r
          BY <3>1, <3>4
        <4>2. c = k * unit
          BY <3>3, <4>1, <1>1, I64MaxAssumption DEF SatMul, U64Max
        <4>3. SatSub(r, c) > 0
          BY <3>3, <4>1, <4>2, <1>1, I64MaxAssumption DEF SatSub, I64Min
        <4>4. k < UnitsAdmitted(m, n, unit)
          BY <3>1, <3>2, <3>4, <1>1
        <4> QED
          BY <2>1, <4>3, <4>4
      <3>5. CASE ~(k < q)
        <4>1. k = q /\ UnitsAdmitted(m, n, unit) = q
          BY <3>1, <3>2, <3>5, <1>1
        <4>2. k * unit >= r
          BY <3>1, <4>1
        <4>3. c >= r
          BY <3>3, <4>2, <1>1, I64MaxAssumption DEF SatMul, U64Max
        <4>4. ~(SatSub(r, c) > 0)
          BY <4>3, <1>1, <1>2, I64MaxAssumption DEF SatSub, I64Min, U64
        <4> QED
          BY <2>1, <4>1, <4>4
      <3> QED
        BY <3>4, <3>5
    <2> QED
      BY <1>1, <2>2, <2>3
  <1> QED
    BY <1>3, <1>4

LEMMA RoundCases ==
    ASSUME NEW x, NEW j, NEW unit
    PROVE  /\ Admits(x, unit) =>
                 Round(Going(x, j), unit)
                   = Going(Charged(x, unit), j + 1)
           /\ ~Admits(x, unit) =>
                 Round(Going(x, j), unit)
                   = Stopped(x, j)
           /\ Round(Stopped(x, j), unit)
                   = Stopped(x, j)
  <1> DEFINE s == Going(x, j)
             z == Stopped(x, j)
  <1>1. \A b, c : [[meter |-> x, admitted |-> j, open |-> b] EXCEPT !.open = c]
                  = [meter |-> x, admitted |-> j, open |-> c]
    OBVIOUS
  <1>2. [s EXCEPT !.open = FALSE] = z /\ [z EXCEPT !.open = FALSE] = z
    BY <1>1, Zenon DEF Going, Stopped
  <1>3. s.open = TRUE /\ s.meter = x /\ s.admitted = j /\ z.open = FALSE
    BY Zenon DEF Going, Stopped
  <1> HIDE DEF s, z
  <1>4. Admits(x, unit) => Round(s, unit) = Going(Charged(x, unit), j + 1)
    BY <1>3, Zenon DEF Round
  <1>5. ~Admits(x, unit) => Round(s, unit) = z
    BY <1>2, <1>3, Zenon DEF Round
  <1>6. Round(z, unit) = z
    BY <1>2, <1>3, Zenon DEF Round
  <1> QED
    BY <1>4, <1>5, <1>6, Zenon DEF s, z

(* A round leads from what After says of k rounds to what it says of k + 1. *)
LEMMA OneRound ==
    ASSUME NEW m \in Meters, m.costing = "off" => ~m.configured,
           NEW n \in U64, NEW unit \in U64, NEW k \in Nat, k < n,
           NEW a, a = UnitsAdmitted(m, n, unit)
    PROVE  Round(After(m, unit, a, k), unit) = After(m, unit, a, k + 1)
  <1>1. a \in Nat /\ n \in Nat /\ k \in U64 /\ k + 1 \in Nat
    BY UnitsType, I64MaxAssumption DEF U64, U64Max
  <1>2. CASE k < a
    <2>1. After(m, unit, a, k) = Going(Charged(m, SatMul(k, unit)), k)
      BY <1>1, <1>2 DEF After
    <2>2. After(m, unit, a, k + 1)
            = Going(Charged(m, SatMul(k + 1, unit)), k + 1)
      BY <1>1, <1>2 DEF After
    <2>3. Admits(Charged(m, SatMul(k, unit)), unit)
      BY <1>1, <1>2, NextUnit
    <2>4. Charged(Charged(m, SatMul(k, unit)), unit) = Charged(m, SatMul(k + 1, unit))
      <3>1. SatMul(k, unit) \in U64
        BY <1>1, SaturationTypes
      <3>2. SatMul(k + 1, unit) = SatAdd(SatMul(k, unit), unit)
        BY OneMoreUnit
      <3> QED
        BY <3>1, <3>2, ChargedTwice
    <2> QED
      BY <2>1, <2>2, <2>3, <2>4, RoundCases
  <1>3. CASE k = a
    <2>1. After(m, unit, a, k) = Going(Charged(m, SatMul(a, unit)), a)
      BY <1>1, <1>3 DEF After
    <2>2. After(m, unit, a, k + 1) = Stopped(Charged(m, SatMul(a, unit)), a)
      BY <1>1, <1>3 DEF After
    <2>3. ~Admits(Charged(m, SatMul(a, unit)), unit)
      BY <1>1, <1>3, NextUnit
    <2> QED
      BY <2>1, <2>2, <2>3, RoundCases
  <1>4. CASE k > a
    <2>1. After(m, unit, a, k) = Stopped(Charged(m, SatMul(a, unit)), a)
      BY <1>1, <1>4 DEF After
    <2>2. After(m, unit, a, k + 1) = Stopped(Charged(m, SatMul(a, unit)), a)
      BY <1>1, <1>4 DEF After
    <2> QED
      BY <2>1, <2>2, RoundCases
  <1> QED
    BY <1>1, <1>2, <1>3, <1>4

LEMMA NoRounds ==
    ASSUME NEW m \in Meters, NEW unit \in U64, NEW a \in Nat
    PROVE  After(m, unit, a, 0) = Going(m, 0)
  <1>1. SatMul(0, unit) = 0
    BY I64MaxAssumption DEF SatMul, U64, U64Max
  <1> QED
    BY <1>1, ChargedNothing DEF After

(* After is the loop: it satisfies the recursion, which has no other solution. *)
LEMMA LoopComputes ==
    ASSUME NEW m \in Meters, m.costing = "off" => ~m.configured,
           NEW n \in U64, NEW unit \in U64
    PROVE  UnitLoop(m, n, unit) = After(m, unit, UnitsAdmitted(m, n, unit), n)
  <1> DEFINE a == UnitsAdmitted(m, n, unit)
             D == 0 .. n
             w == [k \in D |-> After(m, unit, a, k)]
             f == CHOOSE g : Rounds(m, n, unit, g)
             first == Going(m, 0)
  <1>1. n \in Nat /\ a \in Nat
    BY UnitsType DEF U64
  <1> HIDE DEF a
  <1>2. After(m, unit, a, 0) = first
    BY <1>1, NoRounds
  <1>3. \A k \in 1 .. n : After(m, unit, a, k) = Round(After(m, unit, a, k - 1), unit)
    <2> SUFFICES ASSUME NEW k \in 1 .. n
                 PROVE  After(m, unit, a, k) = Round(After(m, unit, a, k - 1), unit)
      OBVIOUS
    <2>1. k - 1 \in Nat /\ k - 1 < n /\ (k - 1) + 1 = k
      BY <1>1
    <2>2. \A j \in Nat : j < n => Round(After(m, unit, a, j), unit) = After(m, unit, a, j + 1)
      BY OneRound DEF a
    <2> QED
      BY <2>1, <2>2
  <1>4. Rounds(m, n, unit, w)
    <2>1. \A k \in D : k # 0 => k \in 1 .. n /\ k - 1 \in D
      BY <1>1
    <2>2. \A k \in D : w[k] = After(m, unit, a, k)
      OBVIOUS
    <2>3. \A k \in D : After(m, unit, a, k) = IF k = 0 THEN first ELSE Round(w[k - 1], unit)
      BY <1>2, <1>3, <2>1, <2>2
    <2>4. w = [k \in D |-> IF k = 0 THEN first ELSE Round(w[k - 1], unit)]
      BY <2>3
    <2> QED
      BY <2>4 DEF Rounds
  <1>5. Rounds(m, n, unit, f)
    BY <1>4, Zenon
  <1> HIDE DEF f
  <1>6. f[0] = first /\ \A k \in 1 .. n : f[k] = Round(f[k - 1], unit)
    <2> DEFINE h == [k \in D |-> IF k = 0 THEN first ELSE Round(f[k - 1], unit)]
    <2>1. f = h
      BY <1>5, Zenon DEF Rounds
    <2>2. \A k \in D : h[k] = IF k = 0 THEN first ELSE Round(f[k - 1], unit)
      OBVIOUS
    <2> HIDE DEF h
    <2>3. \A k \in D : f[k] = IF k = 0 THEN first ELSE Round(f[k - 1], unit)
      BY <2>1, <2>2
    <2>4. 0 \in D /\ \A k \in 1 .. n : k \in D /\ k # 0
      BY <1>1
    <2> QED
      BY <2>3, <2>4
  <1> DEFINE Bad == {k \in D : f[k] # After(m, unit, a, k)}
  <1>7. Bad = {}
    <2> SUFFICES ASSUME Bad # {} PROVE FALSE
      OBVIOUS
    <2>1. PICK k \in Bad : \A j \in Bad : k <= j
      <3>1. Bad \in SUBSET Nat
        BY <1>1
      <3> HIDE DEF Bad
      <3> QED
        BY <3>1, LeastElement, Zenon
    <2>2. k \in Nat /\ k <= n /\ k # 0
      BY <1>1, <1>2, <1>6
    <2>3. k - 1 \in D /\ k - 1 \notin Bad /\ k \in 1 .. n
      BY <1>1, <2>1, <2>2
    <2>4. f[k - 1] = After(m, unit, a, k - 1)
      BY <2>3
    <2>5. f[k] = After(m, unit, a, k)
      BY <1>3, <1>6, <2>3, <2>4
    <2> QED
      BY <2>1, <2>5
  <1>8. n \in D
    BY <1>1
  <1>9. f[n] = After(m, unit, a, n)
    BY <1>7, <1>8
  <1> QED
    BY <1>9, LoopIsRounds, Zenon DEF f, a

(***************************************************************************)
(* On every meter a State can have, charging n units in one step takes and *)
(* admits exactly what n single charges would, whatever the widths, the    *)
(* counts and the cost of a unit (consume_units_admitted).                 *)
(***************************************************************************)
THEOREM UnitsAreSingleCharges == Spec => []UnitsEqualUnitLoop
  <1>1. IInv => UnitsEqualUnitLoop
    <2> SUFFICES ASSUME IInv, NEW n \in UnitCounts, NEW unit \in Costs
                 PROVE  LET loop == UnitLoop(meter, n, unit)
                        IN  /\ ConsumeUnits(meter, n, unit) = loop.meter
                            /\ UnitsAdmitted(meter, n, unit) = loop.admitted
      BY DEF UnitsEqualUnitLoop
    <2> DEFINE a == UnitsAdmitted(meter, n, unit)
    <2>1. n \in U64 /\ unit \in U64 /\ meter \in Meters /\ (meter.costing = "off" => ~meter.configured)
      BY CostInputsAssumption DEF IInv, TypeOK, SnapshotLoads, SnapshotAccepted
    <2>2. UnitLoop(meter, n, unit) = After(meter, unit, a, n)
      BY <2>1, LoopComputes
    <2>3. a \in Nat /\ n \in Nat
      BY <2>1, UnitsType DEF U64
    <2>4. a <= n
      <3>1. a = n \/ a = 0 \/ ~(n <= a)
        BY Zenon DEF UnitsAdmitted
      <3> HIDE DEF a
      <3> QED
        BY <2>3, <3>1
    <2> HIDE DEF a
    <2>5. UnitLoop(meter, n, unit) = IF a = n THEN Going(Charged(meter, SatMul(a, unit)), a)
                                              ELSE Stopped(Charged(meter, SatMul(a, unit)), a)
      BY <2>2, <2>3, <2>4 DEF After
    <2>6. UnitLoop(meter, n, unit).meter = Charged(meter, SatMul(a, unit)) /\ UnitLoop(meter, n, unit).admitted = a
      <3>1. \A x : Going(x, a).meter = x /\ Going(x, a).admitted = a
        BY Zenon DEF Going
      <3>2. \A x : Stopped(x, a).meter = x /\ Stopped(x, a).admitted = a
        BY Zenon DEF Stopped
      <3> QED
        BY <2>5, <3>1, <3>2
    <2> QED
      BY <2>6, Zenon DEF ConsumeUnits, a
  <1> QED
    BY <1>1, InvariantHolds, PTL

=============================================================================
