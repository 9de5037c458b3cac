SPECIFICATION MCSpec
CONSTANTS
    I64Max = 7
    Costs <- MCCosts
    UnitCounts <- MCUnitCounts
    Limits <- MCLimits
    Interval = 4
    MaxNativeDepth = 2
    LimbBits = 2
    WideCalls <- MCWideCalls
    WordBits = 10
    FractionBits = 3
    FloatCalls <- MCFloatCalls
    PowerArguments <- MCPowerArguments
    TinyField = 20
    HugeField = 41
    FirstErrors <- MCFirstErrors
    SecondErrors <- MCSecondErrors
    Tails <- MCTails
    RangeSlack = 600
    NormalSlack = 2
    Margin = 32
    ThirdMargin = 8
    ProximityBits = 12
    MaxPower = 3
    MaxRoot = 1
    MaxExactPower = 2
    XMax <- MCXMax
    KeptBitsOfY = 3
INVARIANTS
    BatchStaysBelowBudget
    SnapshotLoads
    UnitsEqualUnitLoop
    
    PowersRoundOnce
PROPERTIES
    ExhaustedMeterIsFrozen
    ImplementsContract
