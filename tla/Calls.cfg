SPECIFICATION Spec
CONSTANTS
    MaxCallDepth = 2
    MaxNativeCallDepth = 2
    MaxMetamethodDepth = 1
    MaxStackSize = 7
    MaxArguments = 2
    MaxResults = 1
    FrameHeadroom = 2
    Width = 2
    MaxHostSlots = 1
    Args = {0}
    Expected = {0, 1}
    MayInterrupt = TRUE
    Callees <- SmallCallees
    MaxCallbackCalls = 1
    LoopPhases = 2
INVARIANTS
    CountsMatch
PROPERTIES
    CallsEndCleanly
    InterruptStops
