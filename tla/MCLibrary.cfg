CONSTANTS
    short = short  full = full  vast = vast
    Slots = {1, 2}
    Texts = {short, full, vast}
    Length <- Lengths  Carets = {short}
    Sites = {1}
    NoEntry = NoEntry
    GenSpace = 4  PruneInterval = 3
    PatternEntries = 2  PatternBytes = 2
    MaxCaptures = 3  MaxDepth = 4
    Uses <- MCUses
    Unlimited = 100
    MaxString = 8  MaxFailures = 2
    NotGiven = NotGiven  Fraction = Fraction  NoBudget = NoBudget
    Requests <- MCRequests
    MaxInt = 15  MaxExact = 8  SortLimit = 6  MaxResults = 4  MaxText = 5
    Precision = 3  Bias = 3  MaxExponent = 4  SignificantDigits = 2  ExponentSlack = 13  IntegerBits = 5
    Asks <- MCAsks
    MaxStack = 8  MaxUnits = 2  MaxIds = 2  KeyOrder <- MCKeyOrder
    MaxReturns = 3  MaxMessage = 5
    HostCalls <- MCHostCalls  StartOf <- StartState
SPECIFICATION LibrarySpec
INVARIANTS NoEntryAliases PatternCacheIsExact
    SearchFollowsPreference OccurrencesFollowLua
    TableLibraryFollowsLua NumbersFollowLua
 
CHECK_DEADLOCK FALSE
