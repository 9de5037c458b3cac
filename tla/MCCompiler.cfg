SPECIFICATION CompilerSpec
CONSTANTS
    Programs <- AllPrograms
    Sources <- AllSources  Keywords <- SomeKeywords
    Precision = 3  Bias = 3  MaxExponent = 4  SignificantDigits = 2  ExponentSlack = 13  IntegerBits = 5
INVARIANTS
    CompiledCodeIsAdmitted
    CompiledCodeMeansItsSource
    FreeNamesAreReported
    CodeStaysInItsFrames
    LexingFollowsLua
