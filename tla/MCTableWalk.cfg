CONSTANTS
    x = x  y = y  z = z  u = u
    Nil = Nil  Vacant = Vacant
    Names = {x, y, z}
    Vals = {u}
    InlineCapacity = 2  MaxArrayLen = 2  LeadCatchUp = 2  EmptiedCapacity = 2
    VersionSpace = 5
    BatchSize = 2
    Programs <- FourPrograms
SPECIFICATION WalkSpec
INVARIANTS TraversalsAreComplete CursorsAreInvisible
PROPERTY TokensAnswerForTheirKey
CHECK_DEADLOCK FALSE
