CONSTANTS
    x = x  y = y  z = z  u = u
    Nil = Nil  Vacant = Vacant
    Names = {x, y, z}
    Vals = {u}
    InlineCapacity = 2  MaxArrayLen = 2  LeadCatchUp = 2  EmptiedCapacity = 2
    VersionSpace = 5
    BatchSize = 2
    Programs <- GrowingProgram
SPECIFICATION WalkSpec
INVARIANT CursorsAreInvisible
CHECK_DEADLOCK FALSE
