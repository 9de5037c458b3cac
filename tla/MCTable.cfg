CONSTANTS
    u = u  v = v
    Nil = Nil  Vacant = Vacant
    Names = {}
    Vals = {u, v}
    InlineCapacity = 2  MaxArrayLen = 7  LeadCatchUp = 2  EmptiedCapacity = 2
    VersionSpace = 1
    BatchSize = 2
    Programs <- ArrayPrograms
SPECIFICATION Spec
INVARIANTS RepresentationIsExact LoadedTableContinues
    OperationsMeanWhatLuaSays
CHECK_DEADLOCK FALSE
