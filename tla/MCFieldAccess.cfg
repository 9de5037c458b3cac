CONSTANTS
    o = o  c = c  d = d  f = f  k = k  index = index  newindex = newindex  spare = spare
    Nil = Nil  Vacant = Vacant  NoEntry = NoEntry  Str = Str  Atom = Atom
    Tables = {o, c, d}  Functions = {f}
    Names = {k, index, newindex, spare}
    Key = k  IndexKey = index  NewIndexKey = newindex
    StringMeta = d
    InlineCapacity = 2  MaxArrayLen = 2  LeadCatchUp = 2  EmptiedCapacity = 2
    VersionSpace = 9
    MaxMetamethodDepth = 2
    Programs <- ThreePrograms
SPECIFICATION Spec
INVARIANTS ReadsIgnoreWarmthAndSpelling WritesIgnoreWarmthAndSpelling
