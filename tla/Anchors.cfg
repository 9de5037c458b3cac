SPECIFICATION Spec
CONSTANTS
    States = {s1, s2}
    Slots = {i1, i2}
    Objects = {o1, o2}
    MaxAnchors = 3
    NoValue = NoValue
SYMMETRY Symmetry
CHECK_DEADLOCK FALSE
INVARIANTS
    HandlesKeepTheirValue
PROPERTY
    DrainReclaims
