SPECIFICATION Spec
CONSTANTS
    Nil = Nil
    Objects = {c1, c2, c3}
    Data = {}
    Width = 2
    MaxFrames = 2
    MaxPool = 2
    MaxCaptures = 2
    MaxShape = 5
SYMMETRY Symmetry
INVARIANTS
    NothingInUseIsFreed
PROPERTY ImplementsVariables
