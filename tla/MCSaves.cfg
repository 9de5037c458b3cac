CONSTANTS
    b = b  x = x  y = y  u = u
    Nil = Nil  Vacant = Vacant  NoProbe = NoProbe  NoSave = NoSave
    Names = {b, x, y}
    Builtins = {b}
    Sites = {x}
    Vals = {u}
    InlineCapacity = 2  MaxArrayLen = 2  LeadCatchUp = 2  EmptiedCapacity = 2
    VersionSpace = 9
    Whitelists <- TwoWhitelists
    Hosts <- TwoHosts
    Header <- Versions
    MetaNames <- MetaTexts
    FirstCode <- Code  FirstNodes <- Nodes
    Registries = {{}, {"f"}}
    Scripts <- Programs  Setups <- HostSetups  Sequels <- Rerenders
    MaxLoads = 1
    ObjectSlots <- Slots6
    MaxPointerId = 3
    NoObject = NoObject  NoFile = NoFile
SPECIFICATION SavesSpec
INVARIANT CachesAnswerForTheEnvironment
PROPERTIES LoadKeepsWhatWasSaved LoadRebuildsTheGraph IdentitiesSurviveLoads SavesAreReproducible
CHECK_DEADLOCK FALSE
