SPECIFICATION Spec
CONSTANTS
    None = None
    Addrs = {a1, a2, a3}
    Objs = {o1, o2}
    Runtimes = {r1, r2, r3}
    Protos <- SmallProtos
    Mains <- SmallMains
    Kids <- SmallKids
    Literals <- SmallLiterals
    MaxFrames = 2
SYMMETRY Interchangeable
PROPERTY RuntimesOutliveTheirUse
