SPECIFICATION Spec
CONSTANTS
    Proc = {p1, p2, p3}
    Byte = {a, b}
    Free = Free
    PIPESIZE = 2
    Modulus = 4
    MaxN = 2
    MayKill = {p1, p2, p3}
SYMMETRY Symmetry
INVARIANTS
    SleepsForAReason
    FreedMeansUnused
PROPERTIES
    RefinesFifo
CHECK_DEADLOCK FALSE
