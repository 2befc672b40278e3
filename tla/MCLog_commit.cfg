\* Calls that reserve two blocks and write one, and room for two calls in an empty log: a
\* second call is admitted only while nothing is logged, and otherwise waits.
CONSTANTS
    Proc = {p1, p2}
    Block = {b1, b2, b3}
    Data = {v0, v1}
    Zero = v0
    Torn = torn
    NoBuf = nobuf
    MAXOPBLOCKS = 2
    LOGSIZE = 4
    nlog = 4
    OpBlocks = 1
SPECIFICATION LiveSpec
INVARIANTS
    PinnedWhileLogged
    CommitterIsAlone
    NoPanic
PROPERTIES
    RefinesAtomicDisk
    SleeperWakes
