SPECIFICATION Spec
CONSTANTS
    NPROC = 3
    CPU = {c1, c2}
    Free = Free
    Clock = Clock
    MaxPid = 4
    MaxSleep = 1
    KillArgs = {2}
    Calls = {"fork", "exit", "wait"}
SYMMETRY Symmetry
INVARIANTS
    OneThreadPerSlot
    ParentsAlive
    NoZombieMissed

