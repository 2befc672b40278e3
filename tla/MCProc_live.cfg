SPECIFICATION LiveSpec
CONSTANTS
    NPROC = 2
    CPU = {c1, c2}
    Free = Free
    Clock = Clock
    MaxPid = 2
    MaxSleep = 2
    KillArgs = {2}
    Calls = {"fork", "exit", "wait", "sys_sleep"}
PROPERTIES
    LocksReleased
    SleepEnds
