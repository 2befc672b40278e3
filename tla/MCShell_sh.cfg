SPECIFICATION LiveSpec
CONSTANTS
    NPROC = 7
    NOFILE = 6
    NPIPE = 4
    PIPESIZE = 2
    MaxFail = 1
    MaxNumber = 5
    MAXARGS = 3
    Scripts <- MCScripts
CHECK_DEADLOCK FALSE
INVARIANTS
    ExecEnvironment
    PromptAfterForeground
    PrimesInOrder
    ParsesEveryLine
PROPERTIES
    PromptReturns
