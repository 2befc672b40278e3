SPECIFICATION Spec
CONSTANTS
    BSIZE = 2
    BPB = 16
    IPB = 4
    NDIRECT = 1
    FSSIZE = 13
    LOGSIZE = 1
    NINODES = 4
    Files <- OneFile
    Proc = {1, 2}
    FileIno = {2, 3}
    WriteArgs <- Writes
    ReadArgs <- Reads
    UINT = 16
    MaxCalls = 2
INVARIANTS
    BlocksAccounted
    ContentAsWritten
    NoPanic
CHECK_DEADLOCK FALSE
