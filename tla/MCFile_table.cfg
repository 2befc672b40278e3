SPECIFICATION Spec
CONSTANTS
    Proc = {1, 2}
    Calls <- ParentAndChild
    NFILE = 3
    NOFILE = 2
    NPIPE = 1
    MaxOff = 2
INVARIANTS
    CountsExact
    EachCellOnce
