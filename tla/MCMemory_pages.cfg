SPECIFICATION Spec
CONSTANTS
    NPROC = 3
    NPAGES = 20
    PGSIZE = 2
    FAN = 2
    MaxBrk = 5
INVARIANTS
    PagesAccounted
    MappedUpToSize
    NoPanic
