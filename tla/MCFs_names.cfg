SPECIFICATION Spec
CONSTANTS
    p1 = p1
    p2 = p2
    Proc = {p1, p2}
    Nobody = Nobody
    NInum = 3
    Name = {"a", "b"}
    Paths <- DownPaths
    Calls <- TwoRoles
    NoSpace = {0, 1}
INVARIANTS
    RefExact
    IputNeverBlocks
    NoDanglingEntry
    NoPanic
