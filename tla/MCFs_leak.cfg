SPECIFICATION Spec
CONSTANTS
    p1 = p1
    p2 = p2
    Proc = {p1, p2}
    Nobody = Nobody
    NInum = 2
    Name = {"a"}
    Paths <- TopPath
    Calls <- Makers
    NoSpace = {0}
INVARIANT
    UnlinkedIsHeld
