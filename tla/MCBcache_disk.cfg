SPECIFICATION Spec
CONSTANTS
    Proc = {p1, p2, p3}
    Block = {b1, b2, b3}
    Data = {0, 1}
    Buf = {x1, x2}
    Free = Free
    MaxPins = 1
    NUM = 4
SYMMETRY Symmetry
INVARIANTS
    RefcntExact
    SleeperHasWaker
    DescriptorsAccounted
PROPERTIES
    RefinesBlockStore
    IoTakesEffect
CHECK_DEADLOCK FALSE
