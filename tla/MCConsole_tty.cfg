SPECIFICATION Spec
CONSTANTS
    CPU = {1, 2}
    Readers = {1}
    Plain = "x"
    NL = "nl"
    EOF = "^D"
    Keys = {"x", "nl", "^D", "^H", "^U", "^P"}
    INPUT_BUF_SIZE = 2
    UART_TX_BUF_SIZE = 1
    Modulus = 4
    Start = {0, 2}
    FifoSize = 2
    ReadN = 2
    RxSize = 1
    MaxWork = 3
INVARIANTS
    NoPanic
    FifoNotOverrun
    OutputMoves
    SleepsForAReason
PROPERTIES
    RefinesTerminal
CHECK_DEADLOCK FALSE
