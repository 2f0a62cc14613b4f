CONSTANTS
    Process = {p1, p2}
    NoProcess = NoProcess
    PortUser = {p1, p2}
    Node = {n1, n2}
    NPORTS = 2
    Sizes = {1, 2}
    Created = {1, 2}
    MaxLives = 3
    BufUser = {p1, p2}
    HeapWords = 10
    VHeapWords = 4
    Requests = {1, 4}
    VRequests = {1, 2}
    BufSize = 1
    NumBufs = 2
    MaxOwned = 3
    TtyUser = {p1, p2}
    NoTtyUser = NoTtyUser
    TY_IBUFLEN = 3
    TY_OBUFLEN = 3
    TY_EBUFLEN = 3
    UART_FIFO_SIZE = 2
    Keys = {"a", "cr", "erase", "kill", "eof", "stop", "start"}
    Outputs <- Texts
    ReadCounts = {0, 1}
    Functions = {"MODER", "MODEC", "MODEK", "ECHO", "NEXTC"}
    Frame = {0, 1, 2, 3}
    Owner = {p1, p2}
    NoOwner = NoOwner
    fifoHead = fifoHead
    NULL = NULL
SPECIFICATION MCSpec
SYMMETRY Symmetry
VIEW Seen
INVARIANTS
    PortsExact
    MemoryExact
    InputExact
    OutputExact
    OutputMoves
    CommandExact
    CommandsTracked
PROPERTY ImplementsList
CHECK_DEADLOCK FALSE
