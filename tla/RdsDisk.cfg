CONSTANTS
    c1 = c1
    v1 = v1
    Client = {c1}
    rd_comproc = rd_comproc
    Block = {k1, k2, k3}
    Value = {v1, v2}
    Hole = Hole
    Garbage = Garbage
    Buf = {b1, b2}
    NoBuf = NoBuf
    Notice = Notice
    File <- Uniform
    RD_RETRIES = 2
    UDP_QSIZ = 2
    Program <- Everything
    NoticeAt = {"run"}
    Late = FALSE
    MaxSeq = 6
    MaxLost = 2
SPECIFICATION Spec
SYMMETRY Symmetry
INVARIANTS
    BuffersPartitioned
    AvailExact
    RequestsCounted
    ReaderQueued
    Durable
PROPERTIES
    ImplementsDisk
CHECK_DEADLOCK FALSE
