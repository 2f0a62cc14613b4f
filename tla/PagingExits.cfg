SPECIFICATION MCSpec
VIEW Seen
CONSTANTS
    m0 = m0
    p1 = p1
    p2 = p2
    p3 = p3
    Proc = {m0, p1, p2, p3}
    Main = m0
    NULLPROC = null
    NoProc = none
    NDSFRAMES = 7
    NFRAMES = 9
    NBSDS = 3
    NBPG = 1
    MaxPages = 1
    Sizes = {1}
    Value = {m0, p1, p2, p3}
    Writes <- FirstTwo
    NoValue = junk
    Policy = "FIFO"
    CacheTLB = TRUE
    Creators = {m0}
    Exits = {}
    Targets = {}
    Stray = FALSE
    MaxCreate = 3
INVARIANTS
    FrameTableConsistent
    FifoExact
    StoresOwned
    UseCountsBalanced
    DataPreserved
    TlbCoherent
    ExitsConsistent
