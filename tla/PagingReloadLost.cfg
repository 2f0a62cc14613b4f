SPECIFICATION Spec
CONSTANTS
    m0 = m0
    p1 = p1
    p2 = p2
    p3 = p3
    Proc = {m0, p1, p2}
    Main = m0
    NULLPROC = null
    NoProc = none
    NDSFRAMES = 5
    NFRAMES = 7
    NBSDS = 2
    NBPG = 1
    MaxPages = 2
    Sizes = {2}
    Value = {m0, p1, p2}
    Writes <- OwnName
    NoValue = junk
    Policy = "FIFO"
    CacheTLB = FALSE
    Creators = {m0}
    Exits = {p1}
    Targets = {}
    Stray = FALSE
    MaxCreate = 2
INVARIANTS
    DataPreserved
