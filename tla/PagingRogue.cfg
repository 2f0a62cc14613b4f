SPECIFICATION Spec
CONSTANTS
    m0 = m0
    p1 = p1
    p2 = p2
    p3 = p3
    Proc = {m0, p1, p2}
    Main = m0
    NULLPROC = null
    NoProc = none
    NDSFRAMES = 4
    NFRAMES = 5
    NBSDS = 2
    NBPG = 1
    MaxPages = 2
    Sizes = {0, 1}
    Value = {m0, p1, p2}
    Writes <- OnlyFirst
    NoValue = junk
    Policy = "MYPOLICY"
    CacheTLB = TRUE
    Creators = {m0}
    Exits = {p1}
    Targets = {p1, p2}
    Stray = TRUE
    MaxCreate = 2
INVARIANTS
    PrSemConsistent
CHECK_DEADLOCK FALSE
