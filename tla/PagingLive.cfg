SPECIFICATION FairSpec
CONSTANTS
    m0 = m0
    p1 = p1
    p2 = p2
    p3 = p3
    Proc = {m0, p1, p2}
    Main = m0
    NULLPROC = null
    NoProc = none
    NDSFRAMES = 6
    NFRAMES = 7
    NBSDS = 2
    NBPG = 1
    MaxPages = 1
    Sizes = {1}
    Value = {m0, p1, p2}
    Writes <- OwnName
    NoValue = junk
    Policy = "MYPOLICY"
    CacheTLB = FALSE
    Creators = {m0}
    Exits = {p1}
    Targets = {}
    Stray = FALSE
    MaxCreate = 2
PROPERTIES
    FaultServed
