CONSTANTS
    n0 = n0
    m0 = m0
    p1 = p1
    p2 = p2
    s1 = s1
    Proc = {n0, m0, p1, p2}
    NULLPROC = n0
    Main = m0
    UserSem = {s1}
    prSem = prSem
    NoSem = NoSem
    NoProc = NoProc
    readylist = readylist
    sleepq = sleepq
    NoQueue = NoQueue
    Prios = {1, 2}
    NewPrios = {1}
    Delays = {1, 2}
    Timeouts = {1}
    Half = 8
    Counts = {0, 2}
    Program <- TimeOut
    MaxCount = 2
SPECIFICATION MCSpec
VIEW Seen
INVARIANTS
    OneQueue
    OneCurrent
    SemCountIsQueue
    MessageWakes
    CurrentHighest
    DeltaListExact
    SleepersOnTime
PROPERTIES
    SleepsInFull
CHECK_DEADLOCK FALSE
