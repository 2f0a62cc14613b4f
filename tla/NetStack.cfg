CONSTANTS
    Process = {p1, p2}
    Client = {p1, p2}
    NoProcess = NoProcess
    Host = {h1, h2, h3}
    Bcast = Bcast
    Zero = Zero
    ARP_SIZ = 2
    ARP_RETRY = 2
    Nrfl = 1
    RF_RETRIES = 2
    Modes <- MCModes
    Counts = {1}
    Texts <- MCTexts
    Positions = {0}
    Controls = {"DREQ"}
    MaxSeq = 3
    MaxFlight = 2
    Reader = "netin"
    Writer = {"ipout", "w", "x"}
    RxRing = 3
    TxRing = 3
    Mine = {"mine"}
    Mcast = {"m1", "m2"}
    ETH_NUM_MCAST = 2
SPECIFICATION Spec
SYMMETRY Symmetry
VIEW Seen
INVARIANTS
    ArpExact
    BuffersConserved
    QueuesExact
    StuckOnlyByEcho
    RingsExact
    RemoteExact
CHECK_DEADLOCK FALSE
