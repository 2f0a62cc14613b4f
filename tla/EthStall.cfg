CONSTANTS
    Reader = "netin"
    Writer = {"ipout", "w"}
    RxRing = 1
    TxRing = 2
    Mine = {"mine"}
    Mcast = {}
    ETH_NUM_MCAST = 2
SPECIFICATION EthSpec
INVARIANT SlotsSignalled
CHECK_DEADLOCK FALSE
