CONSTANTS
    Name = {"f", "g", "h"}
    Modes <- MCModes
    Byte = {"a", "b"}
    First <- MCFirst
    Rewritten = {1, 4}
    Nlfl = 2
    LF_NUM_DIR_ENT = 2
    LF_BLKSIZ = 2
    LF_IBLEN = 2
    lfiblks = 2
    dblks = 3
    ibpersector = 2
    MaxSize <- MCMaxSize
SPECIFICATION Spec
INVARIANT OpenOnce
CHECK_DEADLOCK FALSE
