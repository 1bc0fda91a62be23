\* Rings of two events from two sources to a queue with room for one, with interrupts
\* of the target; and each of the other channels, whose cursors and numbers come round.
SPECIFICATION IpcSpec
CONSTANTS
    None = None
    Kinds = {a, b}
    Known = {a, b}
    Prio <- OnePrio
    Item = {a, b}
    NSources = 2
    Depth = 3
    Room = 1
    PerSource = 1
    DrainBudget = 2
    ProcessBudget = 1
    Locals = TRUE
    SeqMod = 7
    WordCount = 2
    FifoDepth = 4
    FifoMod = 8
    LatestMod = 6
    MaxStores = 3
    WeakStores = 1
    RelayDepth = 4
    RelayMod = 6
    Budget = 2
    Parts = {"events", "fifo", "ordered", "weak", "relay"}
SYMMETRY Symmetry
INVARIANTS ChannelsOK NoFalseAlarms
PROPERTIES ChannelsAreQueues LatestIsRegister
