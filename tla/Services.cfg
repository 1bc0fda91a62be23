\* The services of one CPU; see MCServices for the topics.
SPECIFICATION ServicesSpec
CONSTANTS
    Topics = {"params", "full", "pool", "log", "ultra", "recorder", "handled", "pulled"}
    None = None
    Params = {q1, q2}
    AtReboot = {q2}
    Values = {1, 2}
    Default = 1
    Bad = 3
    Foreign = own
    OwnValues = {}
    MaxEntries = 2
    Image <- MCImage
    MaxSeq = 3
    PoolBlocks = 2
    PoolCpus = {p, q}
    Lines = {x, y}
    LogDepth = 2
    LogBudget = 2
    DropMod = 2
    UltraTypes = {x, y}
    UltraHandled = {x}
    UltraDepth = 4
    MaxCount = 1
    Capacity = 2
    CurMod = 8
    MaxBehind = 5
    WordCount = 2
    Budget = 1
    Buffers = {b1, b2, b3}
    NoBlock = NoBlock
    SeqMod = 8
    StreamBudget = 2
    MaxHeld = 2
SYMMETRY Symmetry
INVARIANTS TypesOK BlocksHaveOwners CopiesAreWhole SettingsSurvive
PROPERTIES OneHolder ServicesAreQueues SavesAreDurable
