\* The DIR pin of an axis that has a time to hold before a reversal.
SPECIFICATION ControlSpec
CONSTANTS
    rt = rt
    srt = srt
    aux = aux
    common = common
    RT = RT
    SRT = SRT
    Topics = {"axis"}
    Common = Common
    Every = Every
    Modules <- MCModules
    Prio <- MCPrio
    DomainOf <- MCDomainOf
    Domains <- MCDomains
    Routed = FALSE
    MaxNest = 0
    N = 3
    Budget = 2
    MaxReady = 2
    Plan <- MCPlan
    LongPlan <- MCLongPlan
    Claimants = {1, 2}
    Resources = {x}
    Undefined = y
    Groups = {0, 1}
    MaxClaims = 3
    Offered <- MCOffered
    Overhead <- MCOverhead
    MaxSlots = 4
    MaxIter = 8
    NCpus = 2
    AnyCpu = 9
    NTypes = 2
    ModuleTables <- MCModuleTables
    Peripherals = {x}
    AppResources = {y}
    MaxEntries = 2
    MaxModules = 3
    MaxBindings = 1
    NInstances = 2
    HardRt = TRUE
    TickerSlots = {1, 2}
    SlotPeriod <- MCSlotPeriod
    MaxCatchup = 2
    Room = 2
    MaxLate = 9
    SyncDomains = {x, y}
    NoDomain = no
    PreDelay = 1
    PostDelay = 1
    TxTimeout = 3
    RxIdle = 1
    LongestFrame = 2
    PollGap = 1
    Halves = {1, 4}
    MinHigh = 2
    DirSetup = 2
    DirHold = 2
    MaxPosition = 2
    StableTime = 2
    LongestInput = 4
    AlignSteps = 3
    RampSteps = 4
    LockSteps = 2
    PerCall = 2
    Full = 5
    Derated = 1
    RampRate = 2
    RecoverySteps = 3
    Failures = 2
    TokenRate = 2
    Burst = 3
    Alarm = 2
    Sizes = {1, 2, 4}
    ClockMod = 16
    MaxIdle = 3
CHECK_DEADLOCK FALSE
PROPERTY HoldIsKept
