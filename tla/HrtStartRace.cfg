\* Two starts at once: the one that gives up stops the timer of the one that won.
SPECIFICATION TimingSpec
CONSTANTS
    a = a
    b = b
    p2 = p2
    t1 = t1
    t2 = t2
    none = none
    Setups <- ThreeUses
    Builds <- ThreeBuilds
    Parts = {"race"}
    NSlots = 2
    Period <- Periods
    TickMod = 16
    PerIsr = 2
    MaxLate = 3
    IrqCalls = FALSE
INVARIANT StartedRuns
