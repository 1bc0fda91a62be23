\* The timer, the watchdog and the events; see MCTiming for the parts.
SPECIFICATION FairTiming
CONSTANTS
    a = a
    b = b
    p2 = p2
    t1 = t1
    t2 = t2
    none = none
    Setups <- ThreeUses
    Builds <- ThreeBuilds
    Parts = {"race", "served", "watchdog", "events"}
    NSlots = 2
    Period <- Periods
    TickMod = 12
    PerIsr = 2
    MaxLate = 3
    IrqCalls = FALSE
INVARIANTS TypesOK EventsReachAll
PROPERTIES PeriodsAccounted FeedsAreEarned WhatIsDueComes FirstInFirstOut
