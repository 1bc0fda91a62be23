\* Multicore build: one writing context, BUS_LOCK empty, every access interleaves.
SPECIFICATION Spec
CONSTANTS
    Writers = {w1}
    Observers = {o1}
    Capacity = 3
    Words = {x1, x2}
    Frames = {f1, f2}
    Blank = Blank
    MaxRetries = 2
    SeqMod = 4
    Locked = FALSE
    StoreBuffer = FALSE
    None = None
SYMMETRY Symmetry
INVARIANTS TypeOK NoTornLoan NoTornCopy
PROPERTY RegisterSpec
