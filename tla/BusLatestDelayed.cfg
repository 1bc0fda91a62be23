\* Release/acquire hardware with a store buffer: the reader's mark may come late.
SPECIFICATION Spec
CONSTANTS
    Writers = {w1}
    Observers = {}
    Capacity = 3
    Words = {x1, x2}
    Frames = {f1, f2}
    Blank = Blank
    MaxRetries = 2
    SeqMod = 4
    Locked = FALSE
    StoreBuffer = TRUE
    None = None
INVARIANT NoTornLoan
