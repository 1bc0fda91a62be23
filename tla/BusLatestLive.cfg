\* Calls return against a writer that publishes for ever, the mark delayed or not.
SPECIFICATION FairSpec
CONSTANTS
    Writers = {w1}
    Observers = {o1}
    Capacity = 3
    Words = {x1}
    Frames = {f1}
    Blank = Blank
    MaxRetries = 1
    SeqMod = 4
    Locked = FALSE
    StoreBuffer = TRUE
    None = None
PROPERTIES CallsReturn
