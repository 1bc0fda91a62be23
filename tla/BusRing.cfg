\* A queue and a SIGNAL ring; their cursors come round after twelve and eight.
SPECIFICATION Spec
CONSTANTS
    OneHandle = OneHandle
    Shapes <- InTimeShapes
INVARIANTS TypeOK GoodCopy ReadyIsTrue
PROPERTIES InOrder QueueSpec
