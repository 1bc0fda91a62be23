\* A SIGNAL ring on a machine that satisfies loads late.
SPECIFICATION Spec
CONSTANTS
    OneHandle = OneHandle
    Shapes <- LateShapes
INVARIANT GoodCopy
