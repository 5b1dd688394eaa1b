CONSTANTS
    f1 = f1
    f2 = f2
    f3 = f3
    f4 = f4
    NoFiber = NoFiber
    Fibers <- MCFibers
    Bounds <- MCBounds

SPECIFICATION FairSpec

INVARIANT ValueInBounds
INVARIANT WakeupsMatchValue
INVARIANT WaitersBlocked
PROPERTY BoundedSemaphoreSpec

CHECK_DEADLOCK FALSE
