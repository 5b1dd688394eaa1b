CONSTANTS
    f1 = f1
    f2 = f2
    f3 = f3
    f4 = f4
    NoFiber = NoFiber
    Fibers <- MCFibers

SPECIFICATION FairSpec

INVARIANT WaitersSuspended
PROPERTY TriggeredWaiterRuns

CHECK_DEADLOCK FALSE
