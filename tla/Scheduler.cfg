CONSTANTS
    f1 = f1
    f2 = f2
    f3 = f3
    f4 = f4
    NoFiber = NoFiber
    Fibers <- MCFibers

SPECIFICATION FairSchedulerSpec

INVARIANT FiberInOnePlace
INVARIANT ContextValid
INVARIANT CountMatches
PROPERTY ReadyRuns

CHECK_DEADLOCK FALSE
