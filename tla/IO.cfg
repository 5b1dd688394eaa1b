CONSTANTS
    f1 = f1
    f2 = f2
    f3 = f3
    d1 = d1
    d2 = d2
    Fibers <- MCFibers
    FDs <- MCFDs
    NoFiber = NoFiber
    WorkPipe = WorkPipe
    PoolWatch = PoolWatch
    NotSet = NotSet
    NoCall = NoCall
    Expired = Expired
    MaxEvents = 2

SPECIFICATION Spec
SYMMETRY MCSymmetry

INVARIANT CallbacksDefined
INVARIANT FiberInOnePlace
INVARIANT RecordsOfBlockedFibers
INVARIANT LoopEndsClean
PROPERTY OnlyCloseForgets

CHECK_DEADLOCK FALSE
