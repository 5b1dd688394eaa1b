CONSTANTS
    Fibers = {f1, f2}
    FDs = {d1}
    NoFiber = NoFiber
    WorkPipe = WorkPipe
    PoolWatch = PoolWatch
    NotSet = NotSet
    NoCall = NoCall
    Expired = Expired
    MaxEvents = 2

SPECIFICATION Spec

INVARIANT TimedWaitReturns

CHECK_DEADLOCK FALSE
