CONSTANTS
    Fibers = {f1, f2}
    FDs = {d1}
    NoFiber = NoFiber
    WorkPipe = WorkPipe
    PoolWatch = PoolWatch
    NotSet = NotSet
    NoCall = NoCall
    Expired = Expired
    MaxEvents = 1

SPECIFICATION FairSpec

PROPERTY WaitsEnd

CHECK_DEADLOCK FALSE
