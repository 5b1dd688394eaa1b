CONSTANTS
    f1 = f1
    f2 = f2
    f3 = f3
    f4 = f4
    w1 = w1
    w2 = w2
    Fibers <- MCFibers
    Workers <- MCWorkers
    StopSignal = StopSignal
    NoWork = NoWork
    PipeCapacity = 2
    BatchSize = 2

SPECIFICATION FairSpec

INVARIANT ThreadPoolTypeOK
INVARIANT WorkInOnePlace
INVARIANT NoSleepBesideWork
INVARIANT StopFindsNoWork
PROPERTY StopCompletes
PROPERTY WorkServiceSpec

CHECK_DEADLOCK FALSE
