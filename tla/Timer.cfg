CONSTANTS
    n1 = n1
    n2 = n2
    n3 = n3
    Nodes <- MCNodes
    SegmentLength = 2
    WordBits = 7
    ElementSize = 8
    Keys <- MCKeys
    Delays <- MCDelays
    MaxTime = 3

SPECIFICATION FairSpec

INVARIANT TimerTypeOK
PROPERTY TickFiresWhatIsDue
PROPERTY WaitEndsInTime
PROPERTY TimeoutServiceSpec
