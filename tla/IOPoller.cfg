CONSTANTS
    d1 = d1
    d2 = d2
    d3 = d3
    v1 = v1
    v2 = v2
    v3 = v3
    NotSet = NotSet
    FDs <- MCFDs
    Watches <- MCWatches
    Lasting <- MCLasting
    MaxEvents = 2

SPECIFICATION Spec
SYMMETRY MCSymmetry
CONSTRAINT FewDirty

INVARIANT IOPollerTypeOK
INVARIANT EpollKnowsTheWatches
INVARIANT EpollAgrees
INVARIANT DirtyWhenChanged
PROPERTY WatchServiceSpec
