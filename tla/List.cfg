CONSTANTS
    h1 = h1
    h2 = h2
    i1 = i1
    i2 = i2
    i3 = i3
    i4 = i4
    i5 = i5
    Heads <- MCHeads
    Items <- MCItems
    Rank <- MCRank

SPECIFICATION ListSpec
VIEW LinkedCells

INVARIANT RingsClosed
PROPERTY ListsSpec
PROPERTY NeighboursTellLast
