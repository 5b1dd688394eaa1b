CONSTANTS
    n1 = n1
    n2 = n2
    n3 = n3
    n4 = n4
    n5 = n5
    n6 = n6
    Nodes <- MCNodes
    SegmentLength = 2
    WordBits = 7
    ElementSize = 8
    Keys <- MCKeys

SPECIFICATION HeapSpec
SYMMETRY NodeSymmetry

INVARIANT HeapOrdered
INVARIANT SlotNumbersRight
INVARIANT SlotsExist
