CONSTANTS
    c1 = c1
    c2 = c2
    c3 = c3
    Chunks <- MCChunks
    ChunkSize = 9
    HeaderSize = 2
    BlockSize = 2

SPECIFICATION MemoryPoolSpec
SYMMETRY ChunkSymmetry

INVARIANT SlotsAccountedFor
INVARIANT ChunkOnRightList
PROPERTY ShrinkLeavesNoFreeChunk
