---------------------------- MODULE MCMemoryPool ----------------------------
(* Three chunks of three slots, with room left between the header and the   *)
(* last of them: chunks that are full, in use and exhausted at the same     *)
(* time, in every order on the list.  Chunks are interchangeable.           *)
EXTENDS MemoryPool, TLC

CONSTANTS c1, c2, c3

MCChunks == {c1, c2, c3}

ChunkSymmetry == Permutations(MCChunks)
=============================================================================
