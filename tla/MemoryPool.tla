----------------------------- MODULE MemoryPool -----------------------------
(***************************************************************************)
(* The pool of equal blocks (src/Source/MemoryPool.c) the I/O poller takes *)
(* its events from.  A chunk is an aligned region cut into slots; its free *)
(* slots are linked through their first word.  Chunks with a free slot are *)
(* on the usable list, which is kept so that blocks are taken from the     *)
(* back while chunks without any used slot gather at the front, where      *)
(* MemoryPool_ShrinkToFit looks for them.                                  *)
(***************************************************************************)
EXTENDS Integers, FiniteSets, SequencesExt, Loops

CONSTANTS Chunks,        \* the regions posix_memalign may return
          ChunkSize,     \* MEMORY_CHUNK_SIZE
          HeaderSize,    \* of struct MemoryChunk, at the start of the chunk
          BlockSize

(* The assertion of MemoryPool_Initialize; a block has room for a pointer. *)
ASSUME MemoryPoolAssumption ==
    /\ ChunkSize \in Nat /\ HeaderSize \in Nat /\ BlockSize \in Nat \ {0}
    /\ BlockSize <= ChunkSize - HeaderSize

VARIABLES
    usableChunkList, unusableChunkList,
    freeSlots,      \* the linked free slots of every chunk, the next one first
    blocks          \* the blocks in the hands of the callers

memoryPoolVars == <<usableChunkList, unusableChunkList, freeSlots, blocks>>

SlotsPerChunk == (ChunkSize - HeaderSize) \div BlockSize

(* Slots are counted from the end of the chunk, which is aligned with it.  *)
Slots == 1 .. SlotsPerChunk

Offset(slot) == ChunkSize - slot * BlockSize

Held == ToSet(usableChunkList) \cup ToSet(unusableChunkList)

numberOfFreeSlots(chunk) == Len(freeSlots[chunk])

Full(free) == Len(free) = SlotsPerChunk

-----------------------------------------------------------------------------
MemoryPoolInit ==
    /\ usableChunkList = <<>> /\ unusableChunkList = <<>>
    /\ freeSlots = [chunk \in Chunks |-> <<>>]
    /\ blocks = {}

(* Mutants: the slot stays linked; an exhausted chunk stays usable.        *)
TakeBlockKeepingSlot(usable, free) ==
    /\ blocks' = blocks \cup {<<Last(usable), Head(free[Last(usable)])>>}
    /\ freeSlots' = free
    /\ usableChunkList' = usable
    /\ UNCHANGED unusableChunkList

TakeBlockKeepingChunk(usable, free) ==
    /\ blocks' = blocks \cup {<<Last(usable), Head(free[Last(usable)])>>}
    /\ freeSlots' = [free EXCEPT ![Last(usable)] = Tail(@)]
    /\ usableChunkList' = usable
    /\ UNCHANGED unusableChunkList

(* A block is taken from the last usable chunk, given the usable list and  *)
(* the free slots after a possible new chunk.                              *)
TakeBlock(usable, free) ==
    LET chunk == Last(usable) IN
    /\ blocks' = blocks \cup {<<chunk, Head(free[chunk])>>}
    /\ freeSlots' = [free EXCEPT ![chunk] = Tail(@)]
    /\ IF Len(free[chunk]) = 1
       THEN /\ usableChunkList' = Front(usable)
            /\ unusableChunkList' = Append(unusableChunkList, chunk)
       ELSE /\ usableChunkList' = usable
            /\ UNCHANGED unusableChunkList

(* Mutant: the bound is the chunk and not what follows its header.         *)
LinkNextIntoHeader(linked) ==
    LET next == Len(linked) + 1
    IN  IF Offset(next) < 0 THEN linked ELSE Append(linked, next)

(* The block below is linked behind the last one linked, unless it would   *)
(* begin in the header.                                                    *)
LinkNext(linked) ==
    LET next == Len(linked) + 1
    IN  IF Offset(next) < HeaderSize THEN linked ELSE Append(linked, next)

(* MemoryPool_IncreaseChunks goes down from the end of a new chunk.        *)
LinkedSlots ==
    Repeated([linked \in Seq(Nat) |-> LinkNext(linked)], <<1>>, ChunkSize)

(* With no usable chunk one is made.  When there is no memory for it the   *)
(* call returns NULL.                                                      *)
AllocateBlock ==
    \/ /\ usableChunkList # <<>>
       /\ TakeBlock(usableChunkList, freeSlots)
    \/ /\ usableChunkList = <<>>
       /\ \E chunk \in Chunks \ Held :
             TakeBlock(<<chunk>>, [freeSlots EXCEPT ![chunk] = LinkedSlots])

(* Mutant: a chunk that has become free stays behind a used one.           *)
FreeBlockInPlace(block) ==
    LET chunk == block[1]
        free == Cons(block[2], freeSlots[chunk])
    IN /\ block \in blocks
       /\ blocks' = blocks \ {block}
       /\ freeSlots' = [freeSlots EXCEPT ![chunk] = free]
       /\ IF Len(free) = 1
          THEN /\ unusableChunkList' = RemoveFirst(unusableChunkList, chunk)
               /\ usableChunkList' = Append(usableChunkList, chunk)
          ELSE UNCHANGED <<usableChunkList, unusableChunkList>>

(* The block's address tells its chunk.  The chunk becomes usable with its *)
(* first free slot, and moves to the front with its last, unless it is     *)
(* there or behind a chunk that is free, too.                              *)
FreeBlock(block) ==
    LET chunk == block[1]
        free == Cons(block[2], freeSlots[chunk])
        usable == usableChunkList
        InFront == \E i \in DOMAIN usable :
            usable[i] = chunk /\ (i > 1 => Full(freeSlots[usable[i - 1]]))
    IN /\ block \in blocks
       /\ blocks' = blocks \ {block}
       /\ freeSlots' = [freeSlots EXCEPT ![chunk] = free]
       /\ \/ /\ Len(free) = 1
             /\ unusableChunkList' = RemoveFirst(unusableChunkList, chunk)
             /\ usableChunkList' = Append(usable, chunk)
          \/ /\ Len(free) # 1 /\ (Full(free) => InFront)
             /\ UNCHANGED <<usableChunkList, unusableChunkList>>
          \/ /\ Len(free) # 1 /\ Full(free) /\ ~InFront
             /\ usableChunkList' = Cons(chunk, RemoveFirst(usable, chunk))
             /\ UNCHANGED unusableChunkList

(* Chunks are freed from the front of the list up to the first in use.     *)
ShrinkToFit ==
    LET kept == SelectInSeq(usableChunkList,
                            LAMBDA chunk : numberOfFreeSlots(chunk) < SlotsPerChunk)
        freed == IF kept = 0 THEN Len(usableChunkList) ELSE kept - 1
        gone == {usableChunkList[i] : i \in 1 .. freed}
    IN /\ usableChunkList' = SubSeq(usableChunkList, freed + 1, Len(usableChunkList))
       /\ freeSlots' = [chunk \in Chunks |->
                            IF chunk \in gone THEN <<>> ELSE freeSlots[chunk]]
       /\ UNCHANGED <<unusableChunkList, blocks>>

MemoryPoolNext == AllocateBlock \/ ShrinkToFit \/ \E block \in blocks : FreeBlock(block)

MemoryPoolSpec == MemoryPoolInit /\ [][MemoryPoolNext]_memoryPoolVars

-----------------------------------------------------------------------------
(* Type correctness of the pool.                                           *)
MemoryPoolTypeOK ==
    /\ usableChunkList \in Seq(Chunks) /\ unusableChunkList \in Seq(Chunks)
    /\ freeSlots \in [Chunks -> Seq(Slots)]
    /\ blocks \subseteq Chunks \X Slots

(* A block is never handed out twice, none is lost and none overlaps the   *)
(* header: in every chunk the linked free slots, each linked once, are     *)
(* exactly the slots of the payload nobody has, and no block is in a chunk *)
(* that was given back to the system.                                      *)
SlotsAccountedFor ==
    \A chunk \in Chunks :
        LET used == {slot \in Slots : <<chunk, slot>> \in blocks} IN
        /\ IsInjective(freeSlots[chunk])
        /\ ToSet(freeSlots[chunk]) = IF chunk \in Held THEN Slots \ used ELSE {}
        /\ chunk \notin Held => used = {}

(* A chunk is on one list, once, and it is the right one: the usable list  *)
(* is where the next block is taken without another look.                  *)
ChunkOnRightList ==
    /\ IsInjective(usableChunkList \o unusableChunkList)
    /\ \A chunk \in ToSet(usableChunkList) : numberOfFreeSlots(chunk) > 0
    /\ \A chunk \in ToSet(unusableChunkList) : numberOfFreeSlots(chunk) = 0

(* The free chunks are never behind a used one, so giving memory back by   *)
(* looking at the front of the list gives all of them back.                *)
ShrinkLeavesNoFreeChunk ==
    [][ ShrinkToFit => \A chunk \in ToSet(usableChunkList') :
            Len(freeSlots'[chunk]) < SlotsPerChunk ]_memoryPoolVars
=============================================================================
