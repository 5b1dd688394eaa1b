-------------------------------- MODULE Heap --------------------------------
(***************************************************************************)
(* The binary heap of src/Source/Heap.c.  A node knows the slot it is in,  *)
(* so it can be taken out from the middle.  The slots that hold nodes are  *)
(* a sequence here, slot number n being its element n + 1; they are stored *)
(* in segments of equal length that a vector points to, of which only the  *)
(* numbers are modelled.  A node is compared by its key, which belongs to  *)
(* the structure the node is embedded in.                                  *)
(*                                                                         *)
(* slots and slotNumber are what the code writes; key only holds the nodes *)
(* that were inserted and not removed, so it is at the same time the       *)
(* abstract content of the heap.                                           *)
(***************************************************************************)
EXTENDS SequencesExt, Vector, Loops

CONSTANTS Nodes, Keys,
          SegmentLength      \* HEAP_SEGMENT_LENGTH

ASSUME HeapAssumption == SegmentLength \in Nat \ {0} /\ Keys \subseteq Int

(* Nodes are parts of structures, the timeouts, of more than twice the     *)
(* size of a pointer to a segment, and all lie in the memory that words    *)
(* address.                                                                *)
ASSUME SizeAssumption ==
    /\ IsFiniteSet(Nodes)
    /\ (Cardinality(Nodes) + 1) * ElementSize <= ShiftedLeft(1, WordBits - 1)

VARIABLES slots,             \* the nodes, slot 0 first
          slotNumber,        \* the field of every node
          key,               \* the key of every node in the heap
          numberOfSegments, numberOfSlots,
          segmentVector      \* of pointers to the segments

segmentVars == <<numberOfSegments, numberOfSlots, segmentVector>>
heapVars == <<slots, slotNumber, key, segmentVars>>

numberOfNodes == Len(slots)

Slot(array, x) == array[x + 1]

(* Mutant: the node does not learn its slot.                               *)
PutUnnumbered(heap, x, node) ==
    [heap EXCEPT !.array[x + 1] = node]

(* Store a node in a slot and the slot number in the node.                 *)
Put(heap, x, node) ==
    [array  |-> [heap.array EXCEPT ![x + 1] = node],
     number |-> [heap.number EXCEPT ![node] = x]]

-----------------------------------------------------------------------------
(* The two loops move nodes by one level until "node" fits into slot x.    *)
(* "keys" is what the comparer sees during the call.                       *)
Sifts == [heap : [array : Seq(Nodes), number : [Nodes -> Nat]], x : Nat]

Parent(x) == (x - 1) \div 2

(* The slot under x of the node with the smaller key; if there is none, no *)
(* slot of the array.                                                      *)
SmallerChild(array, x, keys) ==
    LET left == 2 * x + 1
        right == left + 1
    IN  IF right < Len(array) /\ keys[Slot(array, right)] < keys[Slot(array, left)]
        THEN right ELSE left

MoveTo(y, sift) == [heap |-> Put(sift.heap, sift.x, Slot(sift.heap.array, y)), x |-> y]

SiftUpOnce(sift, node, keys) ==
    LET y == Parent(sift.x) IN
    IF sift.x >= 1 /\ keys[node] < keys[Slot(sift.heap.array, y)]
    THEN MoveTo(y, sift) ELSE sift

SiftDownOnce(sift, node, keys) ==
    LET y == SmallerChild(sift.heap.array, sift.x, keys) IN
    IF y < Len(sift.heap.array) /\ keys[node] > keys[Slot(sift.heap.array, y)]
    THEN MoveTo(y, sift) ELSE sift

SiftNodeUp(heap, x, node, keys) ==
    LET once == [sift \in Sifts |-> SiftUpOnce(sift, node, keys)]
        end == Repeated(once, [heap |-> heap, x |-> x], x)
    IN  Put(end.heap, end.x, node)

SiftNodeDown(heap, x, node, keys) ==
    LET once == [sift \in Sifts |-> SiftDownOnce(sift, node, keys)]
        end == Repeated(once, [heap |-> heap, x |-> x], Len(heap.array))
    IN  Put(end.heap, end.x, node)

Inserted(heap, node, keys) ==
    LET x == Len(heap.array)
    IN  SiftNodeUp(Put([heap EXCEPT !.array = Append(@, node)], x, node),
                   x, node, keys)

Adjusted(heap, node, keys) ==
    LET x == heap.number[node]
        up == SiftNodeUp(heap, x, node, keys)
    IN  IF Slot(up.array, x) # node THEN up
        ELSE SiftNodeDown(up, x, node, keys)

(* Mutants: the moved node is only sifted down; it stays where it is put.  *)
RemovedDownwards(heap, node, keys) ==
    LET x == heap.number[node]
        last == Last(heap.array)
        shorter == [Put(heap, x, last) EXCEPT !.array = Front(@)]
    IN  IF last = node THEN shorter ELSE SiftNodeDown(shorter, x, last, keys)

RemovedUnsifted(heap, node, keys) ==
    [Put(heap, heap.number[node], Last(heap.array)) EXCEPT !.array = Front(@)]

(* The last node takes the removed one's slot and is sifted from there.    *)
Removed(heap, node, keys) ==
    LET x == heap.number[node]
        last == Last(heap.array)
        moved == Put(heap, x, last)
        shorter == [moved EXCEPT !.array = Front(@)]
    IN  IF keys[last] = keys[node] THEN shorter
        ELSE IF keys[last] < keys[node]
             THEN SiftNodeUp(shorter, x, last, keys)
             ELSE SiftNodeDown(shorter, x, last, keys)

-----------------------------------------------------------------------------
currentHeap == [array |-> slots, number |-> slotNumber]

Becomes(new) == slots' = new.array /\ slotNumber' = new.number

HeapInit ==
    /\ slots = <<>>
    /\ slotNumber = [node \in Nodes |-> 0]
    /\ key = <<>>
    /\ numberOfSegments = 0 /\ numberOfSlots = 0 /\ segmentVector = EmptyVector

(* The vector with room for one more pointer.                              *)
RoomyVector ==
    IF numberOfSegments = segmentVector.length
    THEN SetLength(segmentVector, numberOfSegments + 1) ELSE segmentVector

IncreaseSegments ==
    /\ segmentVector' = RoomyVector
    /\ numberOfSegments' = numberOfSegments + 1
    /\ numberOfSlots' = numberOfSlots + SegmentLength

WithKey(node, k) == [other \in DOMAIN key \cup {node} |->
                        IF other = node THEN k ELSE key[other]]

(* Mutant: the last slot of a segment is not used.                         *)
InsertNodeTooFew(node, k) ==
    /\ node \notin DOMAIN key
    /\ IF numberOfNodes > numberOfSlots THEN IncreaseSegments
                                        ELSE UNCHANGED segmentVars
    /\ key' = WithKey(node, k)
    /\ Becomes(Inserted(currentHeap, node, key'))

InsertNode(node, k) ==
    /\ node \notin DOMAIN key
    /\ IF numberOfNodes = numberOfSlots THEN IncreaseSegments
                                        ELSE UNCHANGED segmentVars
    /\ key' = WithKey(node, k)
    /\ Becomes(Inserted(currentHeap, node, key'))

(* The new segment cannot be allocated, or not even the vector grow.       *)
InsertFails ==
    /\ numberOfNodes = numberOfSlots
    /\ segmentVector' = RoomyVector
    /\ UNCHANGED <<slots, slotNumber, key, numberOfSegments, numberOfSlots>>

(* The segments without nodes are freed; the vector may fail to shrink.    *)
ShrinkToFit ==
    LET n == (numberOfNodes + SegmentLength - 1) \div SegmentLength IN
    /\ numberOfSegments' = IF numberOfSegments > n THEN n ELSE numberOfSegments
    /\ numberOfSlots' = IF numberOfSegments > n THEN n * SegmentLength
                                                ELSE numberOfSlots
    /\ \/ segmentVector' = SetLength(segmentVector, n)
       \/ n > 0 /\ UNCHANGED segmentVector
    /\ UNCHANGED <<slots, slotNumber, key>>

(* The caller has changed the key of a node that is in the heap.           *)
AdjustNode(node, k) ==
    /\ node \in DOMAIN key
    /\ key' = [key EXCEPT ![node] = k]
    /\ Becomes(Adjusted(currentHeap, node, key'))
    /\ UNCHANGED segmentVars

RemoveNode(node) ==
    /\ node \in DOMAIN key
    /\ key' = [other \in DOMAIN key \ {node} |-> key[other]]
    /\ Becomes(Removed(currentHeap, node, key))
    /\ UNCHANGED segmentVars

HeapNext ==
    \/ \E node \in Nodes :
          \/ RemoveNode(node)
          \/ \E k \in Keys : InsertNode(node, k) \/ AdjustNode(node, k)
    \/ InsertFails \/ ShrinkToFit

HeapSpec == HeapInit /\ [][HeapNext]_heapVars

-----------------------------------------------------------------------------
(* Type correctness of the heap.                                           *)
HeapTypeOK ==
    /\ slots \in Seq(Nodes)
    /\ slotNumber \in [Nodes -> Nat]
    /\ DOMAIN key \subseteq Nodes /\ \A node \in DOMAIN key : key[node] \in Keys
    /\ {numberOfSegments, numberOfSlots} \subseteq Nat
    /\ segmentVector \in [size : Nat, length : Nat]

(* No node is above one with a smaller key, after any sequence of          *)
(* insertions, adjustments and removals from the middle: the top, which is *)
(* all the timer looks at, has the least key.                              *)
HeapOrdered ==
    \A x \in 1 .. numberOfNodes - 1 :
        key[Slot(slots, (x - 1) \div 2)] <= key[Slot(slots, x)]

(* The array holds the inserted nodes, each once, and every node knows its *)
(* slot; removal from the middle relies on it.                             *)
SlotNumbersRight ==
    /\ IsInjective(slots)
    /\ ToSet(slots) = DOMAIN key
    /\ \A x \in 0 .. numberOfNodes - 1 : slotNumber[Slot(slots, x)] = x

(* The slot of every node lies in a segment, and the pointer to every      *)
(* segment in the vector, after the heap has grown, shrunk, and failed to  *)
(* do either.                                                              *)
SlotsExist ==
    /\ numberOfNodes <= numberOfSlots
    /\ numberOfSlots <= numberOfSegments * SegmentLength
    /\ numberOfSegments <= segmentVector.length
    /\ segmentVector.length * ElementSize <= segmentVector.size
=============================================================================
