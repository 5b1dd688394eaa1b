------------------------------- MODULE MCHeap -------------------------------
(* Six nodes are the fewest with which the last node can be smaller than    *)
(* the parent of the slot it moves into, so that a removal sifts up.  Nodes *)
(* are interchangeable.  They need up to three segments of two slots, so    *)
(* the vector is longer than it must be.  Seven bits are enough for sizes   *)
(* that matter, and for all words the rounding is compared with what it is  *)
(* meant to compute.                                                        *)
EXTENDS Heap

CONSTANTS n1, n2, n3, n4, n5, n6

MCNodes == {n1, n2, n3, n4, n5, n6}
MCKeys == 0 .. 2

ASSUME RoundingAssumption ==
    /\ \A k \in 0 .. WordBits : ShiftedLeft(1, k) = 2^k
    /\ \A number \in 0 .. 2^WordBits - 1 :
          /\ Number(Bits(number)) = number
          /\ NextPowerOfTwo(number) = LeastPowerOfTwo(number)

NodeSymmetry == Permutations(MCNodes)
=============================================================================
