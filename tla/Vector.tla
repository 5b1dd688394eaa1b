------------------------------- MODULE Vector -------------------------------
(***************************************************************************)
(* The growing array of src/Source/Vector.c, as far as its size goes: a    *)
(* vector is its number of bytes, a power of two, and the number of        *)
(* elements of ElementSize bytes that fit in.  Sizes are words.            *)
(***************************************************************************)
EXTENDS Integers, Loops

CONSTANTS WordBits, ElementSize

ASSUME VectorAssumption == {WordBits, ElementSize} \subseteq Nat \ {0}

(* number << k, without the loss of bits, and number >> k.                 *)
ShiftedLeft(number, k) == Repeated([n \in Nat |-> 2 * n], number, k)

ShiftedRight(number, k) == Repeated([n \in Nat |-> n \div 2], number, k)

Word(number) == number % ShiftedLeft(1, WordBits)

Positions == 0 .. WordBits - 1

Bits(number) == {i \in Positions : ShiftedRight(number, i) % 2 = 1}

(* The number with these bits set, the highest one read first.             *)
Number(bits) ==
    LET read == [at \in [value : Nat, from : 1 .. WordBits] |->
                    [value |-> 2 * at.value + (IF at.from - 1 \in bits THEN 1 ELSE 0),
                     from  |-> at.from - 1]]
    IN  Repeated(read, [value |-> 0, from |-> WordBits], WordBits).value

(* number |= number >> k, for k = 1, 2, 4 and so on: in the end every bit  *)
(* below the highest one set is set too.                                   *)
Smear(bits) ==
    LET shift == [loop \in [bits : SUBSET Positions, k : Nat] |->
                     IF loop.k >= WordBits THEN loop
                     ELSE [bits |-> loop.bits
                                      \cup {i \in Positions : i + loop.k \in loop.bits},
                           k    |-> 2 * loop.k]]
    IN  Repeated(shift, [bits |-> bits, k |-> 1], WordBits).bits

NextPowerOfTwo(number) == Word(Number(Smear(Bits(Word(number - 1)))) + 1)

EmptyVector == [size |-> 0, length |-> 0]

(* What the call leaves when it succeeds; when realloc fails the vector is *)
(* as before.                                                              *)
SetLength(vector, length) ==
    LET size == NextPowerOfTwo(Word(length * ElementSize))
    IN  IF size = vector.size THEN vector
        ELSE [size |-> size, length |-> size \div ElementSize]

-----------------------------------------------------------------------------
(* The smallest power of two that is not below the number; for zero, and   *)
(* when it does not fit in a word, zero.                                   *)
LeastPowerOfTwo(number) ==
    LET powers == {p \in {ShiftedLeft(1, k) : k \in Positions} : p >= number}
    IN  IF number = 0 \/ powers = {} THEN 0
        ELSE CHOOSE p \in powers : \A q \in powers : p <= q
=============================================================================
