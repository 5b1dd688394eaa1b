----------------------------- MODULE TimerProofs -----------------------------
(***************************************************************************)
(* The safety of the heap, of the vector that points to its segments, and  *)
(* of the timer in the event loop, for any number of nodes, any keys, any  *)
(* times and words of any width.                                           *)
(***************************************************************************)
EXTENDS Timer, ListTheorems

Heaps == [array : Seq(Nodes), number : [Nodes -> Nat]]

(* The array holds the nodes of a set, each once, and they know where.     *)
Holds(heap, nodes) ==
    /\ heap \in Heaps
    /\ IsInjective(heap.array)
    /\ ToSet(heap.array) = nodes
    /\ \A x \in 0 .. Len(heap.array) - 1 : heap.number[Slot(heap.array, x)] = x

KeyAt(array, x, keys) == keys[Slot(array, x)]

Ordered(array, keys) ==
    \A x \in 1 .. Len(array) - 1 :
        KeyAt(array, Parent(x), keys) <= KeyAt(array, x, keys)

(* The keys of a set of nodes can be compared.                             *)
Comparable(nodes, keys) == \A node \in nodes : keys[node] \in Int

(* Every slot but the top has a parent above it, and is one of its two     *)
(* children.                                                               *)
LEMMA Parents ==
    ASSUME NEW x \in Nat
    PROVE  /\ x # 0 => Parent(x) \in 0 .. x - 1
           /\ \A y \in Nat \ {0} : Parent(y) = x <=> y = 2 * x + 1 \/ y = 2 * x + 2
  BY DEF Parent

(* The slots as numbers, and as what is in them.                           *)
LEMMA SlotsOf ==
    ASSUME NEW array \in Seq(Nodes)
    PROVE  /\ Len(array) \in Nat
           /\ DOMAIN array = 1 .. Len(array)
           /\ ToSet(array) \subseteq Nodes
           /\ ToSet(array) = {Slot(array, x) : x \in 0 .. Len(array) - 1}
           /\ IsInjective(array) <=>
                \A x, y \in 0 .. Len(array) - 1 : Slot(array, x) = Slot(array, y) => x = y
<1> DEFINE n == Len(array)
<1>1. n \in Nat /\ DOMAIN array = 1 .. n /\ \A i \in 1 .. n : array[i] \in Nodes
  BY LenProperties, ElementOfSeq
<1> HIDE DEF n
<1>2. /\ \A x \in 0 .. n - 1 : x + 1 \in 1 .. n
      /\ \A i \in 1 .. n : i - 1 \in 0 .. n - 1 /\ (i - 1) + 1 = i
  BY <1>1
<1>3. ToSet(array) = {array[i] : i \in 1 .. n}
  BY <1>1 DEF ToSet
<1>4. ToSet(array) \subseteq Nodes
  BY <1>1, <1>3
<1>5. ToSet(array) = {Slot(array, x) : x \in 0 .. n - 1}
  <2>1. ASSUME NEW i \in 1 .. n
        PROVE  array[i] \in {Slot(array, x) : x \in 0 .. n - 1}
    <3>1. i - 1 \in 0 .. n - 1 /\ Slot(array, i - 1) = array[i]
      BY <1>2 DEF Slot
    <3> QED
      BY <3>1
  <2>2. ASSUME NEW x \in 0 .. n - 1 PROVE Slot(array, x) \in {array[i] : i \in 1 .. n}
    <3>1. x + 1 \in 1 .. n
      BY <1>2
    <3> QED
      BY <3>1 DEF Slot
  <2> QED
    BY <1>3, <2>1, <2>2
<1>6. ASSUME IsInjective(array),
             NEW x \in 0 .. n - 1, NEW y \in 0 .. n - 1, Slot(array, x) = Slot(array, y)
      PROVE  x = y
  <2>1. x + 1 \in 1 .. n /\ y + 1 \in 1 .. n /\ array[x + 1] = array[y + 1]
    BY <1>2, <1>6 DEF Slot
  <2>2. x + 1 = y + 1
    BY <1>1, <1>6, <2>1 DEF IsInjective
  <2> QED
    BY <2>2
<1>7. ASSUME \A x, y \in 0 .. n - 1 : Slot(array, x) = Slot(array, y) => x = y
      PROVE  IsInjective(array)
  <2> SUFFICES ASSUME NEW i \in 1 .. n, NEW j \in 1 .. n, array[i] = array[j]
               PROVE  i = j
    BY <1>1 DEF IsInjective
  <2>1. /\ i - 1 \in 0 .. n - 1 /\ j - 1 \in 0 .. n - 1
        /\ Slot(array, i - 1) = array[i] /\ Slot(array, j - 1) = array[j]
    BY <1>2 DEF Slot
  <2>2. i - 1 = j - 1
    BY <1>7, <2>1
  <2> QED
    BY <2>2
<1> QED
  BY <1>1, <1>4, <1>5, <1>6, <1>7 DEF n

(* What Put leaves.                                                        *)
LEMMA PutSlots ==
    ASSUME NEW heap \in Heaps, NEW x \in 0 .. Len(heap.array) - 1, NEW node \in Nodes
    PROVE  LET put == Put(heap, x, node)
           IN  /\ put \in Heaps
               /\ Len(put.array) = Len(heap.array)
               /\ \A y \in 0 .. Len(heap.array) - 1 :
                     Slot(put.array, y) = IF y = x THEN node ELSE Slot(heap.array, y)
               /\ \A other \in Nodes :
                     put.number[other] = IF other = node THEN x ELSE heap.number[other]
<1> DEFINE n == Len(heap.array)
           array == [heap.array EXCEPT ![x + 1] = node]
           number == [heap.number EXCEPT ![node] = x]
<1>1. heap.array \in Seq(Nodes) /\ heap.number \in [Nodes -> Nat]
  BY DEF Heaps
<1>2. n \in Nat /\ x + 1 \in 1 .. n
  BY <1>1, LenProperties
<1>3. array \in Seq(Nodes) /\ Len(array) = n
  BY <1>1, <1>2, ExceptSeq
<1>4. \A i \in 1 .. n : array[i] = IF i = x + 1 THEN node ELSE heap.array[i]
  BY <1>1, <1>2, LenProperties
<1>5. number \in [Nodes -> Nat]
  BY <1>1, <1>2
<1>6. \A other \in Nodes : number[other] = IF other = node THEN x ELSE heap.number[other]
  BY <1>1
<1> HIDE DEF n, number, array
<1>7. ASSUME NEW y \in 0 .. n - 1
      PROVE  Slot(array, y) = IF y = x THEN node ELSE Slot(heap.array, y)
  <2>1. y + 1 \in 1 .. n /\ (y + 1 = x + 1 <=> y = x)
    BY <1>2
  <2> QED
    BY <1>4, <2>1 DEF Slot
<1>8. Put(heap, x, node) = [array |-> array, number |-> number]
  BY DEF Put, array, number
<1> QED
  BY <1>3, <1>5, <1>6, <1>7, <1>8 DEF Heaps, n

-----------------------------------------------------------------------------
(* While a node is being sifted, the heap with the node put where it would *)
(* go holds all nodes; a move swaps it with the one in the other slot.     *)
Filled(sift, node) == Put(sift.heap, sift.x, node)

Sifting(sift, node, nodes, n) ==
    /\ sift \in Sifts
    /\ Len(sift.heap.array) = n
    /\ sift.x \in 0 .. n - 1
    /\ Holds(Filled(sift, node), nodes)

LEMMA FilledSlots ==
    ASSUME NEW node \in Nodes, NEW nodes, NEW n, NEW sift, Sifting(sift, node, nodes, n)
    PROVE  /\ n \in Nat /\ sift.heap \in Heaps
           /\ Len(Filled(sift, node).array) = n
           /\ \A y \in 0 .. n - 1 :
                 Slot(Filled(sift, node).array, y) =
                    IF y = sift.x THEN node ELSE Slot(sift.heap.array, y)
           /\ \A other \in Nodes :
                 Filled(sift, node).number[other] =
                    IF other = node THEN sift.x ELSE sift.heap.number[other]
<1>1. sift.heap \in Heaps /\ Len(sift.heap.array) = n /\ sift.x \in 0 .. n - 1
  BY DEF Sifting, Sifts, Heaps
<1>2. n \in Nat
  BY <1>1, LenProperties DEF Heaps
<1>3. sift.x \in 0 .. Len(sift.heap.array) - 1
  BY <1>1
<1>4. Filled(sift, node) = Put(sift.heap, sift.x, node)
  BY DEF Filled
<1>5. Len(Filled(sift, node).array) = n
  BY <1>1, <1>3, <1>4, PutSlots
<1>6. \A y \in 0 .. n - 1 :
         Slot(Filled(sift, node).array, y) =
            IF y = sift.x THEN node ELSE Slot(sift.heap.array, y)
  BY <1>1, <1>3, <1>4, PutSlots
<1>7. \A other \in Nodes :
         Filled(sift, node).number[other] =
            IF other = node THEN sift.x ELSE sift.heap.number[other]
  BY <1>1, <1>3, <1>4, PutSlots
<1> QED
  BY <1>1, <1>2, <1>5, <1>6, <1>7

LEMMA MoveSwaps ==
    ASSUME NEW node \in Nodes, NEW nodes, NEW n, NEW sift, Sifting(sift, node, nodes, n),
           NEW y \in 0 .. n - 1, y # sift.x
    PROVE  LET old == Filled(sift, node).array
               new == Filled(MoveTo(y, sift), node).array
           IN  /\ Sifting(MoveTo(y, sift), node, nodes, n)
               /\ MoveTo(y, sift).x = y
               /\ Len(new) = n
               /\ Slot(new, y) = node /\ Slot(new, sift.x) = Slot(old, y)
               /\ \A z \in 0 .. n - 1 :
                     z # y /\ z # sift.x => Slot(new, z) = Slot(old, z)
<1> DEFINE x == sift.x
           moved == Slot(sift.heap.array, y)
           next == MoveTo(y, sift)
           old == Filled(sift, node)
           new == Filled(next, node)
<1>1. /\ n \in Nat /\ sift.heap \in Heaps /\ x \in 0 .. n - 1
      /\ Len(sift.heap.array) = n
      /\ old \in Heaps /\ Len(old.array) = n
      /\ Slot(old.array, x) = node
      /\ \A z \in 0 .. n - 1 : z # x => Slot(old.array, z) = Slot(sift.heap.array, z)
      /\ \A other \in Nodes : other # node => old.number[other] = sift.heap.number[other]
  BY FilledSlots DEF Sifting, Holds
<1>2. moved \in Nodes /\ moved = Slot(old.array, y) /\ moved # node
  <2>1. /\ moved = Slot(old.array, y) /\ old.array \in Seq(Nodes)
        /\ IsInjective(old.array)
    BY <1>1 DEF Sifting, Holds, Heaps
  <2>2. Slot(old.array, y) \in ToSet(old.array) /\ ToSet(old.array) \subseteq Nodes
    BY <1>1, <2>1, SlotsOf
  <2>3. Slot(old.array, x) # Slot(old.array, y)
    BY <1>1, <2>1, SlotsOf
  <2> QED
    BY <1>1, <2>1, <2>2, <2>3
<1>3. next.heap = Put(sift.heap, x, moved) /\ next.x = y
  BY DEF MoveTo
<1> HIDE DEF moved, next
<1>4. /\ next.heap \in Heaps /\ Len(next.heap.array) = n
      /\ \A z \in 0 .. n - 1 :
            Slot(next.heap.array, z) = IF z = x THEN moved ELSE Slot(sift.heap.array, z)
      /\ \A other \in Nodes :
            next.heap.number[other] = IF other = moved THEN x ELSE sift.heap.number[other]
  <2> HIDE DEF x
  <2> DEFINE heap == sift.heap
             put == Put(heap, x, moved)
  <2>1. /\ heap \in Heaps /\ x \in 0 .. Len(heap.array) - 1 /\ moved \in Nodes
        /\ Len(heap.array) = n
    BY <1>1, <1>2
  <2> HIDE DEF heap
  <2>2. /\ put \in Heaps /\ Len(put.array) = Len(heap.array)
        /\ \A z \in 0 .. Len(heap.array) - 1 :
              Slot(put.array, z) = IF z = x THEN moved ELSE Slot(heap.array, z)
        /\ \A other \in Nodes :
              put.number[other] = IF other = moved THEN x ELSE heap.number[other]
    BY <2>1, PutSlots
  <2> HIDE DEF put
  <2>3. next.heap = put
    BY <1>3 DEF put, heap
  <2> QED
    BY <2>1, <2>2, <2>3 DEF heap
<1>5. new = Put(next.heap, y, node)
  BY <1>3 DEF Filled
<1> HIDE DEF new
<1>6. /\ new \in Heaps /\ Len(new.array) = n
      /\ \A z \in 0 .. n - 1 :
            Slot(new.array, z) = IF z = y THEN node ELSE Slot(next.heap.array, z)
      /\ \A other \in Nodes :
            new.number[other] = IF other = node THEN y ELSE next.heap.number[other]
  <2> DEFINE heap == next.heap
             put == Put(heap, y, node)
  <2>1. heap \in Heaps /\ y \in 0 .. Len(heap.array) - 1 /\ Len(heap.array) = n
    BY <1>4
  <2> HIDE DEF heap
  <2>2. /\ put \in Heaps /\ Len(put.array) = Len(heap.array)
        /\ \A z \in 0 .. Len(heap.array) - 1 :
              Slot(put.array, z) = IF z = y THEN node ELSE Slot(heap.array, z)
        /\ \A other \in Nodes :
              put.number[other] = IF other = node THEN y ELSE heap.number[other]
    BY <2>1, PutSlots
  <2> HIDE DEF put
  <2>3. new = put
    BY <1>5 DEF put, heap
  <2> QED
    BY <2>1, <2>2, <2>3 DEF heap
<1> HIDE DEF old, x
<1>7. /\ Slot(new.array, y) = node /\ Slot(new.array, x) = moved
      /\ \A z \in 0 .. n - 1 :
            z # y /\ z # x => Slot(new.array, z) = Slot(old.array, z)
  BY <1>1, <1>2, <1>4, <1>6 DEF x
<1>8. /\ \A z, w \in 0 .. n - 1 : Slot(old.array, z) = Slot(old.array, w) => z = w
      /\ ToSet(old.array) = {Slot(old.array, z) : z \in 0 .. n - 1}
      /\ ToSet(new.array) = {Slot(new.array, z) : z \in 0 .. n - 1}
      /\ ToSet(old.array) = nodes /\ nodes \subseteq Nodes
      /\ \A z \in 0 .. n - 1 : old.number[Slot(old.array, z)] = z
  <2>1. old.array \in Seq(Nodes) /\ new.array \in Seq(Nodes)
    BY <1>1, <1>6 DEF Heaps
  <2>2. Holds(old, nodes)
    BY DEF Sifting, old
  <2> QED
    BY <1>1, <1>6, <2>1, <2>2, SlotsOf DEF Holds
<1>9. \A z, w \in 0 .. n - 1 : Slot(new.array, z) = Slot(new.array, w) => z = w
  BY <1>1, <1>2, <1>7, <1>8
<1>10. ToSet(new.array) = nodes
  <2>1. \A z \in 0 .. n - 1 : Slot(new.array, z) \in nodes
    BY <1>1, <1>2, <1>7, <1>8
  <2>2. ASSUME NEW z \in 0 .. n - 1
        PROVE  \E w \in 0 .. n - 1 : Slot(old.array, z) = Slot(new.array, w)
    BY <1>1, <1>2, <1>7
  <2> QED
    BY <1>8, <2>1, <2>2
<1>11. ASSUME NEW z \in 0 .. n - 1 PROVE new.number[Slot(new.array, z)] = z
  <2>1. CASE z = y
    BY <1>6, <1>7, <2>1
  <2>2. CASE z = x
    BY <1>2, <1>4, <1>6, <1>7, <2>2
  <2>3. CASE z # x /\ z # y
    <3>1. /\ Slot(old.array, z) # node /\ Slot(old.array, z) # moved
          /\ Slot(old.array, z) \in Nodes
      BY <1>1, <1>2, <1>8, <2>3
    <3> QED
      BY <1>1, <1>4, <1>6, <1>7, <1>8, <2>3, <3>1
  <2> QED
    BY <2>1, <2>2, <2>3
<1>12. Holds(new, nodes)
  <2>1. IsInjective(new.array)
    BY <1>6, <1>9, SlotsOf DEF Heaps
  <2> QED
    BY <1>6, <1>10, <1>11, <2>1 DEF Holds
<1>13. next \in Sifts
  BY <1>3, <1>4 DEF MoveTo, next, Sifts, Heaps
<1>14. Sifting(next, node, nodes, n)
  BY <1>3, <1>4, <1>12, <1>13 DEF Sifting, new
<1> QED
  BY <1>2, <1>3, <1>6, <1>7, <1>14 DEF next, new, old, x

LEMMA FilledKeys ==
    ASSUME NEW node \in Nodes, NEW nodes, NEW n, NEW sift, Sifting(sift, node, nodes, n),
           NEW keys, Comparable(nodes, keys)
    PROVE  /\ node \in nodes /\ keys[node] \in Int
           /\ KeyAt(Filled(sift, node).array, sift.x, keys) = keys[node]
           /\ \A z \in 0 .. n - 1 :
                 /\ Slot(Filled(sift, node).array, z) \in nodes
                 /\ KeyAt(Filled(sift, node).array, z, keys) \in Int
<1> DEFINE array == Filled(sift, node).array
<1>1. /\ array \in Seq(Nodes) /\ Len(array) = n /\ ToSet(array) = nodes
      /\ sift.x \in 0 .. n - 1 /\ Slot(array, sift.x) = node
  BY FilledSlots DEF Sifting, Holds, Heaps
<1>2. nodes = {Slot(array, z) : z \in 0 .. n - 1}
  BY <1>1, SlotsOf
<1> HIDE DEF array
<1>3. \A z \in 0 .. n - 1 : Slot(array, z) \in nodes
  BY <1>2
<1> QED
  BY <1>1, <1>3 DEF Comparable, KeyAt, array

(* Sifting up: only slot x may be smaller than its parent, and its         *)
(* children are not smaller than its parent either.                        *)
OrderedButUp(array, x, keys) ==
    /\ \A y \in 1 .. Len(array) - 1 :
          y # x => KeyAt(array, Parent(y), keys) <= KeyAt(array, y, keys)
    /\ \A y \in 1 .. Len(array) - 1 :
          x # 0 /\ Parent(y) = x => KeyAt(array, Parent(x), keys) <= KeyAt(array, y, keys)

GoesUp(sift, node, keys) ==
    sift.x >= 1 /\ keys[node] < keys[Slot(sift.heap.array, Parent(sift.x))]

LEMMA SiftUpOnceKeeps ==
    ASSUME NEW node \in Nodes, NEW nodes, NEW n, NEW sift, Sifting(sift, node, nodes, n),
           NEW keys, Comparable(nodes, keys),
           OrderedButUp(Filled(sift, node).array, sift.x, keys)
    PROVE  LET next == SiftUpOnce(sift, node, keys)
           IN  /\ ~GoesUp(sift, node, keys) =>
                     next = sift /\ Ordered(Filled(sift, node).array, keys)
               /\ GoesUp(sift, node, keys) =>
                     /\ Sifting(next, node, nodes, n)
                     /\ next.x < sift.x
                     /\ OrderedButUp(Filled(next, node).array, next.x, keys)
<1> DEFINE x == sift.x
           y == Parent(x)
           next == MoveTo(y, sift)
           a == Filled(sift, node).array
           b == Filled(next, node).array
           A(z) == KeyAt(a, z, keys)
           B(z) == KeyAt(b, z, keys)
<1>1. /\ n \in Nat /\ x \in 0 .. n - 1 /\ Len(a) = n
      /\ \A z \in 0 .. n - 1 : z # x => Slot(a, z) = Slot(sift.heap.array, z)
  BY FilledSlots DEF Sifting
<1>2. /\ A(x) = keys[node] /\ keys[node] \in Int /\ \A z \in 0 .. n - 1 : A(z) \in Int
  BY FilledKeys
<1>3. x # 0 => y \in 0 .. n - 1 /\ y < x /\ A(y) = keys[Slot(sift.heap.array, y)]
  <2>1. x # 0 => y \in 0 .. n - 1 /\ y < x
    BY <1>1, Parents
  <2> QED
    BY <1>1, <2>1 DEF KeyAt
<1>4. \A z \in 1 .. n - 1 : Parent(z) \in 0 .. n - 1 /\ Parent(z) < z
  <2> SUFFICES ASSUME NEW z \in 1 .. n - 1
               PROVE  Parent(z) \in 0 .. n - 1 /\ Parent(z) < z
    OBVIOUS
  <2>1. z \in Nat /\ z # 0
    BY <1>1
  <2> QED
    BY <1>1, <2>1, Parents
<1>5. /\ \A z \in 1 .. n - 1 : z # x => A(Parent(z)) <= A(z)
      /\ \A z \in 1 .. n - 1 : x # 0 /\ Parent(z) = x => A(y) <= A(z)
  BY <1>1 DEF OrderedButUp
<1>6. ASSUME ~GoesUp(sift, node, keys)
      PROVE  SiftUpOnce(sift, node, keys) = sift /\ Ordered(a, keys)
  <2>1. SiftUpOnce(sift, node, keys) = sift
    BY <1>6 DEF SiftUpOnce, GoesUp
  <2> HIDE DEF A
  <2>2. x # 0 => A(y) <= A(x)
    BY <1>1, <1>2, <1>3, <1>6 DEF GoesUp
  <2>3. \A z \in 1 .. n - 1 : A(Parent(z)) <= A(z)
    BY <1>1, <1>5, <2>2
  <2> QED
    BY <1>1, <2>1, <2>3 DEF Ordered, A
<1>7. ASSUME GoesUp(sift, node, keys)
      PROVE  /\ SiftUpOnce(sift, node, keys) = next
             /\ Sifting(next, node, nodes, n)
             /\ next.x < x
             /\ OrderedButUp(b, next.x, keys)
  <2>1. SiftUpOnce(sift, node, keys) = next
    BY <1>7 DEF SiftUpOnce, GoesUp
  <2>2. x # 0 /\ y \in 0 .. n - 1 /\ y < x /\ A(x) < A(y)
    BY <1>1, <1>2, <1>3, <1>7 DEF GoesUp
  <2>3. /\ Sifting(next, node, nodes, n) /\ next.x = y /\ Len(b) = n
        /\ Slot(b, y) = node /\ Slot(b, x) = Slot(a, y)
        /\ \A z \in 0 .. n - 1 : z # y /\ z # x => Slot(b, z) = Slot(a, z)
    BY <1>1, <2>2, MoveSwaps
  <2>4. /\ B(y) = A(x) /\ B(x) = A(y)
        /\ \A z \in 0 .. n - 1 : z # y /\ z # x => B(z) = A(z)
    BY <1>2, <2>3 DEF KeyAt
  <2> HIDE DEF A, B
  <2>5. ASSUME NEW z \in 1 .. n - 1, z # y PROVE B(Parent(z)) <= B(z)
    <3>1. z \in 0 .. n - 1 /\ Parent(z) \in 0 .. n - 1 /\ Parent(z) # z
      BY <1>1, <1>4
    <3>2. CASE z = x
      BY <1>2, <2>2, <2>4, <3>2
    <3>3. CASE z # x /\ Parent(z) = x
      BY <1>2, <1>5, <2>2, <2>4, <2>5, <3>1, <3>3
    <3>4. CASE z # x /\ Parent(z) = y
      <4>1. A(y) <= A(z)
        BY <1>5, <3>4
      <4> QED
        BY <1>1, <1>2, <2>2, <2>4, <2>5, <3>1, <3>4, <4>1
    <3>5. CASE z # x /\ Parent(z) # x /\ Parent(z) # y
      BY <1>5, <2>4, <2>5, <3>1, <3>5
    <3> QED
      BY <3>2, <3>3, <3>4, <3>5
  <2>6. ASSUME NEW z \in 1 .. n - 1, y # 0, Parent(z) = y PROVE B(Parent(y)) <= B(z)
    <3>1. z \in 0 .. n - 1 /\ y \in 1 .. n - 1 /\ Parent(y) \in 0 .. n - 1
          /\ Parent(y) < y /\ z # y
      BY <1>1, <1>4, <2>2, <2>6
    <3>2. A(Parent(y)) <= A(y) /\ B(Parent(y)) = A(Parent(y))
      BY <1>1, <1>5, <2>2, <2>4, <3>1
    <3>3. CASE z = x
      BY <2>4, <3>2, <3>3
    <3>4. CASE z # x
      <4>1. A(y) <= A(z) /\ B(z) = A(z)
        BY <1>5, <2>4, <2>6, <3>1, <3>4
      <4> QED
        BY <1>2, <2>2, <3>1, <3>2, <4>1
    <3> QED
      BY <3>3, <3>4
  <2>7. OrderedButUp(b, y, keys)
    BY <2>3, <2>5, <2>6 DEF OrderedButUp, B
  <2> QED
    BY <2>1, <2>2, <2>3, <2>7
<1> QED
  BY <1>6, <1>7

(* Heap_SiftNodeUp.  Each round goes up, so the loop has ended after x.    *)
LEMMA SiftNodeUpOrders ==
    ASSUME NEW heap \in Heaps, NEW x \in 0 .. Len(heap.array) - 1, NEW node \in Nodes,
           NEW nodes, Holds(Put(heap, x, node), nodes),
           NEW keys, Comparable(nodes, keys),
           OrderedButUp(Put(heap, x, node).array, x, keys)
    PROVE  LET up == SiftNodeUp(heap, x, node, keys)
           IN  /\ Holds(up, nodes)
               /\ Len(up.array) = Len(heap.array)
               /\ Ordered(up.array, keys)
               /\ x >= 1 /\ keys[node] < keys[Slot(heap.array, Parent(x))]
                     => Slot(up.array, x) # node
<1> DEFINE n == Len(heap.array)
           start == [heap |-> heap, x |-> x]
           once == [sift \in Sifts |-> SiftUpOnce(sift, node, keys)]
           Good(i, s) ==
              /\ Sifting(s, node, nodes, n)
              /\ OrderedButUp(Filled(s, node).array, s.x, keys)
              /\ s.x + i <= x \/ ~GoesUp(s, node, keys)
              /\ GoesUp(start, node, keys) => s = start \/ s.x < x
              /\ i # 0 /\ GoesUp(start, node, keys) => s.x < x
           P == [i \in 0 .. x |-> {s \in Sifts : Good(i, s)}]
           end == Repeated(once, start, x)
<1>1. n \in Nat /\ x \in 0 .. n - 1 /\ x \in Nat
  BY LenProperties DEF Heaps
<1>2. start \in Sifts /\ Sifting(start, node, nodes, n) /\ Filled(start, node) = Put(heap, x, node)
  BY <1>1 DEF Sifting, Sifts, Heaps, Filled
<1>3. start \in P[0]
  <2>1. Good(0, start)
    BY <1>1, <1>2
  <2> HIDE DEF Good, start
  <2> QED
    BY <1>1, <1>2, <2>1
<1>4. ASSUME NEW i \in 0 .. x, i # x, NEW s \in P[i] PROVE once[s] \in P[i + 1]
  <2> HIDE DEF n, start
  <2>1. Good(i, s) /\ s \in Sifts
    BY <1>4
  <2>2. once[s] = SiftUpOnce(s, node, keys)
    BY <2>1
  <2> HIDE DEF once
  <2>3. i + 1 \in 0 .. x /\ i + 1 # 0 /\ s.x \in Nat
    BY <1>1, <1>4, <2>1 DEF Sifts
  <2>4. CASE ~GoesUp(s, node, keys)
    <3>1. once[s] = s
      BY <2>1, <2>2, <2>4, SiftUpOnceKeeps
    <3>2. Good(i + 1, s)
      BY <2>1, <2>4
    <3> HIDE DEF Good
    <3> QED
      BY <2>1, <2>3, <3>1, <3>2
  <2>5. CASE GoesUp(s, node, keys)
    <3> DEFINE t == once[s]
    <3>1. /\ Sifting(t, node, nodes, n) /\ t.x < s.x
          /\ OrderedButUp(Filled(t, node).array, t.x, keys)
      BY <2>1, <2>2, <2>5, SiftUpOnceKeeps
    <3> HIDE DEF t
    <3>2. t \in Sifts /\ t.x \in Nat
      BY <3>1 DEF Sifting, Sifts
    <3>3. t.x + (i + 1) <= x /\ s.x <= x
      BY <1>1, <2>1, <2>3, <2>5, <3>1, <3>2
    <3>4. Good(i + 1, t)
      BY <1>1, <2>3, <3>1, <3>2, <3>3
    <3> HIDE DEF Good
    <3> QED
      BY <2>3, <3>2, <3>4 DEF t
  <2> QED
    BY <2>4, <2>5
<1>5. end \in P[x]
  <2> HIDE DEF P, once, start
  <2>1. \A i \in 0 .. x : i # x => \A s \in P[i] : once[s] \in P[i + 1]
    BY <1>4
  <2> QED
    BY <1>1, <1>3, <2>1, RepeatedKeeps, Zenon
<1>6. Good(x, end)
  <2> HIDE DEF end, Good
  <2> QED
    BY <1>1, <1>5
<1>7. SiftNodeUp(heap, x, node, keys) = Filled(end, node)
  BY DEF SiftNodeUp, Filled
<1> HIDE DEF end, start, n
<1>8. ~GoesUp(end, node, keys)
  BY <1>1, <1>6 DEF GoesUp, Sifting, Sifts
<1>9. Ordered(Filled(end, node).array, keys)
  BY <1>6, <1>8, SiftUpOnceKeeps
<1>10. Holds(Filled(end, node), nodes) /\ Len(Filled(end, node).array) = n
  BY <1>6, FilledSlots DEF Sifting
<1>11. ASSUME GoesUp(start, node, keys) PROVE Slot(Filled(end, node).array, x) # node
  <2>1. /\ end.x # x /\ end.x \in 0 .. n - 1
        /\ Slot(Filled(end, node).array, end.x) = node
    <3>1. end.x < x
      BY <1>2, <1>6, <1>8, <1>11
    <3>2. Sifting(end, node, nodes, n)
      BY <1>6
    <3>3. end.x \in 0 .. n - 1
      BY <3>2 DEF Sifting
    <3>4. Slot(Filled(end, node).array, end.x) = node
      BY <3>2, <3>3, FilledSlots
    <3> QED
      BY <1>1, <3>1, <3>3, <3>4
  <2>2. \A y, z \in 0 .. n - 1 : Slot(Filled(end, node).array, y)
                                    = Slot(Filled(end, node).array, z) => y = z
    BY <1>10, SlotsOf DEF Holds, Heaps
  <2> QED
    BY <1>1, <2>1, <2>2
<1> QED
  BY <1>7, <1>9, <1>10, <1>11 DEF n, start, GoesUp

(* A node that is not smaller than its parent stays where it is.           *)
LEMMA SiftNodeUpStays ==
    ASSUME NEW heap \in Heaps, NEW x \in 0 .. Len(heap.array) - 1, NEW node, NEW keys,
           ~GoesUp([heap |-> heap, x |-> x], node, keys)
    PROVE  SiftNodeUp(heap, x, node, keys) = Put(heap, x, node)
<1> DEFINE start == [heap |-> heap, x |-> x]
           once == [sift \in Sifts |-> SiftUpOnce(sift, node, keys)]
           P == [i \in 0 .. x |-> {start}]
<1>1. x \in Nat
  BY LenProperties DEF Heaps
<1>2. start \in Sifts
  BY <1>1 DEF Sifts, Heaps
<1>3. once[start] = start
  BY <1>2 DEF SiftUpOnce, GoesUp
<1> HIDE DEF start, once
<1>4. start \in P[0]
  BY <1>1
<1>5. \A i \in 0 .. x : i # x => \A s \in P[i] : once[s] \in P[i + 1]
  BY <1>1, <1>3
<1>6. Repeated(once, start, x) \in P[x]
  <2> HIDE DEF P
  <2> QED
    BY <1>1, <1>4, <1>5, RepeatedKeeps, Zenon
<1>7. Repeated(once, start, x) = start
  BY <1>1, <1>6
<1> QED
  BY <1>7 DEF SiftNodeUp, start, once

(* Sifting down: only the children of slot x may be smaller than it, and   *)
(* they are not smaller than its parent.                                   *)
OrderedButDown(array, x, keys) ==
    /\ \A y \in 1 .. Len(array) - 1 :
          Parent(y) # x => KeyAt(array, Parent(y), keys) <= KeyAt(array, y, keys)
    /\ \A y \in 1 .. Len(array) - 1 :
          x # 0 /\ Parent(y) = x => KeyAt(array, Parent(x), keys) <= KeyAt(array, y, keys)

GoesDown(sift, node, keys) ==
    LET y == SmallerChild(sift.heap.array, sift.x, keys)
    IN  y < Len(sift.heap.array) /\ keys[node] > keys[Slot(sift.heap.array, y)]

LEMMA SiftDownOnceKeeps ==
    ASSUME NEW node \in Nodes, NEW nodes, NEW n, NEW sift, Sifting(sift, node, nodes, n),
           NEW keys, Comparable(nodes, keys),
           OrderedButDown(Filled(sift, node).array, sift.x, keys)
    PROVE  LET next == SiftDownOnce(sift, node, keys)
           IN  /\ ~GoesDown(sift, node, keys) =>
                     next = sift /\ Ordered(Filled(sift, node).array, keys)
               /\ GoesDown(sift, node, keys) =>
                     /\ Sifting(next, node, nodes, n)
                     /\ next.x > sift.x
                     /\ OrderedButDown(Filled(next, node).array, next.x, keys)
<1> DEFINE x == sift.x
           y == SmallerChild(sift.heap.array, x, keys)
           next == MoveTo(y, sift)
           a == Filled(sift, node).array
           b == Filled(next, node).array
           A(z) == KeyAt(a, z, keys)
           B(z) == KeyAt(b, z, keys)
<1>1. /\ n \in Nat /\ x \in 0 .. n - 1 /\ Len(a) = n /\ Len(sift.heap.array) = n
      /\ \A z \in 0 .. n - 1 : z # x => Slot(a, z) = Slot(sift.heap.array, z)
  BY FilledSlots DEF Sifting
<1>2. /\ A(x) = keys[node] /\ keys[node] \in Int /\ \A z \in 0 .. n - 1 : A(z) \in Int
  BY FilledKeys
<1>3. \A z \in 0 .. n - 1 : z # x => keys[Slot(sift.heap.array, z)] = A(z)
  BY <1>1 DEF KeyAt
<1>4. \A z \in 1 .. n - 1 : /\ z \in 0 .. n - 1
                            /\ Parent(z) \in 0 .. n - 1 /\ Parent(z) < z
                            /\ Parent(z) = x <=> z = 2 * x + 1 \/ z = 2 * x + 2
  <2> SUFFICES ASSUME NEW z \in 1 .. n - 1
               PROVE  /\ z \in 0 .. n - 1
                      /\ Parent(z) \in 0 .. n - 1 /\ Parent(z) < z
                      /\ Parent(z) = x <=> z = 2 * x + 1 \/ z = 2 * x + 2
    OBVIOUS
  <2>1. z \in Nat \ {0} /\ x \in Nat
    BY <1>1
  <2> QED
    BY <1>1, <2>1, Parents
<1>5. /\ \A z \in 1 .. n - 1 : Parent(z) # x => A(Parent(z)) <= A(z)
      /\ \A z \in 1 .. n - 1 : x # 0 /\ Parent(z) = x => A(Parent(x)) <= A(z)
  BY <1>1 DEF OrderedButDown
<1> HIDE DEF A, B
<1>6. /\ y \in Nat /\ y # x
      /\ y < n => y \in 1 .. n - 1 /\ Parent(y) = x
      /\ \A z \in 1 .. n - 1 : Parent(z) = x => y < n /\ A(y) <= A(z)
  <2> DEFINE left == 2 * x + 1
             right == left + 1
  <2>1. y = IF right < n /\ A(right) < A(left) THEN right ELSE left
    <3>1. right < n => /\ keys[Slot(sift.heap.array, right)] = A(right)
                       /\ keys[Slot(sift.heap.array, left)] = A(left)
      BY <1>1, <1>3
    <3> QED
      BY <1>1, <3>1 DEF SmallerChild
  <2>2. left \in Nat /\ right = 2 * x + 2 /\ right \in Nat /\ left # x /\ right # x
    BY <1>1
  <2> HIDE DEF y
  <2>3. ASSUME y < n PROVE y \in 1 .. n - 1 /\ Parent(y) = x
    <3>1. y \in 1 .. n - 1
      BY <1>1, <2>1, <2>2, <2>3
    <3> QED
      BY <1>4, <2>1, <2>2, <3>1
  <2>4. ASSUME NEW z \in 1 .. n - 1, Parent(z) = x PROVE y < n /\ A(y) <= A(z)
    <3>1. z = left \/ z = right
      BY <1>4, <2>2, <2>4
    <3>2. left < n /\ A(z) \in Int
      BY <1>1, <1>2, <1>4, <3>1
    <3>3. A(left) \in Int /\ (right < n => A(right) \in Int)
      BY <1>1, <1>2, <3>2
    <3>4. z < n
      BY <1>1
    <3> HIDE DEF left, right
    <3>5. CASE z = left
      BY <2>1, <3>2, <3>3, <3>5
    <3>6. CASE z = right
      BY <2>1, <3>2, <3>3, <3>4, <3>6
    <3> QED
      BY <3>1, <3>5, <3>6
  <2> QED
    BY <2>1, <2>2, <2>3, <2>4
<1>7. GoesDown(sift, node, keys) <=> y < n /\ A(y) < A(x)
  BY <1>1, <1>2, <1>3, <1>4, <1>6 DEF GoesDown
<1>8. ASSUME ~GoesDown(sift, node, keys)
      PROVE  SiftDownOnce(sift, node, keys) = sift /\ Ordered(a, keys)
  <2>1. SiftDownOnce(sift, node, keys) = sift
    BY <1>8 DEF SiftDownOnce, GoesDown
  <2>2. ASSUME NEW z \in 1 .. n - 1 PROVE A(Parent(z)) <= A(z)
    <3>1. CASE Parent(z) = x
      <4>1. y < n /\ A(y) <= A(z) /\ y \in 0 .. n - 1
        BY <1>4, <1>6, <3>1
      <4>2. ~(A(y) < A(x)) /\ A(y) \in Int /\ A(x) \in Int /\ A(z) \in Int
        BY <1>1, <1>2, <1>4, <1>7, <1>8, <4>1
      <4> HIDE DEF y, x
      <4> QED
        BY <3>1, <4>1, <4>2
    <3> QED
      BY <1>5, <3>1
  <2> QED
    BY <1>1, <2>1, <2>2 DEF Ordered, A
<1>9. ASSUME GoesDown(sift, node, keys)
      PROVE  /\ SiftDownOnce(sift, node, keys) = next
             /\ Sifting(next, node, nodes, n)
             /\ next.x > x
             /\ OrderedButDown(b, next.x, keys)
  <2>1. SiftDownOnce(sift, node, keys) = next
    BY <1>9 DEF SiftDownOnce, GoesDown
  <2>2. y \in 0 .. n - 1 /\ y > x /\ A(y) < A(x) /\ Parent(y) = x /\ y \in 1 .. n - 1
    BY <1>1, <1>4, <1>6, <1>7, <1>9
  <2>3. /\ Sifting(next, node, nodes, n) /\ next.x = y /\ Len(b) = n
        /\ Slot(b, y) = node /\ Slot(b, x) = Slot(a, y)
        /\ \A z \in 0 .. n - 1 : z # y /\ z # x => Slot(b, z) = Slot(a, z)
    BY <1>1, <2>2, MoveSwaps
  <2>4. /\ B(y) = A(x) /\ B(x) = A(y)
        /\ \A z \in 0 .. n - 1 : z # y /\ z # x => B(z) = A(z)
    BY <1>2, <2>3 DEF KeyAt, A, B
  <2> HIDE DEF y, x
  <2>5. ASSUME NEW z \in 1 .. n - 1, Parent(z) # y PROVE B(Parent(z)) <= B(z)
    <3>1. z \in 0 .. n - 1 /\ Parent(z) \in 0 .. n - 1 /\ Parent(z) # z
      BY <1>1, <1>4
    <3>2. CASE z = y
      BY <1>2, <2>2, <2>4, <3>1, <3>2
    <3>3. CASE z # y /\ Parent(z) = x
      <4>1. A(y) <= A(z) /\ z # x
        BY <1>6, <3>1, <3>3
      <4> QED
        BY <2>4, <3>1, <3>3, <4>1
    <3>4. CASE z = x /\ z # y
      <4>1. A(Parent(x)) <= A(y)
        BY <1>1, <1>5, <2>2, <3>4
      <4> QED
        BY <2>4, <2>5, <3>1, <3>4, <4>1
    <3>5. CASE z # y /\ z # x /\ Parent(z) # x
      BY <1>5, <2>4, <2>5, <3>1, <3>5
    <3> QED
      BY <3>2, <3>3, <3>4, <3>5
  <2>6. ASSUME NEW z \in 1 .. n - 1, y # 0, Parent(z) = y PROVE B(Parent(y)) <= B(z)
    <3>1. z \in 0 .. n - 1 /\ y < z /\ z # y /\ z # x
      BY <1>1, <1>4, <2>2, <2>6
    <3>2. A(y) <= A(z)
      BY <1>5, <2>2, <2>6
    <3> QED
      BY <2>2, <2>4, <3>1, <3>2
  <2>7. OrderedButDown(b, y, keys)
    BY <2>3, <2>5, <2>6 DEF OrderedButDown, B
  <2> QED
    BY <2>1, <2>2, <2>3, <2>7
<1> QED
  BY <1>8, <1>9

(* Heap_SiftNodeDown.  Each round goes down, so the loop has ended after   *)
(* as many rounds as there are nodes.                                      *)
LEMMA SiftNodeDownOrders ==
    ASSUME NEW heap \in Heaps, NEW x \in 0 .. Len(heap.array) - 1, NEW node \in Nodes,
           NEW nodes, Holds(Put(heap, x, node), nodes),
           NEW keys, Comparable(nodes, keys),
           OrderedButDown(Put(heap, x, node).array, x, keys)
    PROVE  LET down == SiftNodeDown(heap, x, node, keys)
           IN  /\ Holds(down, nodes)
               /\ Len(down.array) = Len(heap.array)
               /\ Ordered(down.array, keys)
<1> DEFINE n == Len(heap.array)
           start == [heap |-> heap, x |-> x]
           once == [sift \in Sifts |-> SiftDownOnce(sift, node, keys)]
           Good(i, s) ==
              /\ Sifting(s, node, nodes, n)
              /\ OrderedButDown(Filled(s, node).array, s.x, keys)
              /\ s.x >= i \/ ~GoesDown(s, node, keys)
           P == [i \in 0 .. n |-> {s \in Sifts : Good(i, s)}]
           end == Repeated(once, start, n)
<1>1. n \in Nat /\ x \in 0 .. n - 1 /\ x \in Nat
  BY LenProperties DEF Heaps
<1>2. start \in Sifts /\ Sifting(start, node, nodes, n) /\ Filled(start, node) = Put(heap, x, node)
  BY <1>1 DEF Sifting, Sifts, Heaps, Filled
<1>3. start \in P[0]
  <2>1. Good(0, start)
    BY <1>1, <1>2
  <2> HIDE DEF Good, start
  <2> QED
    BY <1>1, <1>2, <2>1
<1>4. ASSUME NEW i \in 0 .. n, i # n, NEW s \in P[i] PROVE once[s] \in P[i + 1]
  <2> HIDE DEF n, start
  <2>1. Good(i, s) /\ s \in Sifts
    BY <1>4
  <2>2. once[s] = SiftDownOnce(s, node, keys)
    BY <2>1
  <2> HIDE DEF once
  <2>3. i + 1 \in 0 .. n /\ s.x \in Nat
    BY <1>1, <1>4, <2>1 DEF Sifts
  <2>4. CASE ~GoesDown(s, node, keys)
    <3>1. once[s] = s
      BY <2>1, <2>2, <2>4, SiftDownOnceKeeps
    <3>2. Good(i + 1, s)
      BY <2>1, <2>4
    <3> HIDE DEF Good
    <3> QED
      BY <2>1, <2>3, <3>1, <3>2
  <2>5. CASE GoesDown(s, node, keys)
    <3> DEFINE t == once[s]
    <3>1. /\ Sifting(t, node, nodes, n) /\ t.x > s.x
          /\ OrderedButDown(Filled(t, node).array, t.x, keys)
      BY <2>1, <2>2, <2>5, SiftDownOnceKeeps
    <3> HIDE DEF t
    <3>2. t \in Sifts /\ t.x \in Nat
      BY <3>1 DEF Sifting, Sifts
    <3>3. t.x >= i + 1
      BY <1>1, <2>1, <2>3, <2>5, <3>1, <3>2
    <3>4. Good(i + 1, t)
      BY <3>1, <3>3
    <3> HIDE DEF Good
    <3> QED
      BY <2>3, <3>2, <3>4 DEF t
  <2> QED
    BY <2>4, <2>5
<1>5. end \in P[n]
  <2> HIDE DEF P, once, start, n
  <2>1. \A i \in 0 .. n : i # n => \A s \in P[i] : once[s] \in P[i + 1]
    BY <1>4
  <2> QED
    BY <1>1, <1>3, <2>1, RepeatedKeeps, Zenon
<1>6. Good(n, end)
  <2> HIDE DEF end, Good, n
  <2> QED
    BY <1>1, <1>5
<1>7. SiftNodeDown(heap, x, node, keys) = Filled(end, node)
  BY DEF SiftNodeDown, Filled
<1> HIDE DEF end, start, n
<1>8. ~GoesDown(end, node, keys)
  BY <1>1, <1>6 DEF Sifting, Sifts
<1>9. Ordered(Filled(end, node).array, keys)
  BY <1>6, <1>8, SiftDownOnceKeeps
<1>10. Holds(Filled(end, node), nodes) /\ Len(Filled(end, node).array) = n
  BY <1>6, FilledSlots DEF Sifting
<1> QED
  BY <1>7, <1>9, <1>10 DEF n

-----------------------------------------------------------------------------
(* The keys of the nodes in an array.                                      *)
LEMMA HeldKeys ==
    ASSUME NEW heap, NEW nodes, Holds(heap, nodes), NEW keys, Comparable(nodes, keys)
    PROVE  \A x \in 0 .. Len(heap.array) - 1 :
              Slot(heap.array, x) \in nodes /\ KeyAt(heap.array, x, keys) \in Int
<1>1. heap.array \in Seq(Nodes) /\ ToSet(heap.array) = nodes
  BY DEF Holds, Heaps
<1>2. \A x \in 0 .. Len(heap.array) - 1 : Slot(heap.array, x) \in nodes
  BY <1>1, SlotsOf
<1> QED
  BY <1>2 DEF Comparable, KeyAt

(* Parents are in the array.                                               *)
LEMMA ParentsIn ==
    ASSUME NEW n \in Int, NEW y \in 1 .. n - 1
    PROVE  y \in 0 .. n - 1 /\ Parent(y) \in 0 .. n - 1 /\ Parent(y) # y
<1>1. y \in Nat /\ y # 0
  OBVIOUS
<1>2. Parent(y) \in 0 .. y - 1
  BY <1>1, Parents
<1> QED
  BY <1>2

(* The order depends on the keys of the nodes in the heap only.            *)
LEMMA OrderedAlike ==
    ASSUME NEW heap, NEW nodes, Holds(heap, nodes), NEW keys, Ordered(heap.array, keys),
           NEW new, \A node \in nodes : new[node] = keys[node]
    PROVE  Ordered(heap.array, new)
<1> DEFINE n == Len(heap.array)
<1>1. heap.array \in Seq(Nodes) /\ ToSet(heap.array) = nodes /\ n \in Nat
  BY LenProperties DEF Holds, Heaps
<1>2. \A x \in 0 .. n - 1 : KeyAt(heap.array, x, new) = KeyAt(heap.array, x, keys)
  BY <1>1, SlotsOf DEF KeyAt
<1>3. ASSUME NEW x \in 1 .. n - 1 PROVE x \in 0 .. n - 1 /\ Parent(x) \in 0 .. n - 1
  <2> HIDE DEF n
  <2> QED
    BY <1>1, ParentsIn
<1> QED
  BY <1>2, <1>3 DEF Ordered

(* Heap_InsertNode, once there is a slot.                                  *)
LEMMA InsertedOrders ==
    ASSUME NEW heap, NEW nodes, Holds(heap, nodes), NEW node \in Nodes \ nodes,
           NEW keys, Comparable(nodes \cup {node}, keys), Ordered(heap.array, keys)
    PROVE  LET new == Inserted(heap, node, keys)
           IN  /\ Holds(new, nodes \cup {node})
               /\ Ordered(new.array, keys)
               /\ Len(new.array) = Len(heap.array) + 1
<1> DEFINE n == Len(heap.array)
           longer == [heap EXCEPT !.array = Append(heap.array, node)]
           start == Put(longer, n, node)
<1>1. /\ heap \in Heaps /\ heap.array \in Seq(Nodes) /\ n \in Nat
      /\ IsInjective(heap.array) /\ ToSet(heap.array) = nodes
      /\ \A x \in 0 .. n - 1 : heap.number[Slot(heap.array, x)] = x
      /\ \A x \in 0 .. n - 1 : Slot(heap.array, x) \in nodes
  BY LenProperties, SlotsOf DEF Holds, Heaps
<1>2. /\ longer.array = Append(heap.array, node) /\ longer.number = heap.number
      /\ longer \in Heaps /\ Len(longer.array) = n + 1
  <2> DEFINE a == Append(heap.array, node)
  <2>1. a \in Seq(Nodes) /\ Len(a) = n + 1
    BY <1>1, AppendProperties
  <2> HIDE DEF a
  <2>2. longer = [array |-> a, number |-> heap.number]
    <3>1. heap = [array |-> heap.array, number |-> heap.number]
      BY <1>1 DEF Heaps
    <3> QED
      BY <3>1 DEF a
  <2>3. heap.number \in [Nodes -> Nat]
    BY <1>1 DEF Heaps
  <2> HIDE DEF longer
  <2> QED
    BY <2>1, <2>2, <2>3 DEF Heaps, a
<1>3. /\ \A x \in 0 .. n - 1 : Slot(longer.array, x) = Slot(heap.array, x)
      /\ Slot(longer.array, n) = node
  <2>1. /\ \A i \in 1 .. n : Append(heap.array, node)[i] = heap.array[i]
        /\ Append(heap.array, node)[n + 1] = node
    BY <1>1, AppendProperties
  <2>2. \A x \in 0 .. n - 1 : x + 1 \in 1 .. n
    BY <1>1
  <2> HIDE DEF n, longer
  <2> QED
    BY <1>2, <2>1, <2>2 DEF Slot
<1> HIDE DEF longer, n
<1>4. /\ start \in Heaps /\ Len(start.array) = n + 1
      /\ \A x \in 0 .. n : Slot(start.array, x) =
                              IF x = n THEN node ELSE Slot(longer.array, x)
      /\ \A other \in Nodes : start.number[other] =
                              IF other = node THEN n ELSE heap.number[other]
  <2>1. n \in 0 .. Len(longer.array) - 1 /\ Len(longer.array) - 1 = n
    BY <1>1, <1>2
  <2>2. /\ start \in Heaps /\ Len(start.array) = Len(longer.array)
        /\ \A x \in 0 .. Len(longer.array) - 1 :
              Slot(start.array, x) = IF x = n THEN node ELSE Slot(longer.array, x)
        /\ \A other \in Nodes :
              start.number[other] = IF other = node THEN n ELSE longer.number[other]
    <3>1. longer \in Heaps /\ n \in 0 .. Len(longer.array) - 1 /\ node \in Nodes
      BY <1>2, <2>1
    <3> HIDE DEF start
    <3>2. start = Put(longer, n, node)
      BY DEF start
    <3>3. start \in Heaps /\ Len(start.array) = Len(longer.array)
      BY <3>1, <3>2, PutSlots
    <3>4. \A x \in 0 .. Len(longer.array) - 1 :
              Slot(start.array, x) = IF x = n THEN node ELSE Slot(longer.array, x)
      BY <3>1, <3>2, PutSlots
    <3>5. \A other \in Nodes :
              start.number[other] = IF other = node THEN n ELSE longer.number[other]
      BY <3>1, <3>2, PutSlots
    <3> QED
      BY <3>3, <3>4, <3>5
  <2> HIDE DEF start
  <2> QED
    BY <1>2, <2>1, <2>2
<1>5. \A x \in 0 .. n : Slot(start.array, x) = IF x = n THEN node ELSE Slot(heap.array, x)
  <2>1. \A x \in 0 .. n : x # n => x \in 0 .. n - 1
    BY <1>1
  <2> QED
    BY <1>3, <1>4, <2>1
<1> HIDE DEF start
<1>6. Holds(start, nodes \cup {node})
  <2>1. /\ start.array \in Seq(Nodes) /\ Len(start.array) - 1 = n
        /\ nodes \subseteq Nodes /\ nodes = {Slot(heap.array, x) : x \in 0 .. n - 1}
        /\ \A x, y \in 0 .. n - 1 : Slot(heap.array, x) = Slot(heap.array, y) => x = y
    <3>1. start.array \in Seq(Nodes) /\ Len(start.array) - 1 = n
      BY <1>1, <1>4 DEF Heaps
    <3> QED
      BY <1>1, <3>1, SlotsOf DEF n
  <2>2. \A x \in 0 .. n : x # n => x \in 0 .. n - 1
    BY <1>1
  <2>3. IsInjective(start.array)
    <3>1. \A x, y \in 0 .. n : Slot(start.array, x) = Slot(start.array, y) => x = y
      BY <1>1, <1>5, <2>1, <2>2
    <3> QED
      BY <2>1, <3>1, SlotsOf
  <2>4. ToSet(start.array) = nodes \cup {node}
    <3>1. ToSet(start.array) = {Slot(start.array, x) : x \in 0 .. n}
      BY <2>1, SlotsOf
    <3>2. \A x \in 0 .. n - 1 : x \in 0 .. n /\ Slot(start.array, x) = Slot(heap.array, x)
      BY <1>1, <1>5
    <3>3. n \in 0 .. n /\ Slot(start.array, n) = node
      BY <1>1, <1>5
    <3> QED
      BY <1>1, <1>5, <2>1, <2>2, <3>1, <3>2, <3>3
  <2>5. \A x \in 0 .. n : start.number[Slot(start.array, x)] = x
    BY <1>1, <1>4, <1>5, <2>1, <2>2
  <2> QED
    BY <1>4, <2>1, <2>3, <2>4, <2>5 DEF Holds
<1>7. OrderedButUp(start.array, n, keys)
  <2>1. \A y \in 1 .. n : y \in 0 .. n /\ Parent(y) \in 0 .. n - 1 /\ Parent(y) # n
    <3> SUFFICES ASSUME NEW y \in 1 .. n
                 PROVE  y \in 0 .. n /\ Parent(y) \in 0 .. n - 1 /\ Parent(y) # n
      OBVIOUS
    <3>1. y \in Nat /\ y # 0
      BY <1>1
    <3>2. Parent(y) \in 0 .. y - 1
      BY <3>1, Parents
    <3> QED
      BY <1>1, <3>2
  <2>2. ASSUME NEW y \in 1 .. n, y # n
        PROVE  KeyAt(start.array, Parent(y), keys) <= KeyAt(start.array, y, keys)
    <3>1. y \in 1 .. n - 1 /\ Parent(y) \in 0 .. n /\ y \in 0 .. n /\ Parent(y) # n
      BY <1>1, <2>1, <2>2
    <3>2. KeyAt(heap.array, Parent(y), keys) <= KeyAt(heap.array, y, keys)
      BY <3>1 DEF Ordered, n
    <3>3. /\ Slot(start.array, y) = Slot(heap.array, y)
          /\ Slot(start.array, Parent(y)) = Slot(heap.array, Parent(y))
      BY <1>5, <2>2, <3>1
    <3> QED
      BY <3>2, <3>3 DEF KeyAt
  <2>3. Len(start.array) - 1 = n
    BY <1>1, <1>4
  <2> QED
    BY <2>1, <2>2, <2>3 DEF OrderedButUp
<1>8. Inserted(heap, node, keys) = SiftNodeUp(start, n, node, keys)
  BY DEF Inserted, start, longer, n
<1>9. Put(start, n, node) = start
  BY DEF start, Put
<1>10. n \in 0 .. Len(start.array) - 1
  BY <1>1, <1>4
<1>11. Holds(Put(start, n, node), nodes \cup {node})
  BY <1>6, <1>9
<1>12. OrderedButUp(Put(start, n, node).array, n, keys)
  BY <1>7, <1>9
<1> DEFINE up == SiftNodeUp(start, n, node, keys)
<1>13. /\ Holds(up, nodes \cup {node}) /\ Ordered(up.array, keys)
       /\ Len(up.array) = Len(start.array)
  BY <1>4, <1>10, <1>11, <1>12, SiftNodeUpOrders
<1> QED
  BY <1>4, <1>8, <1>13 DEF n

(* Where a node is.                                                        *)
LEMMA SlotOfNode ==
    ASSUME NEW heap, NEW nodes, Holds(heap, nodes), NEW node \in nodes
    PROVE  /\ heap.number[node] \in 0 .. Len(heap.array) - 1
           /\ Slot(heap.array, heap.number[node]) = node
           /\ node \in Nodes
<1>1. heap.array \in Seq(Nodes) /\ ToSet(heap.array) = nodes
  BY DEF Holds, Heaps
<1>2. PICK x \in 0 .. Len(heap.array) - 1 : node = Slot(heap.array, x)
  BY <1>1, SlotsOf
<1>3. heap.number[node] = x
  BY <1>2 DEF Holds
<1>4. nodes \subseteq Nodes
  BY <1>1, SlotsOf
<1> QED
  BY <1>2, <1>3, <1>4

(* Putting a node where it is changes nothing.                             *)
LEMMA PutIdle ==
    ASSUME NEW heap \in Heaps, NEW x \in 0 .. Len(heap.array) - 1, NEW node,
           Slot(heap.array, x) = node, heap.number[node] = x
    PROVE  Put(heap, x, node) = heap
<1>1. /\ heap.array \in Seq(Nodes) /\ heap.number \in [Nodes -> Nat]
      /\ heap = [array |-> heap.array, number |-> heap.number]
  BY DEF Heaps
<1>2. [heap.array EXCEPT ![x + 1] = node] = heap.array
  BY <1>1 DEF Slot
<1>3. [heap.number EXCEPT ![node] = x] = heap.number
  BY <1>1
<1> QED
  BY <1>1, <1>2, <1>3 DEF Put

(* The last node in the slot of another one, or of itself, and the array   *)
(* without its end.                                                        *)
LEMMA LastMoved ==
    ASSUME NEW heap, NEW nodes, Holds(heap, nodes), NEW node \in nodes
    PROVE  LET n == Len(heap.array)
               x == heap.number[node]
               last == Last(heap.array)
               shorter == [Put(heap, x, last) EXCEPT !.array = Front(@)]
           IN  /\ n \in Nat /\ x \in 0 .. n - 1
               /\ last \in nodes /\ last \in Nodes
               /\ last # node => x \in 0 .. n - 2 /\ last \in nodes \ {node}
               /\ Holds(shorter, nodes \ {node})
               /\ Len(shorter.array) = n - 1
               /\ \A z \in 0 .. n - 2 :
                     Slot(shorter.array, z) = IF z = x THEN last ELSE Slot(heap.array, z)
<1> DEFINE n == Len(heap.array)
           x == heap.number[node]
           last == Last(heap.array)
           moved == Put(heap, x, last)
           shorter == [moved EXCEPT !.array = Front(moved.array)]
<1>1. /\ heap \in Heaps /\ heap.array \in Seq(Nodes) /\ n \in Nat
      /\ x \in 0 .. n - 1 /\ Slot(heap.array, x) = node /\ node \in Nodes
      /\ nodes = {Slot(heap.array, z) : z \in 0 .. n - 1} /\ nodes \subseteq Nodes
      /\ \A y, z \in 0 .. n - 1 : Slot(heap.array, y) = Slot(heap.array, z) => y = z
      /\ \A z \in 0 .. n - 1 : heap.number[Slot(heap.array, z)] = z
  BY SlotOfNode, SlotsOf DEF Holds, Heaps
<1>2. last = Slot(heap.array, n - 1) /\ n - 1 \in 0 .. n - 1 /\ last \in nodes
  <2>1. last = heap.array[n] /\ (n - 1) + 1 = n /\ n - 1 \in 0 .. n - 1
    BY <1>1 DEF Last
  <2>2. last = Slot(heap.array, n - 1)
    BY <2>1 DEF Slot
  <2> QED
    BY <1>1, <2>1, <2>2
<1> HIDE DEF last, x
<1>3. /\ moved \in Heaps /\ Len(moved.array) = n
      /\ \A z \in 0 .. n - 1 :
            Slot(moved.array, z) = IF z = x THEN last ELSE Slot(heap.array, z)
      /\ \A other \in Nodes :
            moved.number[other] = IF other = last THEN x ELSE heap.number[other]
  <2>1. last \in Nodes
    BY <1>1, <1>2
  <2> QED
    BY <1>1, <2>1, PutSlots
<1> HIDE DEF moved, n
<1>4. /\ shorter \in Heaps /\ Len(shorter.array) = n - 1
      /\ \A z \in 0 .. n - 2 : Slot(shorter.array, z) = Slot(moved.array, z)
      /\ shorter.number = moved.number
  <2>1. moved.array \in Seq(Nodes) /\ moved.array # <<>>
    <3>1. Len(<<>>) = 0
      OBVIOUS
    <3> QED
      BY <1>1, <1>3, <3>1 DEF Heaps
  <2>2. /\ Front(moved.array) \in Seq(Nodes) /\ Len(Front(moved.array)) = n - 1
        /\ \A i \in 1 .. n - 1 : Front(moved.array)[i] = moved.array[i]
    <3> DEFINE a == moved.array
    <3> HIDE DEF a
    <3>1. /\ Front(a) \in Seq(Nodes) /\ Len(Front(a)) = Len(a) - 1
          /\ \A i \in 1 .. Len(a) - 1 : Front(a)[i] = a[i]
      BY <2>1, ListTakeBack, ListTakeBackItems DEF a
    <3> QED
      BY <1>3, <3>1 DEF a
  <2>3. shorter.array = Front(moved.array) /\ shorter.number = moved.number /\ shorter \in Heaps
    BY <1>3, <2>2 DEF Heaps
  <2>4. \A z \in 0 .. n - 2 : z + 1 \in 1 .. n - 1
    BY <1>1
  <2> HIDE DEF shorter
  <2> QED
    BY <2>2, <2>3, <2>4 DEF Slot
<1> HIDE DEF shorter
<1>5. /\ shorter.array \in Seq(Nodes)
      /\ \A z \in 0 .. n - 2 :
            /\ z \in 0 .. n - 1 /\ z # n - 1
            /\ Slot(shorter.array, z) = IF z = x THEN last ELSE Slot(heap.array, z)
      /\ \A other \in Nodes :
            shorter.number[other] = IF other = last THEN x ELSE heap.number[other]
  <2>1. \A z \in 0 .. n - 2 : z \in 0 .. n - 1 /\ z # n - 1
    BY <1>1
  <2> QED
    BY <1>3, <1>4, <2>1 DEF Heaps
<1>6. /\ last # node => x # n - 1 /\ x \in 0 .. n - 2
      /\ last = node => x = n - 1
  BY <1>1, <1>2
<1>7. \A z \in 0 .. n - 1 : z # n - 1 => z \in 0 .. n - 2
  BY <1>1
<1>8. ToSet(shorter.array) = nodes \ {node}
  <2>1. ToSet(shorter.array) = {Slot(shorter.array, z) : z \in 0 .. n - 2}
    <3>1. (n - 1) - 1 = n - 2
      BY <1>1
    <3> QED
      BY <1>4, <1>5, <3>1, SlotsOf
  <2>2. ASSUME NEW z \in 0 .. n - 2 PROVE Slot(shorter.array, z) \in nodes \ {node}
    <3>1. CASE z = x
      BY <1>1, <1>2, <1>5, <1>6, <3>1
    <3>2. CASE z # x
      BY <1>1, <1>5, <3>2
    <3> QED
      BY <3>1, <3>2
  <2>3. ASSUME NEW other \in nodes \ {node}
        PROVE  \E z \in 0 .. n - 2 : other = Slot(shorter.array, z)
    <3>1. PICK z \in 0 .. n - 1 : other = Slot(heap.array, z)
      BY <1>1
    <3>2. z # x
      BY <1>1, <3>1
    <3>3. CASE z = n - 1
      BY <1>2, <1>5, <1>6, <3>1, <3>2, <3>3
    <3>4. CASE z # n - 1
      BY <1>5, <1>7, <3>1, <3>2, <3>4
    <3> QED
      BY <3>3, <3>4
  <2> QED
    BY <2>1, <2>2, <2>3
<1>9. IsInjective(shorter.array)
  <2>1. \A y, z \in 0 .. n - 2 : Slot(shorter.array, y) = Slot(shorter.array, z) => y = z
    BY <1>1, <1>2, <1>5
  <2>2. (n - 1) - 1 = n - 2
    BY <1>1
  <2> QED
    BY <1>4, <1>5, <2>1, <2>2, SlotsOf
<1>10. \A z \in 0 .. n - 2 : shorter.number[Slot(shorter.array, z)] = z
  <2> SUFFICES ASSUME NEW z \in 0 .. n - 2
               PROVE  shorter.number[Slot(shorter.array, z)] = z
    OBVIOUS
  <2>1. CASE z = x
    BY <1>1, <1>2, <1>5, <2>1
  <2>2. CASE z # x
    <3>1. Slot(heap.array, z) # last /\ Slot(heap.array, z) \in Nodes
      BY <1>1, <1>2, <1>5
    <3> QED
      BY <1>1, <1>5, <2>2, <3>1
  <2> QED
    BY <2>1, <2>2
<1>11. Holds(shorter, nodes \ {node})
  <2>1. Len(shorter.array) - 1 = n - 2
    BY <1>1, <1>4
  <2> QED
    BY <1>4, <1>8, <1>9, <1>10, <2>1 DEF Holds
<1>12. [Put(heap, x, last) EXCEPT !.array = Front(@)] = shorter
  BY DEF shorter, moved
<1> QED
  BY <1>1, <1>2, <1>4, <1>5, <1>6, <1>11, <1>12 DEF n, x, last

(* Heap_RemoveNode.                                                        *)
LEMMA RemovedOrders ==
    ASSUME NEW heap, NEW nodes, Holds(heap, nodes), NEW node \in nodes,
           NEW keys, Comparable(nodes, keys), Ordered(heap.array, keys)
    PROVE  LET new == Removed(heap, node, keys)
           IN  /\ Holds(new, nodes \ {node})
               /\ Ordered(new.array, keys)
               /\ Len(new.array) = Len(heap.array) - 1
<1> DEFINE n == Len(heap.array)
           x == heap.number[node]
           last == Last(heap.array)
           shorter == [Put(heap, x, last) EXCEPT !.array = Front(@)]
           K(z) == KeyAt(heap.array, z, keys)
           N(z) == KeyAt(shorter.array, z, keys)
<1>1. /\ n \in Nat /\ x \in 0 .. n - 1
      /\ last \in nodes /\ last \in Nodes
      /\ last # node => x \in 0 .. n - 2 /\ last \in nodes \ {node}
      /\ Holds(shorter, nodes \ {node})
      /\ Len(shorter.array) = n - 1
      /\ \A z \in 0 .. n - 2 :
            Slot(shorter.array, z) = IF z = x THEN last ELSE Slot(heap.array, z)
  BY LastMoved
<1>2. /\ keys[node] \in Int /\ keys[last] \in Int /\ K(x) = keys[node]
      /\ \A z \in 0 .. n - 1 : K(z) \in Int
  BY <1>1, HeldKeys, SlotOfNode DEF Comparable, KeyAt
<1>3. \A z \in 0 .. n - 2 : N(z) = IF z = x THEN keys[last] ELSE K(z)
  BY <1>1 DEF KeyAt
<1>4. /\ Removed(heap, node, keys) =
            IF keys[last] = keys[node] THEN shorter
            ELSE IF keys[last] < keys[node] THEN SiftNodeUp(shorter, x, last, keys)
                 ELSE SiftNodeDown(shorter, x, last, keys)
      /\ Comparable(nodes \ {node}, keys)
      /\ shorter \in Heaps
  BY <1>1 DEF Removed, Comparable, Holds
<1>5. \A y \in 1 .. n - 1 : K(Parent(y)) <= K(y)
  BY DEF Ordered
<1> HIDE DEF shorter, last, x, n, K, N
<1>6. \A y \in 1 .. n - 2 : /\ y \in 1 .. n - 1 /\ y \in 0 .. n - 2 /\ y \in 0 .. n - 1
                            /\ Parent(y) \in 0 .. n - 2 /\ Parent(y) \in 0 .. n - 1
                            /\ Parent(y) # y
  <2> SUFFICES ASSUME NEW y \in 1 .. n - 2
               PROVE  /\ y \in 1 .. n - 1 /\ y \in 0 .. n - 2 /\ y \in 0 .. n - 1
                      /\ Parent(y) \in 0 .. n - 2 /\ Parent(y) \in 0 .. n - 1
                      /\ Parent(y) # y
    OBVIOUS
  <2>1. n - 1 \in Int /\ (n - 1) - 1 = n - 2
    BY <1>1
  <2>2. Parent(y) \in 0 .. n - 2 /\ Parent(y) # y
    BY <2>1, ParentsIn
  <2> QED
    BY <1>1, <2>2
<1>7. ASSUME NEW y \in 1 .. n - 2, x # 0, Parent(y) = x PROVE N(Parent(x)) <= N(y)
  <2>1. x \in 1 .. n - 2
    BY <1>1, <1>6, <1>7
  <2>2. /\ Parent(x) # x /\ Parent(x) \in 0 .. n - 2 /\ Parent(x) \in 0 .. n - 1
        /\ y # x /\ y \in 0 .. n - 2 /\ y \in 0 .. n - 1
    BY <1>6, <1>7, <2>1
  <2>3. N(Parent(x)) = K(Parent(x)) /\ N(y) = K(y)
    BY <1>3, <2>2
  <2>4. K(Parent(x)) <= K(x) /\ K(x) <= K(y)
    BY <1>5, <1>6, <1>7, <2>1
  <2>5. K(Parent(x)) \in Int /\ K(x) \in Int /\ K(y) \in Int
    BY <1>1, <1>2, <2>2
  <2> QED
    BY <2>3, <2>4, <2>5
<1>8. (n - 1) - 1 = n - 2
  BY <1>1
<1>9. CASE keys[last] = keys[node]
  <2>1. \A z \in 0 .. n - 2 : N(z) = K(z)
    BY <1>2, <1>3, <1>9
  <2>2. Ordered(shorter.array, keys)
    BY <1>1, <1>5, <1>6, <1>8, <2>1 DEF Ordered, N
  <2> QED
    BY <1>1, <1>4, <1>9, <2>2 DEF n
<1>10. CASE keys[last] # keys[node]
  <2>1. last # node /\ x \in 0 .. n - 2 /\ x \in 0 .. Len(shorter.array) - 1
    BY <1>1, <1>8, <1>10
  <2>2. Slot(shorter.array, x) = last /\ shorter.number[last] = x
    BY <1>1, <2>1 DEF Holds
  <2>3. Put(shorter, x, last) = shorter
    BY <1>4, <2>1, <2>2, PutIdle
  <2> DEFINE rest == nodes \ {node}
  <2> HIDE DEF rest
  <2>6. shorter \in Heaps /\ last \in Nodes /\ Comparable(rest, keys)
    BY <1>1, <1>4 DEF rest
  <2>7. Holds(Put(shorter, x, last), rest)
    BY <1>1, <2>3 DEF rest
  <2>4. CASE keys[last] < keys[node]
    <3>1. ASSUME NEW y \in 1 .. n - 2, y # x PROVE N(Parent(y)) <= N(y)
      <4>1. N(y) = K(y) /\ K(Parent(y)) <= K(y) /\ K(y) \in Int
        BY <1>2, <1>3, <1>5, <1>6, <3>1
      <4>2. CASE Parent(y) = x
        BY <1>2, <1>3, <1>6, <2>4, <4>1, <4>2
      <4>3. CASE Parent(y) # x
        BY <1>3, <1>6, <4>1, <4>3
      <4> QED
        BY <4>2, <4>3
    <3>2. OrderedButUp(shorter.array, x, keys)
      BY <1>1, <1>7, <1>8, <3>1 DEF OrderedButUp, N
    <3> DEFINE up == SiftNodeUp(shorter, x, last, keys)
    <3>4. OrderedButUp(Put(shorter, x, last).array, x, keys)
      BY <2>3, <3>2
    <3>3. Holds(up, rest) /\ Ordered(up.array, keys) /\ Len(up.array) = Len(shorter.array)
      BY <2>1, <2>6, <2>7, <3>4, SiftNodeUpOrders
    <3> QED
      BY <1>1, <1>4, <1>10, <2>4, <3>3 DEF n, rest
  <2>5. CASE ~(keys[last] < keys[node])
    <3>1. ASSUME NEW y \in 1 .. n - 2, Parent(y) # x PROVE N(Parent(y)) <= N(y)
      <4>1. /\ N(Parent(y)) = K(Parent(y)) /\ K(Parent(y)) <= K(y)
            /\ K(y) \in Int /\ K(Parent(y)) \in Int
        BY <1>2, <1>3, <1>5, <1>6, <3>1
      <4>2. CASE y = x
        BY <1>2, <1>3, <1>6, <1>10, <2>5, <4>1, <4>2
      <4>3. CASE y # x
        BY <1>3, <1>6, <4>1, <4>3
      <4> QED
        BY <4>2, <4>3
    <3>2. OrderedButDown(shorter.array, x, keys)
      BY <1>1, <1>7, <1>8, <3>1 DEF OrderedButDown, N
    <3> DEFINE down == SiftNodeDown(shorter, x, last, keys)
    <3>4. OrderedButDown(Put(shorter, x, last).array, x, keys)
      BY <2>3, <3>2
    <3>3. Holds(down, rest) /\ Ordered(down.array, keys) /\ Len(down.array) = Len(shorter.array)
      BY <2>1, <2>6, <2>7, <3>4, SiftNodeDownOrders
    <3> QED
      BY <1>1, <1>4, <1>10, <2>5, <3>3 DEF n, rest
  <2> QED
    BY <2>4, <2>5
<1> QED
  BY <1>9, <1>10

(* Heap_AdjustNode, after the key of the node has changed: up or down, and *)
(* never both.                                                             *)
LEMMA AdjustedOrders ==
    ASSUME NEW heap, NEW nodes, Holds(heap, nodes), NEW node \in nodes,
           NEW old, Comparable(nodes, old), Ordered(heap.array, old),
           NEW keys, Comparable(nodes, keys),
           \A other \in nodes \ {node} : keys[other] = old[other]
    PROVE  LET new == Adjusted(heap, node, keys)
           IN  /\ Holds(new, nodes) /\ Ordered(new.array, keys)
               /\ Len(new.array) = Len(heap.array)
<1> DEFINE n == Len(heap.array)
           x == heap.number[node]
           start == [heap |-> heap, x |-> x]
           up == SiftNodeUp(heap, x, node, keys)
           down == SiftNodeDown(heap, x, node, keys)
           K(z) == KeyAt(heap.array, z, old)
           N(z) == KeyAt(heap.array, z, keys)
<1>1. /\ heap \in Heaps /\ n \in Nat /\ x \in 0 .. n - 1
      /\ Slot(heap.array, x) = node /\ node \in Nodes
      /\ \A z \in 0 .. n - 1 : heap.number[Slot(heap.array, z)] = z
  BY SlotOfNode, LenProperties DEF Holds, Heaps
<1>2. Put(heap, x, node) = heap
  BY <1>1, PutIdle
<1>3. /\ \A z \in 0 .. n - 1 :
            /\ Slot(heap.array, z) \in nodes /\ K(z) \in Int /\ N(z) \in Int
            /\ z # x => N(z) = K(z)
      /\ N(x) = keys[node]
  <2>1. \A z \in 0 .. n - 1 : z # x => Slot(heap.array, z) # node
    BY <1>1
  <2> QED
    BY <1>1, <2>1, HeldKeys DEF KeyAt
<1>4. \A y \in 1 .. n - 1 : /\ y \in 0 .. n - 1 /\ Parent(y) \in 0 .. n - 1
                            /\ Parent(y) # y /\ K(Parent(y)) <= K(y)
  BY <1>1, ParentsIn DEF Ordered
<1>5. /\ GoesUp(start, node, keys) <=> x >= 1 /\ N(x) < N(Parent(x))
      /\ x # 0 => x >= 1 /\ x \in 1 .. n - 1
  BY <1>1, <1>3 DEF GoesUp, KeyAt
<1>6. Adjusted(heap, node, keys) = IF Slot(up.array, x) # node THEN up
                                   ELSE SiftNodeDown(up, x, node, keys)
  BY DEF Adjusted
<1> HIDE DEF n, x, K, N, start
<1>7. ASSUME NEW y \in 1 .. n - 1, x # 0, Parent(y) = x PROVE N(Parent(x)) <= N(y)
  <2>1. K(Parent(x)) <= K(x) /\ K(x) <= K(y) /\ y # x /\ Parent(x) # x
    BY <1>4, <1>5, <1>7
  <2>2. N(Parent(x)) = K(Parent(x)) /\ N(y) = K(y)
    BY <1>3, <1>4, <1>5, <1>7, <2>1
  <2>3. K(Parent(x)) \in Int /\ K(x) \in Int /\ K(y) \in Int
    BY <1>1, <1>3, <1>4, <1>5, <1>7
  <2> QED
    BY <2>1, <2>2, <2>3
<1>8. CASE GoesUp(start, node, keys)
  <2>1. x \in 1 .. n - 1 /\ N(x) < N(Parent(x))
    BY <1>1, <1>5, <1>8
  <2>2. N(x) < K(x)
    BY <1>1, <1>3, <1>4, <2>1
  <2>3. ASSUME NEW y \in 1 .. n - 1, y # x PROVE N(Parent(y)) <= N(y)
    <3>1. K(Parent(y)) <= K(y) /\ N(y) = K(y) /\ K(y) \in Int
      BY <1>3, <1>4, <2>3
    <3>2. CASE Parent(y) = x
      BY <1>1, <1>3, <2>2, <3>1, <3>2
    <3>3. CASE Parent(y) # x
      BY <1>3, <1>4, <3>1, <3>3
    <3> QED
      BY <3>2, <3>3
  <2>4. OrderedButUp(heap.array, x, keys)
    BY <1>7, <2>3 DEF OrderedButUp, N, n
  <2>5. /\ Holds(up, nodes) /\ Ordered(up.array, keys) /\ Slot(up.array, x) # node
        /\ Len(up.array) = Len(heap.array)
    BY <1>1, <1>2, <1>8, <2>4, SiftNodeUpOrders DEF n, start, GoesUp
  <2> QED
    BY <1>6, <2>5
<1>9. CASE ~GoesUp(start, node, keys)
  <2>1. up = heap
    BY <1>1, <1>2, <1>9, SiftNodeUpStays DEF n, start
  <2>2. ASSUME NEW y \in 1 .. n - 1, Parent(y) # x PROVE N(Parent(y)) <= N(y)
    <3>1. /\ K(Parent(y)) <= K(y) /\ N(Parent(y)) = K(Parent(y))
          /\ N(Parent(y)) \in Int /\ N(y) \in Int
      BY <1>3, <1>4, <2>2
    <3>2. CASE y = x
      BY <1>5, <1>9, <3>1, <3>2
    <3>3. CASE y # x
      BY <1>3, <1>4, <3>1, <3>3
    <3> QED
      BY <3>2, <3>3
  <2>3. OrderedButDown(heap.array, x, keys)
    BY <1>7, <2>2 DEF OrderedButDown, N, n
  <2>4. /\ Holds(down, nodes) /\ Ordered(down.array, keys)
        /\ Len(down.array) = Len(heap.array)
    BY <1>1, <1>2, <2>3, SiftNodeDownOrders DEF n
  <2> QED
    BY <1>1, <1>6, <2>1, <2>4
<1> QED
  BY <1>8, <1>9

-----------------------------------------------------------------------------
(* The inductive invariant of the heap: what SlotNumbersRight says of the  *)
(* array and the slot numbers together, what the keys are, and the order.  *)
HeapInv ==
    /\ Holds(currentHeap, DOMAIN key)
    /\ \A node \in DOMAIN key : key[node] \in Keys
    /\ Ordered(slots, key)

LEMMA HeapInvMeans ==
    ASSUME HeapInv
    PROVE  /\ slots \in Seq(Nodes) /\ DOMAIN key \subseteq Nodes
           /\ SlotNumbersRight /\ HeapOrdered
           /\ Comparable(DOMAIN key, key)
           /\ currentHeap \in Heaps /\ currentHeap.array = slots
<1>1. /\ currentHeap.array = slots /\ currentHeap.number = slotNumber
      /\ currentHeap \in Heaps
  BY DEF HeapInv, Holds, currentHeap
<1>2. slots \in Seq(Nodes)
  BY <1>1 DEF Heaps
<1>3. ToSet(slots) = DOMAIN key /\ ToSet(slots) \subseteq Nodes
  BY <1>1, <1>2, SlotsOf DEF HeapInv, Holds
<1>4. SlotNumbersRight
  BY <1>1 DEF HeapInv, Holds, SlotNumbersRight, numberOfNodes
<1>5. HeapOrdered
  BY DEF HeapInv, Ordered, HeapOrdered, KeyAt, Parent, numberOfNodes
<1>6. Comparable(DOMAIN key, key)
  BY HeapAssumption DEF HeapInv, Comparable
<1> QED
  BY <1>1, <1>2, <1>3, <1>4, <1>5, <1>6

(* A call of the heap is done when its new heap is stored.                 *)
LEMMA HeapBecomes ==
    ASSUME NEW new, Becomes(new), Holds(new, DOMAIN key'),
           \A node \in DOMAIN key' : key'[node] \in Keys, Ordered(new.array, key')
    PROVE  HeapInv'
<1>1. new = [array |-> new.array, number |-> new.number]
  BY DEF Holds, Heaps
<1>2. currentHeap' = new /\ slots' = new.array
  BY <1>1 DEF currentHeap, Becomes
<1> QED
  BY <1>2 DEF HeapInv

LEMMA HeapStarts ==
    ASSUME HeapInit
    PROVE  HeapInv
<1>1. slots = <<>> /\ slotNumber = [node \in Nodes |-> 0] /\ key = <<>>
  BY DEF HeapInit
<1>2. currentHeap \in Heaps /\ currentHeap.array = <<>> /\ Len(<<>>) = 0
  BY <1>1, EmptySeq DEF Heaps, currentHeap
<1>3. DOMAIN key = {}
  BY <1>1, EmptySeq
<1>4. ToSet(<<>>) = {} /\ IsInjective(<<>>)
  BY <1>2, EmptySeq, ListEmpty
<1>5. Holds(currentHeap, DOMAIN key)
  BY <1>2, <1>3, <1>4 DEF Holds
<1>6. Ordered(slots, key)
  BY <1>1, <1>2 DEF Ordered
<1> QED
  BY <1>3, <1>5, <1>6 DEF HeapInv

LEMMA HeapInserts ==
    ASSUME HeapInv, NEW node \in Nodes, NEW k \in Keys, InsertNode(node, k)
    PROVE  /\ HeapInv' /\ Len(slots') = Len(slots) + 1
           /\ DOMAIN key' = DOMAIN key \cup {node} /\ key'[node] = k
           /\ \A other \in DOMAIN key : key'[other] = key[other]
<1> DEFINE new == Inserted(currentHeap, node, key')
<1>1. node \notin DOMAIN key /\ key' = WithKey(node, k) /\ Becomes(new)
  BY DEF InsertNode
<1>2. /\ DOMAIN key' = DOMAIN key \cup {node}
      /\ key'[node] = k
      /\ \A other \in DOMAIN key : key'[other] = key[other]
  BY <1>1 DEF WithKey
<1>3. \A other \in DOMAIN key' : key'[other] \in Keys
  BY <1>1, <1>2 DEF HeapInv
<1>4. Comparable(DOMAIN key', key')
  BY <1>3, HeapAssumption DEF Comparable
<1>5. Ordered(currentHeap.array, key')
  BY <1>2, HeapInvMeans, OrderedAlike DEF HeapInv
<1>6. /\ Holds(new, DOMAIN key') /\ Ordered(new.array, key')
      /\ Len(new.array) = Len(slots) + 1
  <2>1. Holds(currentHeap, DOMAIN key) /\ currentHeap.array = slots
    BY HeapInvMeans DEF HeapInv
  <2> QED
    BY <1>1, <1>2, <1>4, <1>5, <2>1, InsertedOrders
<1> HIDE DEF new
<1> QED
  BY <1>1, <1>2, <1>3, <1>6, HeapBecomes DEF Becomes

LEMMA HeapRemoves ==
    ASSUME HeapInv, NEW node \in Nodes, RemoveNode(node)
    PROVE  HeapInv' /\ Len(slots') = Len(slots) - 1
<1> DEFINE new == Removed(currentHeap, node, key)
<1>1. /\ node \in DOMAIN key /\ Becomes(new)
      /\ key' = [other \in DOMAIN key \ {node} |-> key[other]]
  BY DEF RemoveNode
<1>2. /\ Holds(new, DOMAIN key \ {node}) /\ Ordered(new.array, key)
      /\ Len(new.array) = Len(slots) - 1
  <2>1. /\ Holds(currentHeap, DOMAIN key) /\ Comparable(DOMAIN key, key)
        /\ Ordered(currentHeap.array, key) /\ currentHeap.array = slots
    BY HeapInvMeans DEF HeapInv
  <2> QED
    BY <1>1, <2>1, RemovedOrders
<1> HIDE DEF new
<1>3. /\ DOMAIN key' = DOMAIN key \ {node}
      /\ \A other \in DOMAIN key' : key'[other] = key[other]
  BY <1>1
<1>4. \A other \in DOMAIN key' : key'[other] \in Keys
  BY <1>3 DEF HeapInv
<1>5. Ordered(new.array, key')
  BY <1>2, <1>3, OrderedAlike
<1> QED
  BY <1>1, <1>2, <1>3, <1>4, <1>5, HeapBecomes DEF Becomes

LEMMA HeapAdjusts ==
    ASSUME HeapInv, NEW node \in Nodes, NEW k \in Keys, AdjustNode(node, k)
    PROVE  HeapInv' /\ Len(slots') = Len(slots)
<1> DEFINE new == Adjusted(currentHeap, node, key')
<1>1. node \in DOMAIN key /\ Becomes(new) /\ key' = [key EXCEPT ![node] = k]
  BY DEF AdjustNode
<1>2. /\ DOMAIN key' = DOMAIN key /\ key'[node] = k
      /\ \A other \in DOMAIN key \ {node} : key'[other] = key[other]
  BY <1>1
<1>3. \A other \in DOMAIN key' : key'[other] \in Keys
  BY <1>1, <1>2 DEF HeapInv
<1>4. Comparable(DOMAIN key, key')
  BY <1>2, <1>3, HeapAssumption DEF Comparable
<1>5. /\ Holds(new, DOMAIN key) /\ Ordered(new.array, key')
      /\ Len(new.array) = Len(slots)
  <2>1. /\ Holds(currentHeap, DOMAIN key) /\ Comparable(DOMAIN key, key)
        /\ Ordered(currentHeap.array, key) /\ currentHeap.array = slots
    BY HeapInvMeans DEF HeapInv
  <2> QED
    <3>1. /\ Holds(new, DOMAIN key) /\ Ordered(new.array, key')
          /\ Len(new.array) = Len(currentHeap.array)
      <4>1. /\ node \in DOMAIN key /\ Comparable(DOMAIN key, key')
            /\ \A other \in DOMAIN key \ {node} : key'[other] = key[other]
        BY <1>1, <1>2, <1>4
      <4> QED
        BY <2>1, <4>1, AdjustedOrders
    <3> QED
      BY <2>1, <3>1
<1> HIDE DEF new
<1> QED
  BY <1>1, <1>2, <1>3, <1>5, HeapBecomes DEF Becomes

LEMMA HeapSteps ==
    ASSUME HeapInv, [HeapNext]_heapVars
    PROVE  HeapInv'
<1>1. ASSUME NEW node \in Nodes, RemoveNode(node) PROVE HeapInv'
  BY <1>1, HeapRemoves
<1>2. ASSUME NEW node \in Nodes, NEW k \in Keys, InsertNode(node, k) PROVE HeapInv'
  BY <1>2, HeapInserts
<1>3. ASSUME NEW node \in Nodes, NEW k \in Keys, AdjustNode(node, k) PROVE HeapInv'
  BY <1>3, HeapAdjusts
<1>4. ASSUME UNCHANGED <<slots, slotNumber, key>> PROVE HeapInv'
  BY <1>4 DEF HeapInv, currentHeap
<1>5. InsertFails \/ ShrinkToFit \/ UNCHANGED heapVars => UNCHANGED <<slots, slotNumber, key>>
  BY DEF InsertFails, ShrinkToFit, heapVars
<1> QED
  BY <1>1, <1>2, <1>3, <1>4, <1>5 DEF HeapNext

(* No node of the heap is above one with a smaller key, after any sequence *)
(* of insertions, adjustments and removals.                                *)
THEOREM Heap_HeapOrdered == HeapSpec => []HeapOrdered
<1>1. HeapInit => HeapInv
  BY HeapStarts
<1>2. HeapInv /\ [HeapNext]_heapVars => HeapInv'
  BY HeapSteps
<1>3. HeapInv => HeapOrdered
  BY HeapInvMeans
<1> QED
  BY <1>1, <1>2, <1>3, PTL DEF HeapSpec

(* The array holds the inserted nodes, each once, and every node knows the *)
(* slot it is in.                                                          *)
THEOREM Heap_SlotNumbersRight == HeapSpec => []SlotNumbersRight
<1>1. HeapInit => HeapInv
  BY HeapStarts
<1>2. HeapInv /\ [HeapNext]_heapVars => HeapInv'
  BY HeapSteps
<1>3. HeapInv => SlotNumbersRight
  BY HeapInvMeans
<1> QED
  BY <1>1, <1>2, <1>3, PTL DEF HeapSpec

-----------------------------------------------------------------------------
(* Shifting by one place more.                                             *)
LEMMA ShiftedOnceMore ==
    ASSUME NEW number \in Nat, NEW k \in Nat
    PROVE  /\ ShiftedLeft(number, 0) = number
           /\ ShiftedLeft(number, k) \in Nat
           /\ ShiftedLeft(number, k + 1) = 2 * ShiftedLeft(number, k)
           /\ ShiftedRight(number, 0) = number
           /\ ShiftedRight(number, k) \in Nat
           /\ ShiftedRight(number, k + 1) = ShiftedRight(number, k) \div 2
<1> DEFINE double == [n \in Nat |-> 2 * n]
           half == [n \in Nat |-> n \div 2]
           P == [i \in Nat |-> Nat]
<1>1. number \in P[0]
  OBVIOUS
<1>2. \A n \in Nat : double[n] = 2 * n /\ double[n] \in Nat
  OBVIOUS
<1>3. \A n \in Nat : half[n] = n \div 2 /\ half[n] \in Nat
  OBVIOUS
<1>4. \A i \in 0 .. k : P[i] = Nat /\ P[i + 1] = Nat
  OBVIOUS
<1>5. P[k] = Nat
  OBVIOUS
<1> HIDE DEF P, double, half
<1>6. Repeated(double, number, k) \in Nat
  <2>1. \A i \in 0 .. k : i # k => \A n \in P[i] : double[n] \in P[i + 1]
    BY <1>2, <1>4
  <2> QED
    BY <1>1, <1>5, <2>1, RepeatedKeeps
<1>7. Repeated(half, number, k) \in Nat
  <2>1. \A i \in 0 .. k : i # k => \A n \in P[i] : half[n] \in P[i + 1]
    BY <1>3, <1>4
  <2> QED
    BY <1>1, <1>5, <2>1, RepeatedKeeps
<1>8. /\ Repeated(double, number, 0) = number
      /\ Repeated(double, number, k + 1) = double[Repeated(double, number, k)]
  BY RepeatedOnceMore
<1>9. /\ Repeated(half, number, 0) = number
      /\ Repeated(half, number, k + 1) = half[Repeated(half, number, k)]
  BY RepeatedOnceMore
<1>10. /\ Repeated(double, number, k + 1) = 2 * Repeated(double, number, k)
       /\ Repeated(half, number, k + 1) = Repeated(half, number, k) \div 2
  BY <1>2, <1>3, <1>6, <1>7, <1>8, <1>9
<1> QED
  BY <1>6, <1>7, <1>8, <1>9, <1>10 DEF ShiftedLeft, ShiftedRight, double, half

(* 2^k as the code would write it.                                         *)
Power(k) == ShiftedLeft(1, k)

LEMMA Powers ==
    ASSUME NEW k \in Nat
    PROVE  Power(0) = 1 /\ Power(k) \in Nat \ {0} /\ Power(k + 1) = 2 * Power(k)
<1> DEFINE T == {i \in 0 .. k : Power(i) > 0}
<1>1. 0 \in T
  BY ShiftedOnceMore DEF Power
<1>2. ASSUME NEW i \in 0 .. k, i # k, i \in T PROVE i + 1 \in T
  <2>1. i \in Nat /\ i + 1 \in 0 .. k
    BY <1>2
  <2>2. Power(i) \in Nat /\ Power(i + 1) = 2 * Power(i) /\ Power(i) > 0
    BY <1>2, <2>1, ShiftedOnceMore DEF Power
  <2> QED
    BY <2>1, <2>2
<1> HIDE DEF T
<1>3. 0 .. k \subseteq T
  BY <1>1, <1>2, InductionUpTo
<1>4. k \in T
  BY <1>3
<1>5. Power(k) > 0
  BY <1>4 DEF T
<1> QED
  BY <1>5, ShiftedOnceMore DEF Power

(* Exactly the numbers of k bits have lost them all when shifted by k.     *)
LEMMA ShiftedOut ==
    ASSUME NEW k \in Nat, NEW number \in Nat
    PROVE  ShiftedRight(number, k) = 0 <=> number < Power(k)
<1> DEFINE T == {i \in 0 .. k : ShiftedRight(number, i) < Power(k - i) <=> number < Power(k)}
<1>1. 0 \in T
  <2>1. 0 \in 0 .. k /\ k - 0 = k /\ ShiftedRight(number, 0) = number
    BY ShiftedOnceMore
  <2> QED
    BY <2>1
<1>2. ASSUME NEW i \in 0 .. k, i # k, i \in T PROVE i + 1 \in T
  <2>1. i \in Nat /\ i + 1 \in 0 .. k /\ k - (i + 1) \in Nat /\ (k - (i + 1)) + 1 = k - i
    BY <1>2
  <2>2. Power(k - i) = 2 * Power(k - (i + 1)) /\ Power(k - (i + 1)) \in Nat
    BY <2>1, Powers
  <2>3. /\ ShiftedRight(number, i) \in Nat
        /\ ShiftedRight(number, i + 1) = ShiftedRight(number, i) \div 2
    BY <2>1, ShiftedOnceMore
  <2>4. ShiftedRight(number, i) < Power(k - i) <=> number < Power(k)
    BY <1>2
  <2>5. ShiftedRight(number, i + 1) < Power(k - (i + 1)) <=> number < Power(k)
    BY <2>2, <2>3, <2>4
  <2> QED
    BY <2>1, <2>5
<1> HIDE DEF T
<1>3. 0 .. k \subseteq T
  BY <1>1, <1>2, InductionUpTo
<1>4. k \in T
  BY <1>3
<1>5. ShiftedRight(number, k) < Power(k - k) <=> number < Power(k)
  BY <1>4 DEF T
<1>6. k - k = 0 /\ Power(0) = 1 /\ ShiftedRight(number, k) \in Nat
  BY Powers, ShiftedOnceMore
<1> QED
  BY <1>5, <1>6

LEMMA PowersGrow ==
    ASSUME NEW k \in Nat, NEW j \in 0 .. k
    PROVE  Power(j) <= Power(k)
<1> DEFINE T == {i \in 0 .. k - j : Power(j) <= Power(j + i)}
<1>1. k - j \in Nat /\ j \in Nat /\ j + 0 = j /\ j + (k - j) = k
  OBVIOUS
<1>2. 0 \in T
  BY <1>1, Powers
<1>3. ASSUME NEW i \in 0 .. k - j, i # k - j, i \in T PROVE i + 1 \in T
  <2>1. i + 1 \in 0 .. k - j /\ j + i \in Nat /\ j + (i + 1) = (j + i) + 1
    BY <1>1, <1>3
  <2>2. Power(j + (i + 1)) = 2 * Power(j + i) /\ Power(j + i) \in Nat /\ Power(j) \in Nat
    BY <1>1, <2>1, Powers
  <2>3. Power(j) <= Power(j + i)
    BY <1>3
  <2> QED
    BY <2>1, <2>2, <2>3
<1> HIDE DEF T
<1>4. 0 .. k - j \subseteq T
  BY <1>1, <1>2, <1>3, InductionUpTo
<1>5. k - j \in T
  BY <1>1, <1>4
<1> QED
  BY <1>1, <1>5 DEF T

(* The highest bit of a number that is not zero, and the powers around it. *)
IsTop(h, number) ==
    /\ h \in Bits(number)
    /\ Bits(number) \subseteq 0 .. h
    /\ Power(h) <= number /\ number < Power(h + 1)

LEMMA TopExists ==
    ASSUME NEW number \in Nat, number # 0, number < Power(WordBits)
    PROVE  \E h \in Positions : IsTop(h, number)
<1> DEFINE T == {k \in Nat : number < Power(k)}
<1>1. WordBits \in T
  BY VectorAssumption
<1>2. PICK m \in T : \A k \in T : m <= k
  BY <1>1, LeastNumber
<1>3. m \in Nat /\ number < Power(m) /\ m <= WordBits /\ WordBits \in Nat
  BY <1>1, <1>2, VectorAssumption
<1>4. m # 0
  BY <1>3, Powers
<1> DEFINE h == m - 1
<1>5. h \in Nat /\ h + 1 = m /\ h \in Positions
  BY <1>3, <1>4 DEF Positions
<1>6. ~(number < Power(h))
  <2>1. h \notin T
    BY <1>2, <1>5
  <2> QED
    BY <1>5, <2>1
<1>7. Power(h) \in Nat /\ Power(h) <= number
  BY <1>5, <1>6, Powers
<1> HIDE DEF h, T
<1>8. ASSUME NEW i \in Bits(number) PROVE i \in 0 .. h
  <2>1. i \in Nat /\ ShiftedRight(number, i) % 2 = 1
    BY DEF Bits, Positions
  <2>2. SUFFICES ASSUME m <= i PROVE FALSE
    BY <1>3, <1>5, <2>1
  <2>3. Power(m) <= Power(i) /\ Power(m) \in Nat /\ Power(i) \in Nat
    BY <1>3, <2>1, <2>2, PowersGrow, Powers
  <2>4. number < Power(i)
    BY <1>3, <2>3
  <2>5. ShiftedRight(number, i) = 0
    BY <2>1, <2>4, ShiftedOut
  <2> QED
    BY <2>1, <2>5
<1>9. h \in Bits(number)
  <2>1. ShiftedRight(number, h) \in {0, 1}
    <3>1. ShiftedRight(number, m) = 0
      BY <1>3, ShiftedOut
    <3>2. ShiftedRight(number, m) = ShiftedRight(number, h) \div 2 /\ ShiftedRight(number, h) \in Nat
      BY <1>5, ShiftedOnceMore
    <3> QED
      BY <3>1, <3>2
  <2>2. ShiftedRight(number, h) # 0
    BY <1>5, <1>6, ShiftedOut
  <2>3. ShiftedRight(number, h) % 2 = 1
    BY <2>1, <2>2
  <2> QED
    BY <1>5, <2>3 DEF Bits
<1> QED
  BY <1>3, <1>5, <1>7, <1>8, <1>9 DEF IsTop

(* Smearing sets all bits below the highest one, and none above.           *)
LEMMA SmearFills ==
    ASSUME NEW h \in Positions, NEW bits \in SUBSET (0 .. h), h \in bits
    PROVE  Smear(bits) = 0 .. h
<1> DEFINE Shifts == [bits : SUBSET Positions, k : Nat]
           shift == [loop \in Shifts |->
                        IF loop.k >= WordBits THEN loop
                        ELSE [bits |-> loop.bits
                                         \cup {i \in Positions : i + loop.k \in loop.bits},
                              k    |-> 2 * loop.k]]
           Smeared(loop, i) ==
               /\ loop.k >= WordBits \/ loop.k >= i + 1
               /\ loop.k > 0
               /\ loop.bits \subseteq 0 .. h
               /\ \A j \in 0 .. h : h - j < loop.k => j \in loop.bits
           start == [bits |-> bits, k |-> 1]
           P == [i \in Nat |-> {loop \in Shifts : Smeared(loop, i)}]
<1>1. WordBits \in Nat /\ WordBits > 0 /\ h \in Nat /\ h < WordBits
  BY VectorAssumption DEF Positions
<1>2. 0 .. h \subseteq Positions
  BY <1>1 DEF Positions
<1>3. start \in Shifts /\ Smeared(start, 0)
  <2>1. \A j \in 0 .. h : h - j < 1 => j = h
    BY <1>1
  <2> QED
    BY <1>2, <2>1
<1>4. ASSUME NEW i \in Nat, NEW loop \in Shifts, Smeared(loop, i)
      PROVE  shift[loop] \in Shifts /\ Smeared(shift[loop], i + 1)
  <2>1. loop.bits \in SUBSET Positions /\ loop.k \in Nat
    OBVIOUS
  <2>2. /\ loop.k >= WordBits \/ loop.k >= i + 1
        /\ loop.k > 0
        /\ loop.bits \subseteq 0 .. h
        /\ \A j \in 0 .. h : h - j < loop.k => j \in loop.bits
    BY <1>4
  <2> DEFINE more == loop.bits \cup {j \in Positions : j + loop.k \in loop.bits}
             next == [bits |-> more, k |-> 2 * loop.k]
  <2>3. more \in SUBSET Positions
    BY <2>1
  <2>4. more \subseteq 0 .. h
    <3> SUFFICES ASSUME NEW j \in Positions, j + loop.k \in loop.bits PROVE j \in 0 .. h
      BY <2>2
    <3>1. j \in Nat /\ j + loop.k \in 0 .. h
      BY <2>2 DEF Positions
    <3> QED
      BY <1>1, <2>1, <3>1
  <2>5. ASSUME NEW j \in 0 .. h, h - j < 2 * loop.k PROVE j \in more
    <3>1. CASE h - j < loop.k
      BY <2>2, <3>1
    <3>2. CASE ~(h - j < loop.k)
      <4>1. j + loop.k \in 0 .. h /\ h - (j + loop.k) < loop.k
        BY <1>1, <2>1, <2>5, <3>2
      <4>2. j + loop.k \in loop.bits
        BY <2>2, <4>1
      <4> QED
        BY <1>2, <4>2
    <3> QED
      BY <3>1, <3>2
  <2>6. shift[loop] = IF loop.k >= WordBits THEN loop ELSE next
    OBVIOUS
  <2> HIDE DEF more, shift
  <2>7. CASE loop.k >= WordBits
    BY <2>2, <2>6, <2>7
  <2>8. CASE ~(loop.k >= WordBits)
    <3>1. 2 * loop.k \in Nat /\ 2 * loop.k >= (i + 1) + 1 /\ 2 * loop.k > 0
      BY <1>1, <2>1, <2>2, <2>8
    <3>2. shift[loop] = next /\ next.bits = more /\ next.k = 2 * loop.k /\ next \in Shifts
      BY <2>3, <2>6, <2>8, <3>1
    <3> HIDE DEF next
    <3> QED
      BY <2>4, <2>5, <3>1, <3>2
  <2> QED
    BY <2>7, <2>8
<1>5. Smear(bits) = Repeated(shift, start, WordBits).bits
  BY DEF Smear
<1> HIDE DEF shift, Smeared
<1>6. \A i \in 0 .. WordBits : i # WordBits => \A s \in P[i] : shift[s] \in P[i + 1]
  <2> SUFFICES ASSUME NEW i \in 0 .. WordBits, i # WordBits, NEW s \in P[i]
               PROVE  shift[s] \in P[i + 1]
    OBVIOUS
  <2>1. i \in Nat /\ i + 1 \in Nat
    OBVIOUS
  <2>2. s \in Shifts /\ Smeared(s, i)
    BY <2>1
  <2>3. shift[s] \in Shifts /\ Smeared(shift[s], i + 1)
    BY <1>4, <2>1, <2>2
  <2> QED
    BY <2>1, <2>3
<1>7. start \in P[0]
  BY <1>3
<1> HIDE DEF P, start
<1>8. Repeated(shift, start, WordBits) \in P[WordBits]
  BY <1>1, <1>6, <1>7, RepeatedKeeps
<1> DEFINE end == Repeated(shift, start, WordBits)
<1>9. end \in Shifts /\ Smeared(end, WordBits)
  BY <1>1, <1>8 DEF P
<1> HIDE DEF end
<1>10. /\ end.k \in Nat /\ end.k >= WordBits
       /\ end.bits \subseteq 0 .. h
       /\ \A j \in 0 .. h : h - j < end.k => j \in end.bits
  BY <1>1, <1>9 DEF Smeared
<1>11. \A j \in 0 .. h : h - j < end.k
  BY <1>1, <1>10
<1> QED
  BY <1>5, <1>10, <1>11 DEF end

LEMMA SmearNothing == Smear({}) = {}
<1> DEFINE Shifts == [bits : SUBSET Positions, k : Nat]
           shift == [loop \in Shifts |->
                        IF loop.k >= WordBits THEN loop
                        ELSE [bits |-> loop.bits
                                         \cup {i \in Positions : i + loop.k \in loop.bits},
                              k    |-> 2 * loop.k]]
           Empty == {loop \in Shifts : loop.bits = {}}
           start == [bits |-> {}, k |-> 1]
           P == [i \in Nat |-> Empty]
<1>1. WordBits \in Nat
  BY VectorAssumption
<1>2. start \in Empty
  OBVIOUS
<1>3. ASSUME NEW loop \in Empty PROVE shift[loop] \in Empty
  <2>1. loop \in Shifts /\ loop.bits = {} /\ loop.k \in Nat
    OBVIOUS
  <2>2. loop.bits \cup {i \in Positions : i + loop.k \in loop.bits} = {}
    BY <2>1
  <2>3. shift[loop] = IF loop.k >= WordBits THEN loop ELSE [bits |-> {}, k |-> 2 * loop.k]
    BY <2>1, <2>2
  <2>4. 2 * loop.k \in Nat
    BY <2>1
  <2> HIDE DEF shift
  <2> QED
    BY <2>1, <2>3, <2>4
<1>4. Smear({}) = Repeated(shift, start, WordBits).bits
  BY DEF Smear
<1> HIDE DEF shift, Empty
<1>5. start \in P[0] /\ P[WordBits] = Empty
  BY <1>1, <1>2
<1>6. \A i \in 0 .. WordBits : i # WordBits => \A s \in P[i] : shift[s] \in P[i + 1]
  BY <1>1, <1>3
<1> HIDE DEF P, start
<1>7. Repeated(shift, start, WordBits) \in Empty
  BY <1>1, <1>5, <1>6, RepeatedKeeps
<1> QED
  BY <1>4, <1>7 DEF Empty

(* A number with its lowest n bits set, and no other, is one less than a   *)
(* power.                                                                  *)
LEMMA NumberOfLowest ==
    ASSUME NEW n \in 0 .. WordBits
    PROVE  Number(0 .. n - 1) = Power(n) - 1
<1> DEFINE bits == 0 .. n - 1
           Ats == [value : Nat, from : 1 .. WordBits]
           read == [at \in Ats |->
                      [value |-> 2 * at.value + (IF at.from - 1 \in bits THEN 1 ELSE 0),
                       from  |-> at.from - 1]]
           start == [value |-> 0, from |-> WordBits]
           All == [value : Nat, from : Nat]
           ReadTo(at, i) ==
               /\ at.from = WordBits - i
               /\ at.value + 1 = IF at.from >= n THEN 1 ELSE Power(n - at.from)
           P == [i \in Nat |-> {at \in All : ReadTo(at, i)}]
<1>1. WordBits \in Nat /\ n \in Nat /\ n <= WordBits
  BY VectorAssumption
<1>2. start \in All /\ ReadTo(start, 0)
  BY <1>1
<1>3. ASSUME NEW i \in 0 .. WordBits, i # WordBits, NEW at \in All, ReadTo(at, i)
      PROVE  read[at] \in All /\ ReadTo(read[at], i + 1)
  <2> DEFINE f == at.from - 1
             bit == IF f \in bits THEN 1 ELSE 0
             v == 2 * at.value + bit
  <2>1. /\ f \in Nat /\ at.from = f + 1 /\ at.from \in 1 .. WordBits
        /\ f = WordBits - (i + 1) /\ at.value \in Nat
    BY <1>1, <1>3
  <2>2. read[at] = [value |-> v, from |-> f]
    BY <2>1
  <2>3. bit = IF f < n THEN 1 ELSE 0
    BY <1>1, <2>1
  <2>4. at.value + 1 = IF f + 1 >= n THEN 1 ELSE Power(n - (f + 1))
    BY <1>3, <2>1
  <2> HIDE DEF f, bit
  <2>5. v \in Nat
    BY <2>1, <2>3
  <2>6. v + 1 = IF f >= n THEN 1 ELSE Power(n - f)
    <3>1. CASE f >= n
      BY <1>1, <2>1, <2>3, <2>4, <3>1
    <3>2. CASE f + 1 = n
      <4>1. v = 1 /\ n - f = 0 + 1 /\ ~(f >= n)
        BY <1>1, <2>1, <2>3, <2>4, <3>2
      <4>2. Power(0 + 1) = 2
        BY Powers
      <4> QED
        BY <4>1, <4>2
    <3>3. CASE f + 1 < n
      <4>1. /\ n - (f + 1) \in Nat /\ (n - (f + 1)) + 1 = n - f
            /\ ~(f + 1 >= n) /\ ~(f >= n) /\ bit = 1
        BY <1>1, <2>1, <2>3, <3>3
      <4>2. /\ Power(n - f) = 2 * Power(n - (f + 1))
            /\ Power(n - (f + 1)) \in Nat
        BY <4>1, Powers
      <4>3. at.value + 1 = Power(n - (f + 1))
        BY <2>4, <4>1
      <4>4. v + 1 = 2 * (at.value + 1)
        BY <2>1, <4>1
      <4> QED
        BY <4>1, <4>2, <4>3, <4>4
    <3> QED
      BY <1>1, <2>1, <3>1, <3>2, <3>3
  <2> HIDE DEF v, read
  <2> QED
    BY <2>1, <2>2, <2>5, <2>6
<1>4. Number(bits) = Repeated(read, start, WordBits).value
  BY DEF Number
<1> HIDE DEF read, ReadTo
<1>5. \A i \in 0 .. WordBits : i # WordBits => \A s \in P[i] : read[s] \in P[i + 1]
  <2> SUFFICES ASSUME NEW i \in 0 .. WordBits, i # WordBits, NEW s \in P[i]
               PROVE  read[s] \in P[i + 1]
    OBVIOUS
  <2>1. i \in Nat /\ i + 1 \in Nat
    OBVIOUS
  <2>2. s \in All /\ ReadTo(s, i)
    BY <2>1
  <2>3. read[s] \in All /\ ReadTo(read[s], i + 1)
    BY <1>3, <2>2
  <2> QED
    BY <2>1, <2>3
<1>6. start \in P[0]
  BY <1>2
<1> HIDE DEF P, start
<1>7. Repeated(read, start, WordBits) \in P[WordBits]
  BY <1>1, <1>5, <1>6, RepeatedKeeps
<1> DEFINE end == Repeated(read, start, WordBits)
<1>8. end \in All /\ ReadTo(end, WordBits)
  BY <1>1, <1>7 DEF P
<1> HIDE DEF end
<1>9. end.value \in Nat /\ end.value + 1 = IF 0 >= n THEN 1 ELSE Power(n - 0)
  BY <1>1, <1>8 DEF ReadTo
<1>10. Power(n) \in Nat /\ Power(0) = 1 /\ n - 0 = n
  BY <1>1, Powers
<1>11. end.value = Power(n) - 1
  BY <1>1, <1>9, <1>10
<1> QED
  BY <1>4, <1>11 DEF end

(* What NextPowerOfTwo computes for a number that is not zero: the next    *)
(* power, unless it is just too large for a word.                          *)
NextPower(g, number) ==
    /\ g \in 0 .. WordBits
    /\ number <= Power(g)
    /\ \A j \in Nat : number <= Power(j) => g <= j
    /\ NextPowerOfTwo(number) = IF g = WordBits THEN 0 ELSE Power(g)

LEMMA WordOfPower ==
    ASSUME NEW g \in 0 .. WordBits
    PROVE  Word(Power(g)) = IF g = WordBits THEN 0 ELSE Power(g)
<1>1. WordBits \in Nat /\ g \in Nat
  BY VectorAssumption
<1>2. Power(WordBits) \in Nat /\ Power(WordBits) > 0 /\ Power(g) \in Nat
  BY <1>1, Powers
<1>3. Word(Power(g)) = Power(g) % Power(WordBits)
  BY DEF Word, Power
<1>4. CASE g = WordBits
  BY <1>2, <1>3, <1>4
<1>5. CASE g # WordBits
  <2>1. g + 1 \in 0 .. WordBits
    BY <1>1, <1>5
  <2>2. Power(g + 1) <= Power(WordBits) /\ Power(g + 1) = 2 * Power(g) /\ Power(g) > 0
    BY <1>1, <2>1, PowersGrow, Powers
  <2>3. Power(g) < Power(WordBits)
    BY <1>2, <2>2
  <2> QED
    BY <1>2, <1>3, <1>5, <2>3
<1> QED
  BY <1>4, <1>5

LEMMA WordOfLess ==
    ASSUME NEW number \in Nat, number < Power(WordBits)
    PROVE  Word(number) = number
<1>1. WordBits \in Nat
  BY VectorAssumption
<1>2. Power(WordBits) \in Nat /\ Power(WordBits) > 0
  BY <1>1, Powers
<1> QED
  BY <1>2 DEF Word, Power

(* The last steps of NextPowerOfTwo: the number with all bits set up to    *)
(* its highest one is incremented.                                         *)
LEMMA SmearedIncremented ==
    ASSUME NEW h \in Positions, NEW number \in Nat, IsTop(h, number)
    PROVE  Word(Number(Smear(Bits(number))) + 1)
               = IF h + 1 = WordBits THEN 0 ELSE Power(h + 1)
<1>1. h \in Nat /\ h + 1 \in 0 .. WordBits /\ (h + 1) - 1 = h
  BY VectorAssumption DEF Positions
<1>2. Smear(Bits(number)) = 0 .. h
  BY SmearFills DEF IsTop
<1>3. Number(0 .. h) = Power(h + 1) - 1
  BY <1>1, NumberOfLowest
<1>4. Power(h + 1) \in Nat
  BY <1>1, Powers
<1>5. Number(Smear(Bits(number))) + 1 = Power(h + 1)
  BY <1>2, <1>3, <1>4
<1> QED
  BY <1>1, <1>5, WordOfPower

LEMMA RoundsNumber ==
    ASSUME NEW number \in Nat \ {0}, number < Power(WordBits)
    PROVE  \E g : NextPower(g, number)
<1> DEFINE m == number - 1
<1>1. /\ WordBits \in Nat /\ WordBits > 0 /\ Power(WordBits) \in Nat
      /\ Power(0) = 1
  BY VectorAssumption, Powers
<1>2. m \in Nat /\ m < Power(WordBits) /\ number = m + 1
  BY <1>1
<1> HIDE DEF m
<1>3. Word(m) = m
  BY <1>2, WordOfLess
<1>4. NextPowerOfTwo(number) = Word(Number(Smear(Bits(m))) + 1)
  BY <1>3 DEF NextPowerOfTwo, m
<1>5. CASE m = 0
  <2>1. ASSUME NEW i \in Positions PROVE ShiftedRight(m, i) = 0
    <3>1. i \in Nat
      BY DEF Positions
    <3>2. 0 < Power(i)
      BY <3>1, Powers
    <3> QED
      BY <1>5, <3>1, <3>2, ShiftedOut
  <2>2. Bits(m) = {}
    BY <2>1 DEF Bits
  <2>3. 0 .. (0 - 1) = {}
    OBVIOUS
  <2>4. Number({}) = Power(0) - 1
    BY <1>1, <2>3, NumberOfLowest
  <2>5. Number(Smear(Bits(m))) + 1 = Power(0)
    BY <1>1, <2>2, <2>4, SmearNothing
  <2>6. NextPowerOfTwo(number) = IF 0 = WordBits THEN 0 ELSE Power(0)
    BY <1>1, <1>4, <2>5, WordOfPower
  <2>7. NextPower(0, number)
    BY <1>1, <1>2, <1>5, <2>6 DEF NextPower
  <2> QED
    BY <2>7
<1>6. CASE m # 0
  <2>1. PICK h \in Positions : IsTop(h, m)
    BY <1>2, <1>6, TopExists
  <2>2. h \in Nat /\ h + 1 \in 0 .. WordBits
    BY <1>1 DEF Positions
  <2>3. Power(h) <= m /\ m < Power(h + 1) /\ Power(h) \in Nat /\ Power(h + 1) \in Nat
    BY <2>1, <2>2, Powers DEF IsTop
  <2>4. NextPowerOfTwo(number) = IF h + 1 = WordBits THEN 0 ELSE Power(h + 1)
    BY <1>2, <1>4, <2>1, SmearedIncremented
  <2>5. ASSUME NEW j \in Nat, number <= Power(j) PROVE h + 1 <= j
    <3>1. SUFFICES ASSUME j <= h PROVE FALSE
      BY <2>2
    <3>2. j \in 0 .. h
      BY <2>2, <3>1
    <3>3. Power(j) <= Power(h) /\ Power(j) \in Nat
      BY <2>2, <3>2, PowersGrow, Powers
    <3> QED
      BY <1>2, <2>3, <2>5, <3>3
  <2>6. number <= Power(h + 1)
    BY <1>2, <2>3
  <2>7. NextPower(h + 1, number)
    BY <2>2, <2>4, <2>5, <2>6 DEF NextPower
  <2> QED
    BY <2>7
<1> QED
  BY <1>5, <1>6

(* Zero becomes the largest word, and that overflows to zero again.        *)
LEMMA RoundsZero == NextPowerOfTwo(0) = 0
<1> DEFINE M == Power(WordBits)
           m == M - 1
           H == WordBits - 1
<1>1. WordBits \in Nat /\ WordBits > 0 /\ H \in Nat /\ H + 1 = WordBits
  BY VectorAssumption
<1>2. M \in Nat /\ Power(H) \in Nat \ {0} /\ M = 2 * Power(H)
  BY <1>1, Powers
<1> HIDE DEF M
<1>3. m \in Nat /\ m # 0 /\ m < M /\ Power(H) <= m
  BY <1>2
<1>4. Word(0 - 1) = m
  <2>1. Word(0 - 1) = (0 - 1) % M
    BY DEF Word, M, Power
  <2>2. (0 - 1) % M = M - 1
    BY <1>2
  <2> QED
    BY <2>1, <2>2
<1> HIDE DEF m
<1>5. PICK h \in Positions : IsTop(h, m)
  BY <1>3, TopExists DEF M
<1>6. h + 1 = WordBits
  <2>1. h \in Nat /\ h <= H
    BY <1>1 DEF Positions
  <2>2. SUFFICES ASSUME h + 1 <= H PROVE FALSE
    BY <1>1, <2>1
  <2>3. Power(h + 1) <= Power(H) /\ Power(h + 1) \in Nat
    BY <1>1, <2>1, <2>2, PowersGrow, Powers
  <2>4. m < Power(h + 1)
    BY <1>5 DEF IsTop
  <2> QED
    BY <1>2, <1>3, <2>3, <2>4
<1>7. Word(Number(Smear(Bits(m))) + 1) = 0
  BY <1>3, <1>5, <1>6, SmearedIncremented
<1> QED
  BY <1>4, <1>7 DEF NextPowerOfTwo

(* The shifting and or-ing of NextPowerOfTwo rounds every word to the      *)
(* least power of two that is no less, whatever the width of words; zero,  *)
(* and what is larger than all powers in a word, to zero.                  *)
THEOREM Vector_RoundsToPower ==
    ASSUME NEW number \in Nat, number < ShiftedLeft(1, WordBits)
    PROVE  NextPowerOfTwo(number) = LeastPowerOfTwo(number)
<1> DEFINE powers == {p \in {ShiftedLeft(1, k) : k \in Positions} : p >= number}
<1>1. LeastPowerOfTwo(number) =
          IF number = 0 \/ powers = {} THEN 0
          ELSE CHOOSE p \in powers : \A q \in powers : p <= q
  BY DEF LeastPowerOfTwo
<1>2. WordBits \in Nat /\ \A k \in Positions : k \in Nat /\ k < WordBits
  BY VectorAssumption DEF Positions
<1>3. \A p : p \in powers <=> \E k \in Positions : p = Power(k) /\ p >= number
  BY DEF Power
<1> HIDE DEF powers
<1>4. CASE number = 0
  BY <1>1, <1>4, RoundsZero
<1>5. CASE number # 0
  <2>1. PICK g : NextPower(g, number)
    BY <1>5, RoundsNumber DEF Power
  <2>2. /\ g \in 0 .. WordBits /\ g \in Nat /\ number <= Power(g) /\ Power(g) \in Nat
        /\ \A j \in Nat : number <= Power(j) => g <= j
        /\ NextPowerOfTwo(number) = IF g = WordBits THEN 0 ELSE Power(g)
    BY <1>2, <2>1, Powers DEF NextPower
  <2>3. ASSUME NEW p \in powers
        PROVE  \E k \in Positions : p = Power(k) /\ g <= k /\ Power(g) <= p /\ p \in Nat
    <3>1. PICK k \in Positions : p = Power(k) /\ p >= number
      BY <1>3
    <3>2. k \in Nat /\ Power(k) \in Nat
      BY <1>2, Powers
    <3>3. g <= k
      BY <2>2, <3>1, <3>2
    <3>4. Power(g) <= Power(k)
      BY <2>2, <3>2, <3>3, PowersGrow
    <3> QED
      BY <3>1, <3>2, <3>3, <3>4
  <2>4. CASE g = WordBits
    <3>1. powers = {}
      <4>1. ASSUME NEW p \in powers PROVE FALSE
        BY <1>2, <2>2, <2>3, <2>4
      <4> QED
        BY <4>1
    <3> QED
      BY <1>1, <2>2, <2>4, <3>1
  <2>5. CASE g # WordBits
    <3>1. g \in Positions
      BY <1>2, <2>2, <2>5 DEF Positions
    <3>2. Power(g) \in powers
      BY <1>3, <2>2, <3>1
    <3> DEFINE least == CHOOSE p \in powers : \A q \in powers : p <= q
    <3>3. least \in powers /\ \A q \in powers : least <= q
      BY <2>3, <3>2
    <3>4. least = Power(g)
      BY <2>2, <2>3, <3>2, <3>3
    <3> QED
      BY <1>1, <1>5, <2>2, <2>5, <3>2, <3>4
  <2> QED
    BY <2>4, <2>5
<1> QED
  BY <1>4, <1>5

(* The highest position of a word.                                         *)
Highest == WordBits - 1

(* So sizes are not rounded down, unless they take more than half the      *)
(* range of a word.                                                        *)
LEMMA RoundsUp ==
    ASSUME NEW number \in Nat, number <= Power(Highest)
    PROVE  NextPowerOfTwo(number) \in Nat /\ number <= NextPowerOfTwo(number)
<1>1. WordBits \in Nat /\ Highest \in Nat /\ WordBits = Highest + 1
  BY VectorAssumption DEF Highest
<1>2. Power(Highest) \in Nat \ {0} /\ Power(WordBits) = 2 * Power(Highest)
  BY <1>1, Powers
<1>3. CASE number = 0
  BY <1>3, RoundsZero
<1>4. CASE number # 0
  <2>1. number < Power(WordBits)
    BY <1>2
  <2>2. PICK g : NextPower(g, number)
    BY <1>4, <2>1, RoundsNumber
  <2>3. g \in Nat /\ g <= Highest
    BY <1>1, <2>2 DEF NextPower
  <2>4. NextPowerOfTwo(number) = Power(g) /\ number <= Power(g)
    BY <1>1, <2>2, <2>3 DEF NextPower
  <2> QED
    BY <2>3, <2>4, Powers
<1> QED
  BY <1>3, <1>4

-----------------------------------------------------------------------------
(* A vector has room for as many elements as its size allows.              *)
Sized(vector) ==
    /\ vector \in [size : Nat, length : Nat]
    /\ vector.length = vector.size \div ElementSize

(* A vector that was set to a length is at least that long.                *)
LEMMA LengthSet ==
    ASSUME NEW vector, Sized(vector),
           NEW length \in Nat, length * ElementSize <= Power(Highest)
    PROVE  LET new == SetLength(vector, length) IN Sized(new) /\ length <= new.length
<1> DEFINE b == ElementSize
           number == length * b
           size == NextPowerOfTwo(Word(number))
           new == SetLength(vector, length)
<1>1. b \in Nat /\ b > 0 /\ number \in Nat
  BY VectorAssumption
<1>2. /\ WordBits \in Nat /\ Highest \in Nat /\ WordBits = Highest + 1
  BY VectorAssumption DEF Highest
<1>3. Power(Highest) \in Nat /\ Power(Highest) > 0 /\ Power(WordBits) = 2 * Power(Highest)
  BY <1>2, Powers
<1>4. Word(number) = number
  BY <1>1, <1>3 DEF Word, Power
<1>5. size \in Nat /\ number <= size
  BY <1>1, <1>4, RoundsUp
<1>6. new = IF size = vector.size THEN vector ELSE [size |-> size, length |-> size \div b]
  BY DEF SetLength
<1> HIDE DEF size, new
<1>7. size \div b \in Nat /\ size = b * (size \div b) + (size % b) /\ (size % b) \in 0 .. b - 1
  BY <1>1, <1>5
<1>8. length <= size \div b
  <2> DEFINE q == size \div b
             r == size % b
  <2>1. q \in Nat /\ size = b * q + r /\ r \in 0 .. b - 1 /\ length * b <= b * q + r
    BY <1>5, <1>7
  <2> HIDE DEF q, r
  <2>2. SUFFICES ASSUME q + 1 <= length PROVE FALSE
    BY <2>1 DEF q
  <2>3. b * (q + 1) <= b * length
    BY <1>1, <2>1, <2>2
  <2> QED
    BY <1>1, <2>1, <2>3
<1>9. Sized(new) /\ new.size = size
  BY <1>5, <1>6, <1>7 DEF Sized
<1> QED
  BY <1>8, <1>9 DEF Sized, new

-----------------------------------------------------------------------------
(* The segments that a number of nodes needs.                              *)
LEMMA RoundUp ==
    ASSUME NEW a \in Nat, NEW b \in Nat \ {0}
    PROVE  LET n == (a + b - 1) \div b IN
           n \in Nat /\ a <= n * b /\ \A s \in Nat : a <= s * b => n <= s
<1> DEFINE c == a + b - 1
           n == c \div b
<1>1. c \in Nat /\ b \in Nat /\ b > 0
  OBVIOUS
<1> HIDE DEF c
<1>2. n \in Nat /\ (c % b) \in 0 .. b - 1 /\ c = b * n + (c % b)
  BY <1>1
<1> HIDE DEF n
<1>3. a <= n * b
  BY <1>1, <1>2 DEF c
<1>4. ASSUME NEW s \in Nat, a <= s * b PROVE n <= s
  <2>1. SUFFICES ASSUME s + 1 <= n PROVE FALSE
    BY <1>2
  <2>2. b * (s + 1) <= b * n
    BY <1>1, <1>2, <2>1
  <2>3. b * (s + 1) = s * b + b /\ s * b \in Nat /\ b * n \in Nat
    BY <1>1, <1>2
  <2> QED
    BY <1>1, <1>2, <1>4, <2>2, <2>3 DEF c
<1> QED
  BY <1>2, <1>3, <1>4 DEF n, c

(* No more nodes are in the heap than there are.                           *)
LEMMA HeapCounts ==
    ASSUME HeapInv
    PROVE  /\ Cardinality(Nodes) \in Nat
           /\ numberOfNodes = Cardinality(DOMAIN key) /\ numberOfNodes \in Nat
           /\ numberOfNodes <= Cardinality(Nodes)
           /\ \A node \in Nodes \ DOMAIN key : numberOfNodes < Cardinality(Nodes)
<1>1. IsFiniteSet(Nodes) /\ Cardinality(Nodes) \in Nat
  BY SizeAssumption, FS_CardinalityType
<1>2. /\ slots \in Seq(Nodes) /\ DOMAIN key \subseteq Nodes
      /\ IsInjective(slots) /\ ToSet(slots) = DOMAIN key
  BY HeapInvMeans DEF SlotNumbersRight
<1>3. Len(slots) \in Nat /\ DOMAIN slots = 1 .. Len(slots)
  BY <1>2, LenProperties
<1>4. slots \in Surjection(1 .. Len(slots), DOMAIN key) /\ slots \in Injection(1 .. Len(slots), DOMAIN key)
  BY <1>2, <1>3 DEF Surjection, Injection, ToSet, IsInjective
<1>5. \A n \in Nat : IsFiniteSet(1 .. n) /\ Cardinality(1 .. n) = n
  BY FS_Interval
<1>6. Cardinality(DOMAIN key) = Len(slots)
  BY <1>3, <1>4, <1>5, FS_Surjection
<1>7. /\ Cardinality(DOMAIN key) <= Cardinality(Nodes)
      /\ Cardinality(DOMAIN key) = Cardinality(Nodes) => DOMAIN key = Nodes
  BY <1>1, <1>2, FS_Subset
<1> QED
  BY <1>1, <1>3, <1>6, <1>7 DEF numberOfNodes

(* SlotsExist is inductive with the types, the vector's size being what    *)
(* its length was computed from, and a bound on the segments, without      *)
(* which their number might not fit in a word.                             *)
SegmentsInv ==
    /\ numberOfSegments \in Nat
    /\ numberOfSlots = numberOfSegments * SegmentLength
    /\ numberOfNodes <= numberOfSlots
    /\ numberOfSegments <= Cardinality(Nodes)
    /\ Sized(segmentVector)
    /\ numberOfSegments <= segmentVector.length

LEMMA SegmentsMean ==
    ASSUME SegmentsInv
    PROVE  SlotsExist /\ {numberOfSegments, numberOfSlots} \subseteq Nat
<1> DEFINE b == ElementSize
           size == segmentVector.size
<1>1. SegmentLength \in Nat /\ b \in Nat /\ b > 0
  BY HeapAssumption, VectorAssumption
<1>2. size \in Nat /\ segmentVector.length = size \div b
  BY DEF SegmentsInv, Sized
<1> HIDE DEF b, size
<1>3. (size \div b) * b <= size
  <2>1. (size \div b) \in Nat /\ size = b * (size \div b) + (size % b) /\ (size % b) \in 0 .. b - 1
    BY <1>1, <1>2
  <2> QED
    BY <1>1, <1>2, <2>1
<1>4. numberOfSegments \in Nat /\ numberOfSlots = numberOfSegments * SegmentLength
  BY DEF SegmentsInv
<1>5. numberOfSlots \in Nat
  BY <1>1, <1>4
<1> QED
  BY <1>2, <1>3, <1>4, <1>5 DEF SegmentsInv, SlotsExist, size, b

(* One segment more than there are nodes still fits in a word.             *)
LEMMA LengthFits ==
    ASSUME NEW vector, Sized(vector), NEW n \in Nat, n <= Cardinality(Nodes) + 1
    PROVE  LET new == SetLength(vector, n) IN Sized(new) /\ n <= new.length
<1>1. Cardinality(Nodes) \in Nat /\ ElementSize \in Nat /\ WordBits \in Nat /\ WordBits > 0
  BY SizeAssumption, FS_CardinalityType, VectorAssumption
<1>2. (Cardinality(Nodes) + 1) * ElementSize <= Power(Highest)
  BY SizeAssumption DEF Power, Highest
<1>3. Power(Highest) \in Nat
  BY <1>1, Powers DEF Highest
<1>4. n * ElementSize <= (Cardinality(Nodes) + 1) * ElementSize
  BY <1>1
<1>5. n * ElementSize \in Nat /\ (Cardinality(Nodes) + 1) * ElementSize \in Nat
  BY <1>1
<1>6. n * ElementSize <= Power(Highest)
  BY <1>2, <1>3, <1>4, <1>5
<1> QED
  BY <1>6, LengthSet

LEMMA VectorRoomy ==
    ASSUME HeapInv, SegmentsInv, numberOfNodes = numberOfSlots
    PROVE  /\ Sized(RoomyVector)
           /\ numberOfSegments + 1 <= RoomyVector.length
           /\ numberOfSegments <= numberOfNodes
<1> DEFINE s == numberOfSegments
<1>1. s \in Nat /\ s <= Cardinality(Nodes) /\ Cardinality(Nodes) \in Nat
  BY HeapCounts DEF SegmentsInv
<1>2. s + 1 \in Nat /\ s + 1 <= Cardinality(Nodes) + 1
  BY <1>1
<1>3. Sized(segmentVector) /\ s <= segmentVector.length /\ segmentVector.length \in Nat
  BY DEF SegmentsInv, Sized
<1>4. LET new == SetLength(segmentVector, s + 1) IN Sized(new) /\ s + 1 <= new.length
  BY <1>2, <1>3, LengthFits
<1>5. SegmentLength \in Nat /\ SegmentLength >= 1 /\ numberOfNodes = s * SegmentLength
  BY HeapAssumption DEF SegmentsInv
<1>6. s <= s * SegmentLength
  BY <1>1, <1>5
<1> QED
  BY <1>1, <1>3, <1>4, <1>5, <1>6 DEF RoomyVector

LEMMA SegmentsInsert ==
    ASSUME HeapInv, SegmentsInv, NEW node \in Nodes, NEW k \in Keys, InsertNode(node, k)
    PROVE  SegmentsInv'
<1> DEFINE b == SegmentLength
           s == numberOfSegments
<1>1. /\ b \in Nat \ {0} /\ s \in Nat /\ numberOfNodes \in Nat
      /\ numberOfSlots = s * b /\ numberOfNodes <= s * b
  BY HeapAssumption, HeapCounts DEF SegmentsInv
<1>2. numberOfNodes' = numberOfNodes + 1
  BY HeapInserts DEF numberOfNodes
<1>3. (s + 1) * b = s * b + b /\ s * b \in Nat
  BY <1>1
<1>4. CASE numberOfNodes = numberOfSlots
  <2>1. /\ s' = s + 1 /\ numberOfSlots' = numberOfSlots + b
        /\ segmentVector' = RoomyVector
    BY <1>4 DEF InsertNode, IncreaseSegments
  <2>2. numberOfSlots' = s' * b
    BY <1>1, <1>3, <2>1
  <2>3. numberOfNodes < Cardinality(Nodes) /\ Cardinality(Nodes) \in Nat
    BY HeapCounts DEF InsertNode
  <2>4. /\ Sized(segmentVector') /\ s' <= segmentVector'.length
        /\ s <= numberOfNodes
    BY <1>4, <2>1, VectorRoomy
  <2>5. s' \in Nat /\ s' <= Cardinality(Nodes)
    BY <1>1, <2>1, <2>3, <2>4
  <2>6. numberOfNodes' <= numberOfSlots'
    BY <1>1, <1>2, <1>3, <1>4, <2>1
  <2> QED
    BY <2>2, <2>4, <2>5, <2>6 DEF SegmentsInv
<1>5. CASE numberOfNodes # numberOfSlots
  <2>1. UNCHANGED <<numberOfSegments, numberOfSlots, segmentVector>>
    BY <1>5 DEF InsertNode, segmentVars
  <2>2. numberOfNodes' <= numberOfSlots
    BY <1>1, <1>2, <1>3, <1>5
  <2> QED
    BY <2>1, <2>2 DEF SegmentsInv
<1> QED
  BY <1>4, <1>5

LEMMA SegmentsFail ==
    ASSUME HeapInv, SegmentsInv, InsertFails
    PROVE  SegmentsInv'
<1>1. /\ numberOfNodes = numberOfSlots /\ segmentVector' = RoomyVector
      /\ UNCHANGED <<slots, numberOfSegments, numberOfSlots>>
  BY DEF InsertFails
<1>2. Sized(RoomyVector) /\ numberOfSegments + 1 <= RoomyVector.length
  BY <1>1, VectorRoomy
<1>3. numberOfSegments \in Nat /\ RoomyVector.length \in Nat
  BY <1>2 DEF SegmentsInv, Sized
<1>4. numberOfSegments <= RoomyVector.length
  BY <1>2, <1>3
<1> QED
  BY <1>1, <1>2, <1>4 DEF SegmentsInv, numberOfNodes

LEMMA SegmentsShrink ==
    ASSUME HeapInv, SegmentsInv, ShrinkToFit
    PROVE  SegmentsInv'
<1> DEFINE b == SegmentLength
           s == numberOfSegments
           n == (numberOfNodes + b - 1) \div b
<1>1. /\ b \in Nat \ {0} /\ s \in Nat /\ numberOfNodes \in Nat
      /\ Cardinality(Nodes) \in Nat /\ s <= Cardinality(Nodes)
      /\ numberOfSlots = s * b /\ numberOfNodes <= s * b
  BY HeapAssumption, HeapCounts DEF SegmentsInv
<1>2. n \in Nat /\ numberOfNodes <= n * b /\ n <= s
  BY <1>1, RoundUp
<1>3. /\ s' = IF s > n THEN n ELSE s
      /\ numberOfSlots' = IF s > n THEN n * b ELSE numberOfSlots
      /\ segmentVector' = SetLength(segmentVector, n) \/ segmentVector' = segmentVector
      /\ slots' = slots
  BY DEF ShrinkToFit
<1> HIDE DEF n
<1>4. s' = n /\ numberOfSlots' = n * b /\ numberOfNodes' = numberOfNodes
  BY <1>1, <1>2, <1>3 DEF numberOfNodes
<1>5. n <= Cardinality(Nodes) /\ n <= Cardinality(Nodes) + 1
  BY <1>1, <1>2
<1>6. /\ Sized(segmentVector) /\ s <= segmentVector.length
      /\ segmentVector.length \in Nat
  BY DEF SegmentsInv, Sized
<1>7. LET new == SetLength(segmentVector, n) IN Sized(new) /\ n <= new.length
  BY <1>2, <1>5, <1>6, LengthFits
<1>8. n <= segmentVector.length
  BY <1>1, <1>2, <1>6
<1>9. Sized(segmentVector') /\ n <= segmentVector'.length
  BY <1>3, <1>6, <1>7, <1>8
<1> QED
  BY <1>2, <1>4, <1>5, <1>9 DEF SegmentsInv

(* All other steps leave the segments alone and do not add nodes.          *)
LEMMA SegmentsStay ==
    ASSUME SegmentsInv, UNCHANGED segmentVars,
           numberOfNodes \in Nat, numberOfNodes' \in Nat, numberOfNodes' <= numberOfNodes
    PROVE  SegmentsInv'
<1>1. numberOfSlots \in Nat /\ numberOfNodes <= numberOfSlots
  BY SegmentsMean DEF SegmentsInv
<1>2. numberOfNodes' <= numberOfSlots
  BY <1>1
<1> QED
  BY <1>2 DEF SegmentsInv, segmentVars

LEMMA SegmentsStart ==
    ASSUME HeapInit
    PROVE  SegmentsInv
<1>1. /\ numberOfNodes = 0 /\ numberOfSegments = 0 /\ numberOfSlots = 0
      /\ segmentVector = [size |-> 0, length |-> 0]
  BY EmptySeq DEF HeapInit, numberOfNodes, EmptyVector
<1>2. SegmentLength \in Nat /\ ElementSize \in Nat \ {0} /\ Cardinality(Nodes) \in Nat
  BY HeapAssumption, VectorAssumption, SizeAssumption, FS_CardinalityType
<1>3. 0 \div ElementSize = 0
  BY <1>2
<1> QED
  BY <1>1, <1>2, <1>3 DEF SegmentsInv, Sized

LEMMA SegmentsSteps ==
    ASSUME HeapInv, SegmentsInv, [HeapNext]_heapVars
    PROVE  SegmentsInv'
<1>1. numberOfNodes \in Nat /\ numberOfNodes' \in Nat
  <2>1. HeapInv'
    BY HeapSteps
  <2>2. slots \in Seq(Nodes) /\ slots' \in Seq(Nodes)
    BY <2>1 DEF HeapInv, Holds, Heaps, currentHeap
  <2> QED
    BY <2>2, LenProperties DEF numberOfNodes
<1>2. ASSUME NEW node \in Nodes, RemoveNode(node) PROVE SegmentsInv'
  <2>1. numberOfNodes' = numberOfNodes - 1 /\ UNCHANGED segmentVars
    BY <1>2, HeapRemoves DEF RemoveNode, numberOfNodes
  <2>2. numberOfNodes' <= numberOfNodes
    BY <1>1, <2>1
  <2> QED
    BY <1>1, <2>1, <2>2, SegmentsStay
<1>3. ASSUME NEW node \in Nodes, NEW k \in Keys, AdjustNode(node, k) PROVE SegmentsInv'
  <2>1. numberOfNodes' = numberOfNodes /\ UNCHANGED segmentVars
    BY <1>3, HeapAdjusts DEF AdjustNode, numberOfNodes
  <2>2. numberOfNodes' <= numberOfNodes
    BY <1>1, <2>1
  <2> QED
    BY <1>1, <2>1, <2>2, SegmentsStay
<1>4. CASE UNCHANGED heapVars
  <2>1. numberOfNodes' = numberOfNodes /\ UNCHANGED segmentVars
    BY <1>4 DEF heapVars, numberOfNodes
  <2>2. numberOfNodes' <= numberOfNodes
    BY <1>1, <2>1
  <2> QED
    BY <1>1, <2>1, <2>2, SegmentsStay
<1> QED
  BY <1>2, <1>3, <1>4, SegmentsInsert, SegmentsFail, SegmentsShrink DEF HeapNext

(* The slot of every node lies in a segment that is there, and the pointer *)
(* to every segment in the vector, for any number of nodes whose segments' *)
(* pointers do not fill half the memory, after the heap has grown, shrunk, *)
(* and failed to do either.                                                *)
THEOREM Heap_SlotsExist == HeapSpec => []SlotsExist
<1> DEFINE Inv == HeapInv /\ SegmentsInv
<1>1. HeapInit => Inv
  BY HeapStarts, SegmentsStart
<1>2. Inv /\ [HeapNext]_heapVars => Inv'
  BY HeapSteps, SegmentsSteps
<1>3. Inv => SlotsExist
  BY SegmentsMean
<1> QED
  BY <1>1, <1>2, <1>3, PTL DEF HeapSpec

-----------------------------------------------------------------------------
(* The top, which is all the timer looks at, has the least key.            *)
LEMMA TopIsLeast ==
    ASSUME NEW heap, NEW nodes, Holds(heap, nodes), heap.array # <<>>,
           NEW keys, Comparable(nodes, keys), Ordered(heap.array, keys)
    PROVE  /\ Slot(heap.array, 0) \in nodes
           /\ \A node \in nodes : keys[Slot(heap.array, 0)] <= keys[node]
<1> DEFINE n == Len(heap.array)
           K(x) == KeyAt(heap.array, x, keys)
           T == {x \in 0 .. n - 1 : ~(K(0) <= K(x))}
<1>1. heap.array \in Seq(Nodes) /\ ToSet(heap.array) = nodes
  BY DEF Holds, Heaps
<1>2. n \in Nat /\ n # 0
  BY <1>1, LenProperties, EmptySeq
<1>3. 0 \in 0 .. n - 1
  BY <1>2
<1>4. \A x \in 0 .. n - 1 : Slot(heap.array, x) \in nodes /\ K(x) \in Int
  BY HeldKeys
<1>5. \A x \in 1 .. n - 1 : K(Parent(x)) <= K(x)
  BY DEF Ordered
<1> HIDE DEF n, K
<1>6. T = {}
  <2> SUFFICES ASSUME T # {} PROVE FALSE
    OBVIOUS
  <2>1. T \in SUBSET Nat
    OBVIOUS
  <2>2. PICK m \in T : \A x \in T : m <= x
    BY <2>1, LeastNumber
  <2>3. m \in 0 .. n - 1 /\ ~(K(0) <= K(m))
    OBVIOUS
  <2>4. m # 0
    BY <1>3, <1>4, <2>3
  <2>5. m \in 1 .. n - 1 /\ m \in Nat
    BY <2>3, <2>4
  <2>6. Parent(m) \in 0 .. m - 1
    BY <2>4, <2>5, Parents
  <2>7. Parent(m) \in 0 .. n - 1 /\ ~(m <= Parent(m))
    BY <1>2, <2>5, <2>6
  <2>8. K(0) <= K(Parent(m))
    BY <2>2, <2>7
  <2> QED
    BY <1>3, <1>4, <1>5, <2>3, <2>5, <2>7, <2>8
<1>7. \A x \in 0 .. n - 1 : K(0) <= K(x)
  BY <1>6
<1>8. ASSUME NEW node \in nodes PROVE K(0) <= keys[node]
  <2>1. PICK x \in 0 .. n - 1 : node = Slot(heap.array, x)
    BY <1>1, SlotsOf DEF n
  <2> QED
    BY <1>7, <2>1 DEF K, KeyAt
<1> QED
  BY <1>3, <1>4, <1>8 DEF K, KeyAt

(* The calls of the timeouts fired so far and the heap of the others: the  *)
(* calls are of timeouts that are due, each once, the earlier ones first,  *)
(* and none of the others is earlier.                                      *)
DueFirst(firing) ==
    LET called == firing.calls IN
    /\ firing \in Firings
    /\ Holds(firing.heap, Pending \ ToSet(called))
    /\ Ordered(firing.heap.array, key)
    /\ IsInjective(called)
    /\ \A i \in DOMAIN called : called[i] \in Pending /\ key[called[i]] <= now
    /\ \A i, j \in DOMAIN called : i < j => key[called[i]] <= key[called[j]]
    /\ \A i \in DOMAIN called : \A timeout \in Pending \ ToSet(called) :
          key[called[i]] <= key[timeout]

NoneDue(firing) ==
    firing.heap.array = <<>> \/ key[Slot(firing.heap.array, 0)] > now

LEMMA FireTopKeeps ==
    ASSUME Comparable(Pending, key), now \in Int,
           NEW firing, DueFirst(firing), ~NoneDue(firing)
    PROVE  /\ DueFirst(FireTop(firing))
           /\ Len(FireTop(firing).heap.array) = Len(firing.heap.array) - 1
<1> DEFINE heap == firing.heap
           called == firing.calls
           rest == Pending \ ToSet(called)
           top == Slot(heap.array, 0)
           new == Removed(heap, top, key)
           next == Append(called, top)
           n == Len(called)
<1>1. /\ Holds(heap, rest) /\ Ordered(heap.array, key) /\ heap.array # <<>>
      /\ called \in Seq(Nodes) /\ IsInjective(called) /\ key[top] <= now
  <2>1. /\ Holds(heap, rest) /\ Ordered(heap.array, key)
        /\ called \in Seq(Nodes) /\ IsInjective(called)
    BY DEF DueFirst, Firings
  <2>2. heap.array # <<>> /\ ~(key[top] > now)
    BY DEF NoneDue
  <2>3. Comparable(rest, key)
    BY DEF Comparable
  <2>4. key[top] \in Int
    BY <2>1, <2>2, <2>3, TopIsLeast DEF Comparable
  <2> QED
    BY <2>1, <2>2, <2>4
<1>2. Comparable(rest, key)
  BY DEF Comparable
<1>3. top \in rest /\ \A timeout \in rest : key[top] <= key[timeout]
  BY <1>1, <1>2, TopIsLeast
<1>4. FireTop(firing) = [heap |-> new, calls |-> next]
  BY DEF FireTop, NoneDue
<1>5. Holds(new, rest \ {top}) /\ Ordered(new.array, key) /\ Len(new.array) = Len(heap.array) - 1
  BY <1>1, <1>2, <1>3, RemovedOrders
<1>6. top \in Nodes
  BY <1>1, <1>3, SlotOfNode
<1> HIDE DEF new, top
<1>7. /\ next \in Seq(Nodes) /\ IsInjective(next)
      /\ ToSet(next) = ToSet(called) \cup {top}
  BY <1>1, <1>3, <1>6, ListInsertBack
<1>8. /\ DOMAIN called = 1 .. n /\ DOMAIN next = 1 .. n + 1 /\ n \in Nat
      /\ \A i \in 1 .. n : next[i] = called[i]
      /\ next[n + 1] = top
  BY <1>1, <1>6, AppendProperties, LenProperties
<1> HIDE DEF next, n
<1>9. \A i \in DOMAIN next : i \in DOMAIN called \/ i = n + 1
  BY <1>8
<1>10. Pending \ ToSet(next) = rest \ {top}
  BY <1>7
<1>11. [heap |-> new, calls |-> next] \in Firings
  BY <1>5, <1>7 DEF Firings, Holds, Heaps
<1>12. \A i \in DOMAIN next : next[i] \in Pending /\ key[next[i]] <= now
  BY <1>1, <1>3, <1>8, <1>9 DEF DueFirst
<1>13. ASSUME NEW i \in DOMAIN next, NEW timeout \in rest PROVE key[next[i]] <= key[timeout]
  BY <1>3, <1>8, <1>9 DEF DueFirst
<1>14. ASSUME NEW i \in DOMAIN next, NEW j \in DOMAIN next, i < j
       PROVE  key[next[i]] <= key[next[j]]
  <2>1. i \in DOMAIN called
    BY <1>8, <1>9, <1>14
  <2>2. CASE j \in DOMAIN called
    BY <1>8, <1>14, <2>1, <2>2 DEF DueFirst
  <2>3. CASE j = n + 1
    BY <1>3, <1>8, <1>13, <2>3
  <2> QED
    BY <1>9, <2>2, <2>3
<1> DEFINE fired == [heap |-> new, calls |-> next]
<1>15. fired.heap = new /\ fired.calls = next
  OBVIOUS
<1>16. Holds(new, Pending \ ToSet(next))
  BY <1>5, <1>10
<1>17. \A i \in DOMAIN next : \A timeout \in Pending \ ToSet(next) :
            key[next[i]] <= key[timeout]
  BY <1>10, <1>13
<1> HIDE DEF fired
<1>18. DueFirst(fired)
  BY <1>5, <1>7, <1>11, <1>12, <1>14, <1>15, <1>16, <1>17 DEF DueFirst, fired
<1> QED
  BY <1>4, <1>5, <1>15, <1>18 DEF fired

(* The loop of Timer_Tick: each round takes a node out of the heap, so it  *)
(* has ended when the rounds are as many as the nodes were.                *)
LEMMA FireDueFires ==
    ASSUME HeapInv, now \in Int
    PROVE  /\ DueFirst(FireDue)
           /\ ToSet(FireDue.calls) = {timeout \in Pending : key[timeout] <= now}
<1> DEFINE n == numberOfNodes
           start == [heap |-> currentHeap, calls |-> <<>>]
           once == [firing \in Firings |-> FireTop(firing)]
           Good(i, f) == DueFirst(f) /\ (Len(f.heap.array) + i <= n \/ NoneDue(f))
           P == [i \in 0 .. n |-> {f \in Firings : Good(i, f)}]
<1>1. /\ Comparable(Pending, key) /\ Holds(currentHeap, Pending)
      /\ Ordered(currentHeap.array, key) /\ currentHeap.array = slots
      /\ slots \in Seq(Nodes) /\ n \in Nat
  BY HeapInvMeans, LenProperties DEF HeapInv, Pending, numberOfNodes
<1>2. start \in P[0]
  <2>1. <<>> \in Seq(Nodes) /\ ToSet(<<>>) = {} /\ IsInjective(<<>>) /\ DOMAIN <<>> = {}
    <3>1. <<>> \in Seq(Nodes) /\ Len(<<>>) = 0 /\ DOMAIN <<>> = {}
      BY EmptySeq
    <3> QED
      BY <3>1, ListEmpty
  <2>2. start \in Firings
    BY <1>1, <2>1 DEF Firings, Holds, Heaps
  <2>3. start.heap = currentHeap /\ start.calls = <<>>
    OBVIOUS
  <2>4. Pending \ {} = Pending
    OBVIOUS
  <2> HIDE DEF start
  <2>5. DueFirst(start)
    BY <1>1, <2>1, <2>2, <2>3, <2>4 DEF DueFirst
  <2>6. Len(start.heap.array) + 0 <= n
    BY <1>1, <2>3 DEF numberOfNodes
  <2>7. 0 \in 0 .. n
    BY <1>1
  <2> QED
    BY <2>2, <2>5, <2>6, <2>7
<1> HIDE DEF n
<1>3. ASSUME NEW i \in 0 .. n, i # n, NEW f \in P[i] PROVE once[f] \in P[i + 1]
  <2>1. f \in Firings /\ Good(i, f)
    BY <1>3
  <2>2. once[f] = FireTop(f)
    BY <2>1
  <2>3. i + 1 \in 0 .. n
    BY <1>1, <1>3
  <2>4. CASE NoneDue(f)
    <3>1. FireTop(f) = f
      BY <2>4 DEF NoneDue, FireTop
    <3>2. Good(i + 1, f)
      BY <2>1, <2>4
    <3> HIDE DEF once, Good
    <3> QED
      BY <2>1, <2>2, <2>3, <3>1, <3>2
  <2>5. CASE ~NoneDue(f)
    <3> DEFINE g == FireTop(f)
    <3>1. DueFirst(g) /\ Len(g.heap.array) = Len(f.heap.array) - 1
      BY <1>1, <2>1, <2>5, FireTopKeeps
    <3> HIDE DEF g
    <3>2. g \in Firings /\ Len(g.heap.array) \in Nat /\ Len(f.heap.array) \in Nat
      BY <2>1, <3>1, LenProperties DEF DueFirst, Firings
    <3>3. Len(g.heap.array) + (i + 1) <= n
      <4> DEFINE had == Len(f.heap.array)
                 has == Len(g.heap.array)
      <4>1. had + i <= n /\ i \in Nat /\ n \in Nat
        BY <1>1, <2>1, <2>5
      <4>2. has = had - 1 /\ had \in Nat
        BY <3>1, <3>2
      <4> HIDE DEF has, had
      <4>3. has + (i + 1) <= n
        BY <4>1, <4>2
      <4> QED
        BY <4>3 DEF has
    <3>4. Good(i + 1, g)
      BY <3>1, <3>3
    <3> HIDE DEF once, Good
    <3> QED
      BY <2>2, <2>3, <3>2, <3>4 DEF g
  <2> QED
    BY <2>4, <2>5
<1>4. FireDue \in P[n]
  <2>1. FireDue = Repeated(once, start, n)
    BY DEF FireDue, n
  <2> HIDE DEF P, once, start
  <2>2. \A i \in 0 .. n : i # n => \A f \in P[i] : once[f] \in P[i + 1]
    BY <1>3
  <2> QED
    BY <1>1, <1>2, <2>1, <2>2, RepeatedKeeps, Zenon
<1> DEFINE end == FireDue
           rest == Pending \ ToSet(end.calls)
<1> HIDE DEF end
<1>5. DueFirst(end) /\ (Len(end.heap.array) + n <= n \/ NoneDue(end))
  BY <1>1, <1>4 DEF end
<1>6. /\ Holds(end.heap, rest) /\ Ordered(end.heap.array, key)
      /\ end.heap.array \in Seq(Nodes) /\ Comparable(rest, key)
  BY <1>1, <1>5 DEF DueFirst, Firings, Comparable
<1>7. NoneDue(end)
  <2>1. Len(end.heap.array) \in Nat
    BY <1>6, LenProperties
  <2>2. Len(end.heap.array) + n <= n => Len(end.heap.array) = 0
    BY <1>1, <2>1
  <2> QED
    BY <1>5, <1>6, <2>2, EmptySeq DEF NoneDue
<1>8. ASSUME NEW timeout \in rest PROVE key[timeout] > now
  <2>1. CASE end.heap.array = <<>>
    BY <1>6, <1>8, <2>1, ListEmpty DEF Holds
  <2>2. CASE end.heap.array # <<>>
    <3> DEFINE top == Slot(end.heap.array, 0)
    <3>1. top \in rest /\ key[top] <= key[timeout]
      BY <1>6, <1>8, <2>2, TopIsLeast
    <3>2. key[top] > now
      BY <1>7, <2>2 DEF NoneDue
    <3>3. key[top] \in Int /\ key[timeout] \in Int
      BY <1>1, <3>1 DEF Comparable
    <3> HIDE DEF top
    <3> QED
      BY <3>1, <3>2, <3>3
  <2> QED
    BY <2>1, <2>2
<1>9. ASSUME NEW timeout \in ToSet(end.calls)
      PROVE  timeout \in Pending /\ key[timeout] <= now
  <2>1. PICK i \in DOMAIN end.calls : timeout = end.calls[i]
    BY DEF ToSet
  <2> QED
    BY <1>5, <2>1 DEF DueFirst
<1>10. \A timeout \in Pending : key[timeout] \in Int
  BY <1>1 DEF Comparable
<1>11. ToSet(end.calls) = {timeout \in Pending : key[timeout] <= now}
  BY <1>8, <1>9, <1>10
<1> QED
  BY <1>5, <1>11 DEF end

(* Types, and with HeapInv the inductive invariant of the timer.           *)
TimerInv ==
    /\ HeapInv
    /\ now \in 0 .. MaxTime
    /\ phase \in {"run", "dispatch"}
    /\ calls \in Seq(Nodes)

LEMMA TimerTicks ==
    ASSUME TimerInv, TimerTick
    PROVE  /\ TimerInv'
           /\ ToSet(calls') = {timeout \in Pending : key[timeout] <= now}
           /\ IsInjective(calls')
           /\ \A i, j \in DOMAIN calls' : i < j => key[calls'[i]] <= key[calls'[j]]
           /\ ToSet(slots') = Pending \ ToSet(calls')
           /\ key' = [timeout \in ToSet(slots') |-> key[timeout]]
<1> DEFINE end == FireDue
<1>1. now \in Int /\ HeapInv
  BY TimerAssumption DEF TimerInv
<1>2. /\ phase = "dispatch" /\ phase' = "run" /\ Becomes(end.heap) /\ calls' = end.calls
      /\ key' = [timeout \in ToSet(slots') |-> key[timeout]] /\ now' = now
  BY DEF TimerTick
<1>3. DueFirst(end) /\ ToSet(end.calls) = {timeout \in Pending : key[timeout] <= now}
  BY <1>1, FireDueFires
<1> HIDE DEF end
<1>4. /\ Holds(end.heap, Pending \ ToSet(calls')) /\ Ordered(end.heap.array, key)
      /\ IsInjective(calls') /\ calls' \in Seq(Nodes)
      /\ \A i, j \in DOMAIN calls' : i < j => key[calls'[i]] <= key[calls'[j]]
  BY <1>2, <1>3 DEF DueFirst, Firings
<1>5. slots' = end.heap.array /\ ToSet(slots') = Pending \ ToSet(calls')
  BY <1>2, <1>4 DEF Holds, Becomes
<1>6. /\ DOMAIN key' = Pending \ ToSet(calls')
      /\ \A timeout \in DOMAIN key' : key'[timeout] = key[timeout]
  BY <1>2, <1>5
<1>7. Ordered(end.heap.array, key')
  BY <1>4, <1>6, OrderedAlike
<1>8. \A timeout \in DOMAIN key' : key'[timeout] \in Keys
  BY <1>1, <1>6 DEF HeapInv, Pending
<1>9. HeapInv'
  BY <1>2, <1>4, <1>6, <1>7, <1>8, HeapBecomes
<1> QED
  BY <1>2, <1>3, <1>4, <1>5, <1>9 DEF TimerInv

LEMMA TimerSets ==
    ASSUME TimerInv, NEW timeout \in Nodes, NEW delay \in Delays, SetTimeout(timeout, delay)
    PROVE  /\ TimerInv'
           /\ timeout \notin Pending /\ Pending' = Pending \cup {timeout}
           /\ key'[timeout] = Never <=> delay < 0
           /\ \A other \in Pending : key'[other] = key[other]
<1> DEFINE due == IF delay >= 0 THEN now + delay ELSE Never
<1>1. /\ now \in 0 .. MaxTime /\ MaxTime \in Nat /\ delay \in Int /\ Never = MaxTime + 1
      /\ Keys = 0 .. Never /\ HeapInv
  BY TimerAssumption DEF TimerInv, Never
<1>2. /\ delay >= 0 => now + delay <= MaxTime
      /\ InsertNode(timeout, due)
      /\ now' = now /\ phase' = phase /\ calls' = calls
  BY DEF SetTimeout
<1>3. due \in Keys /\ (due = Never <=> delay < 0)
  BY <1>1, <1>2
<1> HIDE DEF due
<1>4. /\ HeapInv' /\ Pending' = Pending \cup {timeout} /\ key'[timeout] = due
      /\ \A other \in Pending : key'[other] = key[other]
  BY <1>1, <1>2, <1>3, HeapInserts DEF Pending
<1>5. timeout \notin Pending
  BY <1>2 DEF InsertNode, Pending
<1> QED
  BY <1>2, <1>3, <1>4, <1>5 DEF TimerInv

LEMMA TimerClears ==
    ASSUME TimerInv, NEW timeout \in Nodes, ClearTimeout(timeout)
    PROVE  TimerInv'
<1>1. RemoveNode(timeout) /\ now' = now /\ phase' = phase /\ calls' = calls
  BY DEF ClearTimeout
<1>2. HeapInv'
  BY <1>1, HeapRemoves DEF TimerInv
<1> QED
  BY <1>1, <1>2 DEF TimerInv

LEMMA HeapStays ==
    ASSUME HeapInv, UNCHANGED <<slots, slotNumber, key>>
    PROVE  HeapInv'
  BY DEF HeapInv, currentHeap

(* The wait is over before anything pending is overdue.                    *)
LEMMA TimerWaits ==
    ASSUME TimerInv, IOPollerTick
    PROVE  /\ TimerInv'
           /\ UNCHANGED <<key, calls>>
           /\ \A timeout \in Pending : key[timeout] < now' => key[timeout] < now
<1> DEFINE top == Slot(slots, 0)
<1>1. /\ now \in 0 .. MaxTime /\ MaxTime \in Nat /\ Never = MaxTime + 1
      /\ Keys = 0 .. Never /\ HeapInv
  BY TimerAssumption DEF TimerInv, Never
<1>2. /\ phase' = "dispatch"
      /\ now' \in now .. (IF CalculateWaitTime = -1 THEN MaxTime ELSE now + CalculateWaitTime)
      /\ UNCHANGED <<slots, slotNumber, key, calls>>
  BY DEF IOPollerTick, heapVars
<1>3. ASSUME slots # <<>>
      PROVE  /\ top \in Pending /\ key[top] \in 0 .. Never
             /\ \A timeout \in Pending : key[timeout] \in 0 .. Never /\ key[top] <= key[timeout]
  <2>1. /\ Holds(currentHeap, Pending) /\ Comparable(Pending, key)
        /\ Ordered(currentHeap.array, key) /\ currentHeap.array = slots
    BY <1>1, HeapInvMeans DEF HeapInv, Pending
  <2>2. top \in Pending /\ \A timeout \in Pending : key[top] <= key[timeout]
    BY <1>3, <2>1, TopIsLeast
  <2>3. \A timeout \in Pending : key[timeout] \in 0 .. Never
    BY <1>1 DEF HeapInv, Pending
  <2> QED
    BY <2>2, <2>3
<1> HIDE DEF top
<1>4. slots = <<>> => Pending = {}
  BY <1>1, HeapInvMeans, EmptySeq DEF SlotNumbersRight, Pending, ToSet
<1>5. slots # <<>> => CalculateWaitTime = IF key[top] = Never THEN -1
                                          ELSE IF key[top] <= now THEN 0 ELSE key[top] - now
  BY DEF CalculateWaitTime, top
<1>6. slots = <<>> => CalculateWaitTime = -1
  BY DEF CalculateWaitTime
<1>7. now' \in 0 .. MaxTime
  BY <1>1, <1>2, <1>3, <1>5, <1>6
<1>8. ASSUME NEW timeout \in Pending, key[timeout] < now' PROVE key[timeout] < now
  <2>1. slots # <<>>
    BY <1>4
  <2>2. /\ key[top] \in 0 .. Never /\ key[timeout] \in 0 .. Never
        /\ key[top] <= key[timeout]
    BY <1>3, <2>1
  <2>3. key[top] # Never
    BY <1>1, <1>7, <1>8, <2>2
  <2>4. CASE key[top] <= now
    <3>1. CalculateWaitTime = 0
      BY <1>5, <2>1, <2>3, <2>4
    <3> QED
      BY <1>1, <1>2, <1>8, <3>1
  <2>5. CASE ~(key[top] <= now)
    <3>1. CalculateWaitTime = key[top] - now /\ key[top] - now # -1
      BY <1>1, <1>5, <2>1, <2>2, <2>3, <2>5
    <3>2. now' <= key[top]
      BY <1>1, <1>2, <2>2, <3>1
    <3> QED
      BY <1>1, <1>7, <1>8, <2>2, <3>2
  <2> QED
    BY <2>4, <2>5
<1>9. HeapInv'
  BY <1>1, <1>2, HeapStays
<1> QED
  BY <1>2, <1>7, <1>8, <1>9 DEF TimerInv

LEMMA TimerStarts ==
    ASSUME Init
    PROVE  TimerInv
<1>1. 0 \in 0 .. MaxTime
  BY TimerAssumption
<1>2. <<>> \in Seq(Nodes)
  BY EmptySeq
<1> QED
  BY <1>1, <1>2, HeapStarts DEF Init, TimerInv

LEMMA TimerSteps ==
    ASSUME TimerInv, [Next]_vars
    PROVE  TimerInv'
<1>1. ASSUME NEW timeout \in Nodes, ClearTimeout(timeout) PROVE TimerInv'
  BY <1>1, TimerClears
<1>2. ASSUME NEW timeout \in Nodes, NEW delay \in Delays, SetTimeout(timeout, delay)
      PROVE  TimerInv'
  BY <1>2, TimerSets
<1>3. CASE SetTimeoutFails
  <2>1. UNCHANGED <<slots, slotNumber, key, now, phase, calls>>
    BY <1>3 DEF SetTimeoutFails, InsertFails
  <2> QED
    BY <2>1, HeapStays DEF TimerInv
<1>4. CASE IOPollerTick
  BY <1>4, TimerWaits
<1>5. CASE TimerTick
  BY <1>5, TimerTicks
<1>6. CASE TimePasses
  <2>1. UNCHANGED <<slots, slotNumber, key, phase, calls>> /\ now < MaxTime /\ now' = now + 1
    BY <1>6 DEF TimePasses, heapVars
  <2>2. now' \in 0 .. MaxTime
    BY <2>1, TimerAssumption DEF TimerInv
  <2> QED
    BY <2>1, <2>2, HeapStays DEF TimerInv
<1>7. CASE UNCHANGED vars
  <2>1. UNCHANGED <<slots, slotNumber, key, now, phase, calls>>
    BY <1>7 DEF vars, heapVars
  <2> QED
    BY <2>1, HeapStays DEF TimerInv
<1> QED
  BY <1>1, <1>2, <1>3, <1>4, <1>5, <1>6, <1>7 DEF Next

LEMMA Timer_Inv == Spec => []TimerInv
<1>1. Init => TimerInv
  BY TimerStarts
<1>2. TimerInv /\ [Next]_vars => TimerInv'
  BY TimerSteps
<1> QED
  BY <1>1, <1>2, PTL DEF Spec

(* Below the event loop the heap stays in order.                           *)
THEOREM Timer_HeapOrdered == Spec => [](HeapOrdered /\ SlotNumbersRight)
<1>1. TimerInv => HeapOrdered /\ SlotNumbersRight
  BY HeapInvMeans DEF TimerInv
<1> QED
  BY <1>1, Timer_Inv, PTL

(* The timer sets timeouts by InsertNode, and all its other steps leave    *)
(* the segments alone.                                                     *)
LEMMA TimerSegments ==
    ASSUME TimerInv, SegmentsInv, [Next]_vars
    PROVE  SegmentsInv'
<1>1. HeapInv /\ HeapInv'
  BY TimerSteps DEF TimerInv
<1>2. numberOfNodes \in Nat /\ numberOfNodes' \in Nat
  <2>1. slots \in Seq(Nodes) /\ slots' \in Seq(Nodes)
    BY <1>1 DEF HeapInv, Holds, Heaps, currentHeap
  <2> QED
    BY <2>1, LenProperties DEF numberOfNodes
<1>3. ASSUME UNCHANGED segmentVars, numberOfNodes' <= numberOfNodes PROVE SegmentsInv'
  BY <1>2, <1>3, SegmentsStay
<1>4. ASSUME NEW timeout \in Nodes, ClearTimeout(timeout) PROVE SegmentsInv'
  <2>1. RemoveNode(timeout)
    BY <1>4 DEF ClearTimeout
  <2>2. numberOfNodes' = numberOfNodes - 1 /\ UNCHANGED segmentVars
    BY <1>1, <2>1, HeapRemoves DEF RemoveNode, numberOfNodes
  <2>3. numberOfNodes' <= numberOfNodes
    BY <1>2, <2>2
  <2> QED
    BY <1>3, <2>2, <2>3
<1>5. ASSUME NEW timeout \in Nodes, NEW delay \in Delays, SetTimeout(timeout, delay)
      PROVE  SegmentsInv'
  <2> DEFINE due == IF delay >= 0 THEN now + delay ELSE Never
  <2>1. /\ now \in 0 .. MaxTime /\ MaxTime \in Nat /\ delay \in Int
        /\ Keys = 0 .. Never /\ Never = MaxTime + 1
    BY TimerAssumption DEF TimerInv, Never
  <2>2. InsertNode(timeout, due) /\ (delay >= 0 => now + delay <= MaxTime)
    BY <1>5 DEF SetTimeout
  <2>3. due \in Keys
    BY <2>1, <2>2
  <2> HIDE DEF due
  <2> QED
    BY <1>1, <2>2, <2>3, SegmentsInsert
<1>6. CASE SetTimeoutFails
  BY <1>1, <1>6, SegmentsFail DEF SetTimeoutFails
<1>7. CASE TimerTick
  <2>1. UNCHANGED segmentVars /\ ToSet(slots') = Pending \ ToSet(calls')
    BY <1>7, TimerTicks DEF TimerTick
  <2>2. numberOfNodes = Cardinality(DOMAIN key)
    BY <1>1, HeapCounts
  <2>3. IsInjective(slots') /\ slots' \in Seq(Nodes)
    BY <1>1 DEF HeapInv, Holds, Heaps, currentHeap
  <2>4. numberOfNodes' <= Cardinality(DOMAIN key)
    <3> DEFINE n == Len(slots')
    <3>1. n \in Nat /\ DOMAIN slots' = 1 .. n
      BY <2>3, LenProperties
    <3>2. slots' \in Injection(1 .. n, DOMAIN key)
      BY <2>1, <2>3, <3>1 DEF Injection, ToSet, IsInjective, Pending
    <3>3. IsFiniteSet(DOMAIN key)
      BY <1>1, HeapInvMeans, SizeAssumption, FS_Subset
    <3>4. \A m \in Nat : Cardinality(1 .. m) = m
      BY FS_Interval
    <3>5. Cardinality(1 .. n) <= Cardinality(DOMAIN key)
      BY <3>2, <3>3, FS_Injection
    <3> QED
      BY <3>1, <3>4, <3>5 DEF numberOfNodes
  <2> QED
    BY <1>3, <2>1, <2>2, <2>4
<1>8. CASE IOPollerTick \/ TimePasses \/ UNCHANGED vars
  <2>1. numberOfNodes' = numberOfNodes /\ UNCHANGED segmentVars
    BY <1>8 DEF IOPollerTick, TimePasses, vars, heapVars, numberOfNodes
  <2>2. numberOfNodes' <= numberOfNodes
    BY <1>2, <2>1
  <2> QED
    BY <1>3, <2>1, <2>2
<1> QED
  BY <1>4, <1>5, <1>6, <1>7, <1>8 DEF Next

LEMMA Timer_Segments == Spec => [](TimerInv /\ SegmentsInv)
<1>1. Init => TimerInv /\ SegmentsInv
  BY TimerStarts, SegmentsStart DEF Init
<1>2. TimerInv /\ SegmentsInv /\ [Next]_vars => (TimerInv /\ SegmentsInv)'
  BY TimerSteps, TimerSegments
<1> QED
  BY <1>1, <1>2, PTL DEF Spec

(* Every variable of the timer and of its heap is what it is taken for:    *)
(* the slot numbers and the sizes stay natural numbers although they are   *)
(* counted down and rounded, the keys times, the clock within its bound.   *)
THEOREM Timer_TypeOK == Spec => []TimerTypeOK
<1>1. ASSUME TimerInv, SegmentsInv PROVE TimerTypeOK
  <2>1. HeapInv /\ currentHeap \in Heaps
    BY <1>1, HeapInvMeans DEF TimerInv
  <2>2. slots \in Seq(Nodes) /\ slotNumber \in [Nodes -> Nat]
    BY <2>1 DEF Heaps, currentHeap
  <2>3. DOMAIN key \subseteq Nodes /\ \A node \in DOMAIN key : key[node] \in Keys
    BY <2>1, HeapInvMeans DEF HeapInv
  <2>4. {numberOfSegments, numberOfSlots} \subseteq Nat
    BY <1>1, SegmentsMean
  <2>5. segmentVector \in [size : Nat, length : Nat]
    BY <1>1 DEF SegmentsInv, Sized
  <2>6. HeapTypeOK
    BY <2>2, <2>3, <2>4, <2>5 DEF HeapTypeOK
  <2> QED
    BY <1>1, <2>6 DEF TimerInv, TimerTypeOK
<1> QED
  BY <1>1, Timer_Segments, PTL

(* Below the event loop, too, every slot in use exists, whatever the order *)
(* in which timeouts are set, fail to be set, are taken back and fire.     *)
THEOREM Timer_SlotsExist == Spec => []SlotsExist
<1>1. SegmentsInv => SlotsExist
  BY SegmentsMean
<1> QED
  BY <1>1, Timer_Segments, PTL

(* A tick fires exactly the timeouts that are due, each once, the earlier  *)
(* ones first, and leaves the others pending.                              *)
THEOREM Timer_TickFiresWhatIsDue == Spec => TickFiresWhatIsDue
<1> DEFINE Fires ==
       phase = "dispatch" /\ phase' = "run" =>
          /\ ToSet(calls') = {timeout \in Pending : key[timeout] <= now}
          /\ IsInjective(calls')
          /\ \A i, j \in DOMAIN calls' : i < j => key[calls'[i]] <= key[calls'[j]]
          /\ ToSet(slots') = Pending \ ToSet(calls')
<1>1. ASSUME TimerInv, [Next]_vars PROVE [Fires]_vars
  <2>1. CASE TimerTick
    <3>1. Fires
      BY <1>1, <2>1, TimerTicks
    <3> QED
      BY <3>1
  <2>2. IOPollerTick => phase' = "dispatch"
    BY DEF IOPollerTick
  <2>3. ASSUME NEW timeout \in Nodes,
               ClearTimeout(timeout) \/ \E delay \in Delays : SetTimeout(timeout, delay)
        PROVE  phase' = phase
    BY <2>3 DEF ClearTimeout, SetTimeout
  <2>4. SetTimeoutFails \/ TimePasses => phase' = phase
    BY DEF SetTimeoutFails, TimePasses
  <2>5. CASE phase' # "run" \/ phase' = phase
    <3>1. Fires
      BY <2>5
    <3> QED
      BY <3>1
  <2> HIDE DEF Fires
  <2>6. CASE UNCHANGED vars
    BY <2>6
  <2> QED
    BY <1>1, <2>1, <2>2, <2>3, <2>4, <2>5, <2>6 DEF Next
<1> QED
  BY <1>1, Timer_Inv, PTL DEF Spec, TickFiresWhatIsDue

(* The loop never sleeps past a timeout.                                   *)
THEOREM Timer_WaitEndsInTime == Spec => WaitEndsInTime
<1> DEFINE InTime ==
       phase = "run" /\ phase' = "dispatch" =>
          \A timeout \in Pending : key[timeout] < now' => key[timeout] < now
<1>1. ASSUME TimerInv, [Next]_vars PROVE [InTime]_vars
  <2>1. CASE IOPollerTick
    <3>1. InTime
      BY <1>1, <2>1, TimerWaits
    <3> QED
      BY <3>1
  <2>2. TimerTick => phase' = "run"
    BY DEF TimerTick
  <2>3. ASSUME NEW timeout \in Nodes,
               ClearTimeout(timeout) \/ \E delay \in Delays : SetTimeout(timeout, delay)
        PROVE  phase' = phase
    BY <2>3 DEF ClearTimeout, SetTimeout
  <2>4. SetTimeoutFails \/ TimePasses => phase' = phase
    BY DEF SetTimeoutFails, TimePasses
  <2>5. CASE phase' # "dispatch" \/ phase' = phase
    <3>1. InTime
      BY <2>5
    <3> QED
      BY <3>1
  <2> HIDE DEF InTime
  <2>6. CASE UNCHANGED vars
    BY <2>6
  <2> QED
    BY <1>1, <2>1, <2>2, <2>3, <2>4, <2>5, <2>6 DEF Next
<1> QED
  BY <1>1, Timer_Inv, PTL DEF Spec, WaitEndsInTime

-----------------------------------------------------------------------------
LEMMA SameListings == \A S : Abstract!SetToSeqs(S) = SetToSeqs(S)
<1>1. ASSUME NEW S PROVE Abstract!Cardinality(S) = Cardinality(S)
  BY DEF Abstract!Cardinality, Cardinality
<1> QED
  BY <1>1 DEF SetToSeqs, Abstract!SetToSeqs

(* How the timeout service sees a timeout.                                 *)
Setting(timeout) ==
    IF timeout \notin Pending THEN "unset"
    ELSE IF key[timeout] = Never THEN "forever" ELSE "finite"

settings == [timeout \in Nodes |-> Setting(timeout)]

(* To the loop the timer is a timeout service: a timeout that was set      *)
(* fires only when it is set and not for ever, and is not set any more     *)
(* when it has; what was cleared never fires.                              *)
THEOREM Timer_Refines == Spec => Abstract!Spec
<1>1. Init => Abstract!Init
  <2> SUFFICES ASSUME Init PROVE Abstract!Init
    OBVIOUS
  <2>1. Pending = {} /\ calls = <<>>
    BY EmptySeq DEF Init, HeapInit, Pending
  <2> QED
    BY <2>1 DEF Abstract!Init
<1>2. ASSUME TimerInv, [Next]_vars PROVE [Abstract!Next]_Abstract!vars
  <2>1. ASSUME NEW timeout \in Nodes, NEW delay \in Delays, SetTimeout(timeout, delay)
        PROVE  \E setting \in {"finite", "forever"} : Abstract!SetTimeout(timeout, setting)
    <3> DEFINE setting == IF delay < 0 THEN "forever" ELSE "finite"
    <3>1. /\ timeout \notin Pending /\ Pending' = Pending \cup {timeout}
          /\ key'[timeout] = Never <=> delay < 0
          /\ \A other \in Pending : key'[other] = key[other]
          /\ calls' = calls
      BY <1>2, <2>1, TimerSets DEF SetTimeout
    <3>2. Setting(timeout) = "unset" /\ Setting(timeout)' = setting
      BY <3>1 DEF Setting
    <3>3. \A other \in Nodes \ {timeout} : Setting(other)' = Setting(other)
      BY <3>1 DEF Setting
    <3> HIDE DEF setting
    <3>4. /\ settings[timeout] = "unset"
          /\ settings' = [settings EXCEPT ![timeout] = setting]
      BY <3>2, <3>3 DEF settings
    <3>5. Abstract!SetTimeout(timeout, setting)
      BY <3>1, <3>4 DEF Abstract!SetTimeout, settings, Setting
    <3> QED
      BY <3>5 DEF setting
  <2>2. ASSUME NEW timeout \in Nodes, ClearTimeout(timeout)
        PROVE  Abstract!ClearTimeout(timeout)
    <3>1. /\ timeout \in Pending /\ calls' = calls
          /\ key' = [other \in Pending \ {timeout} |-> key[other]]
      BY <2>2 DEF ClearTimeout, RemoveNode, Pending
    <3>2. /\ Pending' = Pending \ {timeout}
          /\ \A other \in Pending \ {timeout} : key'[other] = key[other]
      BY <3>1 DEF Pending
    <3>3. Setting(timeout) # "unset" /\ Setting(timeout)' = "unset"
      BY <3>1, <3>2 DEF Setting
    <3>4. \A other \in Nodes \ {timeout} : Setting(other)' = Setting(other)
      BY <3>2 DEF Setting
    <3>5. /\ settings[timeout] # "unset"
          /\ settings' = [settings EXCEPT ![timeout] = "unset"]
      BY <3>3, <3>4 DEF settings
    <3> QED
      BY <3>1, <3>5 DEF Abstract!ClearTimeout, settings, Setting
  <2>3. CASE TimerTick
    <3>0. PICK due : due = ToSet(calls')
      OBVIOUS
    <3>1. /\ due = {timeout \in Pending : key[timeout] <= now}
          /\ IsInjective(calls') /\ calls' \in Seq(Nodes)
          /\ ToSet(slots') = Pending \ due
          /\ key' = [timeout \in Pending \ due |-> key[timeout]]
      BY <1>2, <2>3, <3>0, TimerTicks DEF TimerInv
    <3>2. calls' \in Seq(due)
      <4>1. calls' \in [1 .. Len(calls') -> due] /\ Len(calls') \in Nat
        BY <3>0, <3>1, LenProperties DEF ToSet
      <4> QED
        BY <4>1
    <3>3. calls' \in Abstract!SetToSeqs(due)
      BY <3>0, <3>1, <3>2, SetOfList, SameListings
    <3>4. now \in 0 .. MaxTime /\ Never = MaxTime + 1 /\ MaxTime \in Nat /\ Pending \subseteq Nodes
      BY <1>2, TimerAssumption, HeapInvMeans DEF TimerInv, Never, Pending
    <3>5. \A timeout \in due : timeout \in Nodes /\ Setting(timeout) = "finite"
      BY <3>1, <3>4 DEF Setting
    <3>6. due \in SUBSET Abstract!Finite
      BY <3>5 DEF Abstract!Finite, settings, Setting
    <3>7. /\ Pending' = Pending \ due
          /\ \A timeout \in Pending \ due : key'[timeout] = key[timeout]
      BY <3>1 DEF Pending
    <3>8. \A timeout \in Nodes :
             Setting(timeout)' = IF timeout \in due THEN "unset" ELSE Setting(timeout)
      BY <3>7 DEF Setting
    <3>9. Abstract!Tick(due)
      BY <3>3, <3>8 DEF Abstract!Tick, Setting
    <3> QED
      BY <3>6, <3>9 DEF Abstract!Next
  <2>4. CASE UNCHANGED <<key, calls>>
    BY <2>4 DEF Abstract!vars, Pending
  <2>5. SetTimeoutFails \/ IOPollerTick \/ TimePasses \/ UNCHANGED vars
           => UNCHANGED <<key, calls>>
    BY DEF SetTimeoutFails, InsertFails, IOPollerTick, TimePasses, vars, heapVars
  <2> QED
    BY <1>2, <2>1, <2>2, <2>3, <2>4, <2>5 DEF Next, Abstract!Next
<1> QED
  BY <1>1, <1>2, Timer_Inv, PTL DEF Spec, Abstract!Spec
=============================================================================
