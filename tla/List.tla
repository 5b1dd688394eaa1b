-------------------------------- MODULE List --------------------------------
(***************************************************************************)
(* The intrusive doubly linked lists of src/Source/List.h and List.c: a    *)
(* head and its items form a ring of cells, each with pointers to both     *)
(* neighbours.  The functions are as in the code blind: which cells are in *)
(* a list is known to the callers only.  An item taken off keeps its       *)
(* pointers.                                                               *)
(***************************************************************************)
EXTENDS Integers, SequencesExt, Loops

CONSTANTS Heads, Items, Rank

ASSUME ListAssumption ==
    IsFiniteSet(Items) /\ Heads \cap Items = {} /\ Rank \in [Items -> Int]

Cells == Heads \cup Items

Links == [prev : [Cells -> Cells], next : [Cells -> Cells]]

VARIABLE links      \* [prev, next], the two pointers of every cell

(* __ListItem_Insert                                                       *)
Inserted(l, self, prev, next) ==
    [prev |-> [l.prev EXCEPT ![self] = prev, ![next] = self],
     next |-> [l.next EXCEPT ![prev] = self, ![self] = next]]

Initialized(l, head) ==
    [prev |-> [l.prev EXCEPT ![head] = head], next |-> [l.next EXCEPT ![head] = head]]

(* Mutants: one neighbour is left as it was; the item forgets them.        *)
RemovedForwards(l, self) ==
    [l EXCEPT !.next[l.prev[self]] = l.next[self]]

RemovedInit(l, self) ==
    [prev |-> [l.prev EXCEPT ![l.next[self]] = l.prev[self], ![self] = self],
     next |-> [l.next EXCEPT ![l.prev[self]] = l.next[self], ![self] = self]]

Removed(l, self) ==
    [prev |-> [l.prev EXCEPT ![l.next[self]] = l.prev[self]],
     next |-> [l.next EXCEPT ![l.prev[self]] = l.next[self]]]

(* The cells a walk along one of the pointers comes to before it is back   *)
(* at the head; broken links stop it when it has gone too far.             *)
Walk(pointer, head) ==
    LET Cell(n) == Repeated(pointer, head, n)
        back == {n \in 1 .. Cardinality(Items) + 1 : Cell(n) = head}
        last == IF back = {} THEN Cardinality(Items) ELSE Min(back) - 1
    IN  [n \in 1 .. last |-> Cell(n)]

Contents == [head \in Heads |-> Walk(links.next, head)]

Linked == UNION {ToSet(Contents[head]) : head \in Heads}

IsEmpty(head) == links.prev[head] = head

-----------------------------------------------------------------------------
(* List_Quicksort gets the addresses of two pointer fields, through which  *)
(* it sees the ends of its part of the ring change.                        *)
Fields == {"prev", "next"} \X Cells

At(l, field) == l[field[1]][field[2]]

MovedUnremoved(l, item, pivot) ==     \* mutant: it stays where it was, too
    Inserted(l, item, l.prev[pivot], pivot)

Moved(l, item, pivot) ==
    LET removed == Removed(l, item)
    IN  Inserted(removed, item, removed.prev[pivot], pivot)

(* One round of its loop: an item less than the pivot moves in front of    *)
(* it, and the one before, as it was, is next.                             *)
PartItem(l, item, pivot) ==
    [links |-> IF Rank[item] >= Rank[pivot] THEN l ELSE Moved(l, item, pivot),
     item  |-> l.prev[item]]

Partition(l, pivot, back) ==
    Repeated([at \in [links : Links, item : Cells] |->
                 IF at.item = pivot THEN at ELSE PartItem(at.links, at.item, pivot)],
             [links |-> l, item |-> back], Cardinality(Items)).links

(* The calls may nest as deep as there are items.                          *)
Quicksort(links0, front0, back0) ==
    LET sorted[depth \in 0 .. Cardinality(Items)] ==
            [call \in Links \X Fields \X Fields |->
                LET l == call[1]
                    front == call[2]
                    back == call[3]
                    pivot == At(l, front)
                    parted == Partition(l, pivot, At(l, back))
                    left == IF At(parted, front) = pivot THEN parted
                            ELSE sorted[depth - 1][<<parted, front, <<"prev", pivot>>>>]
                IN  IF depth = 0 \/ At(l, back) = pivot THEN l
                    ELSE IF At(left, back) = pivot THEN left
                    ELSE sorted[depth - 1][<<left, <<"next", pivot>>, back>>]]
    IN  sorted[Cardinality(Items)][<<links0, front0, back0>>]

-----------------------------------------------------------------------------
ListInit == links = [prev |-> [cell \in Cells |-> cell], next |-> [cell \in Cells |-> cell]]

Initialize(head) == links' = Initialized(links, head)

InsertBack(head, item) ==
    /\ item \notin Linked
    /\ links' = Inserted(links, item, links.prev[head], head)

InsertFront(head, item) ==
    /\ item \notin Linked
    /\ links' = Inserted(links, item, head, links.next[head])

InsertBefore(self, other) ==
    /\ self \notin Linked /\ other \in Linked
    /\ links' = Inserted(links, self, links.prev[other], other)

InsertAfter(self, other) ==
    /\ self \notin Linked /\ other \in Linked
    /\ links' = Inserted(links, self, other, links.next[other])

Replace(self, other) ==
    /\ self \in Linked /\ other \notin Linked
    /\ links' = Inserted(links, other, links.prev[self], links.next[self])

RemoveItem(self) == self \in Linked /\ links' = Removed(links, self)

Sort(head) == links' = Quicksort(links, <<"next", head>>, <<"prev", head>>)

ListNext ==
    \/ \E head \in Heads :
          \/ Initialize(head) \/ Sort(head)
          \/ \E item \in Items : InsertBack(head, item) \/ InsertFront(head, item)
    \/ \E self, other \in Items :
          InsertBefore(self, other) \/ InsertAfter(self, other) \/ Replace(self, other)
    \/ \E item \in Items : RemoveItem(item)

ListSpec == ListInit /\ [][ListNext]_links

-----------------------------------------------------------------------------
(* Seen along the next pointers the rings are lists: every function does   *)
(* to the sequence what its name says, and List_Sort, which moves items    *)
(* while it holds the addresses of their neighbours' pointers, leaves a    *)
(* sorted one with the same items.                                         *)
Plain == INSTANCE Lists WITH lists <- Contents

ListsSpec == Plain!Spec

(* The rings are closed both ways: the walks along prev meet the same      *)
(* cells in the opposite order, and a head is its own neighbour only when  *)
(* its list is empty.                                                      *)
RingsClosed ==
    \A head \in Heads :
        /\ Walk(links.prev, head) = Reverse(Contents[head])
        /\ IsEmpty(head) <=> Contents[head] = <<>>

(* What IOPoller_ClearWatch relies on: a removed item keeps the same cell  *)
(* on both sides exactly when it was the only one of its list.             *)
NeighboursTellLast ==
    [][ \A item \in Items :
          RemoveItem(item) =>
              (links'.prev[item] = links'.next[item]
                  <=> \E head \in Heads : Contents[head] = <<item>>)
      ]_links
=============================================================================
