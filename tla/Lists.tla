-------------------------------- MODULE Lists --------------------------------
(***************************************************************************)
(* What the intrusive lists promise, without pointers: every head has a    *)
(* sequence of items, and an item is in one list at most.  The other       *)
(* modules use lists this way.                                             *)
(***************************************************************************)
EXTENDS Integers, SequencesExt

CONSTANTS Heads, Items,
          Rank       \* what the comparer of List_Sort looks at

VARIABLE lists

Linked == UNION {ToSet(lists[head]) : head \in Heads}

Init == lists = [head \in Heads |-> <<>>]

Becomes(head, list) == lists' = [lists EXCEPT ![head] = list]

Initialize(head) == Becomes(head, <<>>)

InsertBack(head, item) ==
    item \notin Linked /\ Becomes(head, Append(lists[head], item))

InsertFront(head, item) ==
    item \notin Linked /\ Becomes(head, Cons(item, lists[head]))

(* A step changes the list an item is in.                                  *)
InListOf(item, Change(_, _)) ==
    \E head \in Heads :
        \E i \in DOMAIN lists[head] :
            lists[head][i] = item /\ Becomes(head, Change(lists[head], i))

InsertBefore(self, other) ==
    /\ self \notin Linked
    /\ InListOf(other, LAMBDA list, i : InsertAt(list, i, self))

InsertAfter(self, other) ==
    /\ self \notin Linked
    /\ InListOf(other, LAMBDA list, i : InsertAt(list, i + 1, self))

Replace(self, other) ==
    /\ other \notin Linked
    /\ InListOf(self, LAMBDA list, i : [list EXCEPT ![i] = other])

RemoveItem(self) == InListOf(self, LAMBDA list, i : RemoveAt(list, i))

(* The sort is not stable.                                                 *)
Sort(head) ==
    \E list \in SetToSeqs(ToSet(lists[head])) :
        /\ \A i, j \in DOMAIN list : i < j => Rank[list[i]] <= Rank[list[j]]
        /\ Becomes(head, list)

Next ==
    \/ \E head \in Heads :
          \/ Initialize(head) \/ Sort(head)
          \/ \E item \in Items : InsertBack(head, item) \/ InsertFront(head, item)
    \/ \E self, other \in Items :
          InsertBefore(self, other) \/ InsertAfter(self, other) \/ Replace(self, other)
    \/ \E item \in Items : RemoveItem(item)

Spec == Init /\ [][Next]_lists
=============================================================================
