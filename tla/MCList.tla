------------------------------- MODULE MCList -------------------------------
(* Five items in two lists, two of them equal to the comparer: sorting      *)
(* meets every arrangement, on both sides of the pivot.  The pointers of    *)
(* unlinked items, which nothing reads, do not distinguish states.          *)
EXTENDS List

CONSTANTS h1, h2, i1, i2, i3, i4, i5

MCHeads == {h1, h2}
MCItems == {i1, i2, i3, i4, i5}
MCRank == (i1 :> 1) @@ (i2 :> 2) @@ (i3 :> 2) @@ (i4 :> 3) @@ (i5 :> 4)

LinkedCells ==
    [cell \in Heads \cup Linked |-> <<links.prev[cell], links.next[cell]>>]
=============================================================================
