----------------------------- MODULE MCIOPoller -----------------------------
(* Three descriptors, two of which fit into epoll_wait's array, and three   *)
(* watches: all three descriptors ready at once, two waits for the same     *)
(* condition of one descriptor, waits for both conditions of one,           *)
(* descriptors closed and handed out again between two ticks, and the       *)
(* lasting watch of the thread pool among them.  At most two events are     *)
(* dirty at a time.  Descriptors are interchangeable, and so are the        *)
(* watches of fibers.                                                       *)
EXTENDS IOPoller, TLC

CONSTANTS d1, d2, d3, v1, v2, v3

MCFDs == {d1, d2, d3}
MCWatches == {v1, v2, v3}
MCLasting == {v3}

FewDirty == Len(dirtyEventList) <= 2

MCSymmetry == Permutations(MCFDs) \cup Permutations(MCWatches \ MCLasting)
=============================================================================
