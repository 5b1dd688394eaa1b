-------------------------------- MODULE MCIO --------------------------------
(* Three fibers and two descriptors: two fibers wait for the same thing, or *)
(* one waits for a descriptor while another is closed; a sleeper, a worker  *)
(* and a waiter in one round of the loop; exited fibers' regions in use     *)
(* again.  Fibers are interchangeable, and so are descriptors.              *)
EXTENDS IO

CONSTANTS f1, f2, f3, d1, d2

MCFibers == {f1, f2, f3}
MCFDs == {d1, d2}

MCSymmetry == Permutations(MCFibers) \cup Permutations(MCFDs)
=============================================================================
