------------------------------- MODULE MCEvent -------------------------------
(* Four fibers: two or three wait, one triggers, and dead regions are taken *)
(* again by new fibers that wait in turn.                                   *)
EXTENDS Event

CONSTANTS f1, f2, f3, f4

MCFibers == {f1, f2, f3, f4}
=============================================================================
