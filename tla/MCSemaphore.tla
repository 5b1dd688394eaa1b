----------------------------- MODULE MCSemaphore -----------------------------
(* Four fibers let two wait on one side, or one on each, while a third is   *)
(* woken and a fourth barges in.  The bounds cover the semaphore that can   *)
(* never move, the binary one and a counting one; a negative minimum shows  *)
(* that nothing depends on zero.                                            *)
EXTENDS Semaphore

CONSTANTS f1, f2, f3, f4

MCFibers == {f1, f2, f3, f4}
MCBounds == {<<0, 0>>, <<0, 1>>, <<-1, 1>>}
=============================================================================
