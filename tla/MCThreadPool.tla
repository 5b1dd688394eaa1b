---------------------------- MODULE MCThreadPool ----------------------------
(* Two workers, as compiled in.  Four fibers and a pipe of two: the pipe is *)
(* full, both workers are blocked writing or hold works, and others queue.  *)
EXTENDS ThreadPool

CONSTANTS f1, f2, f3, f4, w1, w2

MCFibers == {f1, f2, f3, f4}
MCWorkers == {w1, w2}
=============================================================================
