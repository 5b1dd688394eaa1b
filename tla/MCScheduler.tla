----------------------------- MODULE MCScheduler -----------------------------
(* Four regions: one for FiberMain and three for the fibers it spawns.      *)
(* Dead regions are reused, so histories of any number of fibers are        *)
(* covered, with at most four alive or awaiting reuse at a time.            *)
EXTENDS Scheduler

CONSTANTS f1, f2, f3, f4

MCFibers == {f1, f2, f3, f4}
=============================================================================
