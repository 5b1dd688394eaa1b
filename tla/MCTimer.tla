------------------------------ MODULE MCTimer -------------------------------
(* Three timeouts of up to three ticks of the clock: several due at once,   *)
(* equal due times, one that is set forever and one that was set while      *)
(* others were already due.                                                 *)
EXTENDS Timer

CONSTANTS n1, n2, n3

MCNodes == {n1, n2, n3}
MCKeys == 0 .. Never
MCDelays == -1 .. 2
=============================================================================
