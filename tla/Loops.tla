-------------------------------- MODULE Loops --------------------------------
(***************************************************************************)
(* A loop of the code as a function: the body, which changes nothing when  *)
(* the condition of the loop does not hold, is applied to the variables of *)
(* the loop as often as the loop can go round.                             *)
(***************************************************************************)
EXTENDS Integers

Repeated(body, start, rounds) ==
    LET state[i \in 0 .. rounds] == IF i = 0 THEN start ELSE body[state[i - 1]]
    IN  state[rounds]
=============================================================================
