--------------------------- MODULE TimeoutService ---------------------------
(***************************************************************************)
(* What the timer promises to the loop, without clock and heap: a timeout  *)
(* that is set, unless for ever, fires in the end, and only once; a tick   *)
(* may fire any number of them, and none that was cleared.                 *)
(***************************************************************************)
EXTENDS SequencesExt

CONSTANT Timeouts

VARIABLES pending,     \* how every timeout is set, if it is
          fired        \* the calls the last tick added

vars == <<pending, fired>>

Settings == {"unset", "finite", "forever"}

Init == pending = [timeout \in Timeouts |-> "unset"] /\ fired = <<>>

SetTimeout(timeout, setting) ==
    /\ pending[timeout] = "unset"
    /\ pending' = [pending EXCEPT ![timeout] = setting]
    /\ UNCHANGED fired

ClearTimeout(timeout) ==
    /\ pending[timeout] # "unset"
    /\ pending' = [pending EXCEPT ![timeout] = "unset"]
    /\ UNCHANGED fired

Finite == {timeout \in Timeouts : pending[timeout] = "finite"}

Tick(due) ==
    /\ fired' \in SetToSeqs(due)
    /\ pending' = [timeout \in Timeouts |->
                      IF timeout \in due THEN "unset" ELSE pending[timeout]]

Expire(timeout) == \E due \in SUBSET Finite : timeout \in due /\ Tick(due)

Next ==
    \/ \E timeout \in Timeouts :
          ClearTimeout(timeout)
          \/ \E setting \in {"finite", "forever"} : SetTimeout(timeout, setting)
    \/ \E due \in SUBSET Finite : Tick(due)

Spec == Init /\ [][Next]_vars

FairSpec ==
    /\ Spec
    /\ \A timeout \in Timeouts : WF_vars(Expire(timeout))
=============================================================================
