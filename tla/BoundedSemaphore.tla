-------------------------- MODULE BoundedSemaphore --------------------------
(***************************************************************************)
(* What a semaphore with two bounds promises, without any scheduler: the   *)
(* value stays between the bounds; a caller that cannot go on waits; those *)
(* who wait on one side are served in the order in which they came, and    *)
(* as long as the bound is not reached one of them eventually is.  A       *)
(* caller who need not wait may pass those who do.                         *)
(***************************************************************************)
EXTENDS Integers, SequencesExt

CONSTANT Fibers

VARIABLES value, minValue, maxValue,
          downWaiters,   \* who waits to take one away, first come first
          upWaiters      \* who waits to put one back

vars == <<value, minValue, maxValue, downWaiters, upWaiters>>

Init ==
    /\ minValue \in Int /\ maxValue \in Int /\ value \in Int
    /\ minValue <= value /\ value <= maxValue
    /\ downWaiters = <<>> /\ upWaiters = <<>>

Down ==
    /\ value > minValue
    /\ value' = value - 1
    /\ UNCHANGED <<minValue, maxValue, downWaiters, upWaiters>>

WaitDown ==
    /\ value = minValue
    /\ \E fiber \in Fibers \ (ToSet(downWaiters) \cup ToSet(upWaiters)) :
          downWaiters' = Append(downWaiters, fiber)
    /\ UNCHANGED <<value, minValue, maxValue, upWaiters>>

ServeDown ==
    /\ value > minValue /\ downWaiters # <<>>
    /\ value' = value - 1
    /\ downWaiters' = Tail(downWaiters)
    /\ UNCHANGED <<minValue, maxValue, upWaiters>>

Up ==
    /\ value < maxValue
    /\ value' = value + 1
    /\ UNCHANGED <<minValue, maxValue, downWaiters, upWaiters>>

WaitUp ==
    /\ value = maxValue
    /\ \E fiber \in Fibers \ (ToSet(downWaiters) \cup ToSet(upWaiters)) :
          upWaiters' = Append(upWaiters, fiber)
    /\ UNCHANGED <<value, minValue, maxValue, downWaiters>>

ServeUp ==
    /\ value < maxValue /\ upWaiters # <<>>
    /\ value' = value + 1
    /\ upWaiters' = Tail(upWaiters)
    /\ UNCHANGED <<minValue, maxValue, downWaiters>>

Next == Down \/ WaitDown \/ ServeDown \/ Up \/ WaitUp \/ ServeUp

Spec == Init /\ [][Next]_vars

FairSpec == Spec /\ WF_vars(ServeDown) /\ WF_vars(ServeUp)
=============================================================================
