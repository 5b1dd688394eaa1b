----------------------------- MODULE WorkService -----------------------------
(***************************************************************************)
(* What the thread pool promises to the fibers, without threads, mutex or  *)
(* pipe: works are started in the order they were posted, at most          *)
(* MaxRunning of them run at a time, and a fiber gets its result exactly   *)
(* once, after its work was done; none is forgotten.                       *)
(***************************************************************************)
EXTENDS Integers, FiniteSets, SequencesExt

CONSTANTS Fibers, MaxRunning

VARIABLES queue,      \* whose work is posted and not begun, oldest first
          running,    \* whose work a thread is doing
          finished    \* whose work is done and not yet delivered

vars == <<queue, running, finished>>

Init == queue = <<>> /\ running = {} /\ finished = {}

Post(fiber) ==
    /\ fiber \notin ToSet(queue) \cup running \cup finished
    /\ queue' = Append(queue, fiber)
    /\ UNCHANGED <<running, finished>>

Start ==
    /\ queue # <<>> /\ Cardinality(running) < MaxRunning
    /\ queue' = Tail(queue)
    /\ running' = running \cup {Head(queue)}
    /\ UNCHANGED finished

Finish(fiber) ==
    /\ fiber \in running
    /\ running' = running \ {fiber}
    /\ finished' = finished \cup {fiber}
    /\ UNCHANGED queue

(* Several results may be delivered at once.                               *)
Deliver(fiber) ==
    /\ \E batch \in SUBSET finished :
          fiber \in batch /\ finished' = finished \ batch
    /\ UNCHANGED <<queue, running>>

Next ==
    \/ Start
    \/ \E fiber \in Fibers : Post(fiber) \/ Finish(fiber) \/ Deliver(fiber)

Spec == Init /\ [][Next]_vars

FairSpec ==
    /\ Spec
    /\ WF_vars(Start)
    /\ \A fiber \in Fibers : WF_vars(Finish(fiber)) /\ WF_vars(Deliver(fiber))
=============================================================================
