-------------------------------- MODULE Event --------------------------------
(***************************************************************************)
(* One event (src/Source/Event.c) used by the fibers of the scheduler.     *)
(* Unlike a semaphore it has no memory: a trigger takes the fiber that has *)
(* waited longest off the list and resumes it, and one that finds nobody   *)
(* waiting is lost.  The taken fiber may wait again before, or after,      *)
(* others are triggered, and several may be resumed and not run yet.       *)
(***************************************************************************)
EXTENDS Scheduler

VARIABLE waiterList     \* the fibers inside Event_WaitFor, not yet triggered

vars == <<schedulerVars, waiterList>>

Waiters == ToSet(waiterList)

Init == SchedulerInit /\ waiterList = <<>>

(* Mutant: the record is put in front.                                     *)
WaitForInFront ==
    /\ SuspendCurrentFiber
    /\ waiterList' = Cons(activeFiber, waiterList)

WaitFor ==
    /\ SuspendCurrentFiber
    /\ waiterList' = Append(waiterList, activeFiber)

(* Mutant: the resumed waiter stays on the list.                           *)
TriggerKeepingWaiter ==
    /\ activeFiber # NoFiber
    /\ waiterList # <<>>
    /\ ResumeFiber(Head(waiterList))
    /\ UNCHANGED waiterList

Trigger ==
    /\ activeFiber # NoFiber
    /\ waiterList # <<>>
    /\ waiterList' = Tail(waiterList)
    /\ ResumeFiber(Head(waiterList))

(* Everything else a fiber does; suspending stands for any other call that *)
(* blocks.                                                                 *)
OtherCalls ==
    /\ \/ AddFiber \/ AddAndRunFiber \/ YieldCurrentFiber
       \/ SuspendCurrentFiber \/ ExitCurrentFiber
    /\ UNCHANGED waiterList

OtherResume ==
    /\ \E fiber \in Suspended \ Waiters : ResumeFiber(fiber)
    /\ UNCHANGED waiterList

LoopTick == Tick /\ UNCHANGED waiterList

Next == WaitFor \/ Trigger \/ OtherCalls \/ OtherResume \/ LoopTick

Spec == Init /\ [][Next]_vars

(* As for the scheduler: fibers cooperate, and the loop keeps ticking.     *)
LeaveProcessor(fiber) ==
    /\ activeFiber = fiber
    /\ \/ WaitFor
       \/ /\ YieldCurrentFiber \/ SuspendCurrentFiber \/ ExitCurrentFiber
          /\ UNCHANGED waiterList

Fairness ==
    /\ WF_vars(LoopTick)
    /\ \A fiber \in Fibers : SF_vars(LeaveProcessor(fiber))

FairSpec == Spec /\ Fairness

-----------------------------------------------------------------------------
(* Type correctness of the event.                                          *)
EventTypeOK == waiterList \in Seq(Fibers)

(* Whoever is on the list is blocked in Event_WaitFor and will stay there  *)
(* until it is triggered: its record, on its stack, is valid, it is        *)
(* recorded once, and resuming it is legal.                                *)
WaitersSuspended ==
    /\ IsInjective(waiterList)
    /\ \A fiber \in Waiters : fiber \in Suspended /\ context[fiber] = "saved"

(* If the event is triggered again and again, nobody waits forever: the    *)
(* trigger reaches every waiter, and the resumed waiter runs.              *)
TriggeredWaiterRuns ==
    []<><<Trigger>>_vars =>
        \A fiber \in Fibers : fiber \in Waiters ~> activeFiber = fiber
=============================================================================
