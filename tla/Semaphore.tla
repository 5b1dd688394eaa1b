------------------------------ MODULE Semaphore ------------------------------
(***************************************************************************)
(* One semaphore (src/Source/Semaphore.c) used by the fibers of the        *)
(* scheduler.                                                              *)
(*                                                                         *)
(* A fiber that has to wait puts a record of its stack on a waiter list    *)
(* and suspends.  Waking it only makes it ready: it stays on the list, and *)
(* the value does not change, until it runs and finishes the call.  Until  *)
(* then another fiber may call, find a value that is not at the bound, and *)
(* take the woken fiber's turn; the code then unresumes that fiber.        *)
(***************************************************************************)
EXTENDS Scheduler

CONSTANT Bounds     \* the <<minValue, maxValue>> a program may choose

ASSUME BoundsAssumption == Bounds \subseteq Int \X Int

VARIABLES
    value, minValue, maxValue,
    downWaiterList,     \* the fibers inside a blocked Semaphore_Down
    upWaiterList        \* the fibers inside a blocked Semaphore_Up

boundVars == <<minValue, maxValue>>
semaphoreVars == <<value, minValue, maxValue, downWaiterList, upWaiterList>>
vars == <<schedulerVars, semaphoreVars>>

Waiters == ToSet(downWaiterList) \cup ToSet(upWaiterList)

(* The active fiber is outside the semaphore's calls.  While a woken       *)
(* waiter runs, nothing happens but the rest of its call.                  *)
InUserCode == activeFiber # NoFiber /\ activeFiber \notin Waiters

(* Scheduler_ResumeFiber and Scheduler_UnresumeFiber of the front waiter,  *)
(* if there is one, as the ready list they leave.                          *)
ResumeFront(ready, waiterList) ==
    IF waiterList = <<>> THEN ready ELSE Append(ready, Head(waiterList))

UnresumeFront(ready, waiterList) ==
    IF waiterList = <<>> THEN ready ELSE RemoveFirst(ready, Head(waiterList))

-----------------------------------------------------------------------------
(* The program initializes the semaphore with any value that               *)
(* Semaphore_Initialize accepts; other values only set errno.              *)
Init ==
    /\ SchedulerInit
    /\ \E bounds \in Bounds : minValue = bounds[1] /\ maxValue = bounds[2]
    /\ value \in minValue .. maxValue
    /\ downWaiterList = <<>>
    /\ upWaiterList = <<>>

(* Mutant: the record is put in front.                                     *)
DownWaitInFront ==
    /\ InUserCode
    /\ value = minValue
    /\ downWaiterList' = Cons(activeFiber, downWaiterList)
    /\ SuspendCurrentFiber
    /\ UNCHANGED <<value, boundVars, upWaiterList>>

DownWait ==
    /\ InUserCode
    /\ value = minValue
    /\ downWaiterList' = Append(downWaiterList, activeFiber)
    /\ SuspendCurrentFiber
    /\ UNCHANGED <<value, boundVars, upWaiterList>>

(* The end of every Semaphore_Down: it may be the one that makes room for  *)
(* a fiber waiting in Semaphore_Up.                                        *)
FinishDown(ready) ==
    /\ value' = value - 1
    /\ readyFiberList' = IF value' = maxValue - 1
                         THEN ResumeFront(ready, upWaiterList)
                         ELSE ready
    /\ UNCHANGED <<activeFiber, deadFiberList, fiberCount, context, allocated,
                   boundVars, upWaiterList>>

(* Mutant: the turn of the woken waiter is not taken back.                 *)
DownTakeKeepingWakeup ==
    /\ InUserCode
    /\ value # minValue
    /\ FinishDown(readyFiberList)
    /\ UNCHANGED downWaiterList

DownTake ==
    /\ InUserCode
    /\ value # minValue
    /\ FinishDown(IF value - 1 = minValue
                  THEN UnresumeFront(readyFiberList, downWaiterList)
                  ELSE readyFiberList)
    /\ UNCHANGED downWaiterList

(* Mutant: the woken waiter does not wake the next one.                    *)
DownWokenAlone ==
    /\ activeFiber \in ToSet(downWaiterList)
    /\ downWaiterList' = RemoveFirst(downWaiterList, activeFiber)
    /\ FinishDown(readyFiberList)

(* The suspended caller runs again, which it takes for permission: it does *)
(* not look at the value.                                                  *)
DownWoken ==
    /\ activeFiber \in ToSet(downWaiterList)
    /\ downWaiterList' = RemoveFirst(downWaiterList, activeFiber)
    /\ FinishDown(IF value - 1 > minValue
                  THEN ResumeFront(readyFiberList, downWaiterList')
                  ELSE readyFiberList)

UpWait ==
    /\ InUserCode
    /\ value = maxValue
    /\ upWaiterList' = Append(upWaiterList, activeFiber)
    /\ SuspendCurrentFiber
    /\ UNCHANGED <<value, boundVars, downWaiterList>>

FinishUp(ready) ==
    /\ value' = value + 1
    /\ readyFiberList' = IF value' = minValue + 1
                         THEN ResumeFront(ready, downWaiterList)
                         ELSE ready
    /\ UNCHANGED <<activeFiber, deadFiberList, fiberCount, context, allocated,
                   boundVars, downWaiterList>>

UpTake ==
    /\ InUserCode
    /\ value # maxValue
    /\ FinishUp(IF value + 1 = maxValue
                THEN UnresumeFront(readyFiberList, upWaiterList)
                ELSE readyFiberList)
    /\ UNCHANGED upWaiterList

UpWoken ==
    /\ activeFiber \in ToSet(upWaiterList)
    /\ upWaiterList' = RemoveFirst(upWaiterList, activeFiber)
    /\ FinishUp(IF value + 1 < maxValue
                THEN ResumeFront(readyFiberList, upWaiterList')
                ELSE readyFiberList)

(* Everything else a fiber does.  Suspending stands for any other call     *)
(* that blocks; what completes it is a callback of the loop or another     *)
(* fiber.                                                                  *)
OtherCalls ==
    /\ InUserCode
    /\ AddFiber \/ AddAndRunFiber \/ YieldCurrentFiber
       \/ SuspendCurrentFiber \/ ExitCurrentFiber
    /\ UNCHANGED semaphoreVars

OtherResume ==
    /\ InUserCode \/ activeFiber = NoFiber
    /\ \E fiber \in Suspended \ Waiters : ResumeFiber(fiber)
    /\ UNCHANGED semaphoreVars

LoopTick == Tick /\ UNCHANGED semaphoreVars

Next ==
    \/ DownWait \/ DownTake \/ DownWoken
    \/ UpWait \/ UpTake \/ UpWoken
    \/ OtherCalls \/ OtherResume \/ LoopTick

Spec == Init /\ [][Next]_vars

(* A fiber that runs again and again gives the processor up again and      *)
(* again, and a call that needs no waiting returns.                        *)
LeaveProcessor(fiber) ==
    /\ activeFiber = fiber
    /\ \/ DownWait
       \/ UpWait
       \/ /\ InUserCode
          /\ YieldCurrentFiber \/ SuspendCurrentFiber \/ ExitCurrentFiber
          /\ UNCHANGED semaphoreVars

Fairness ==
    /\ WF_vars(LoopTick)
    /\ WF_vars(DownWoken)
    /\ WF_vars(UpWoken)
    /\ \A fiber \in Fibers : SF_vars(LeaveProcessor(fiber))

FairSpec == Spec /\ Fairness

-----------------------------------------------------------------------------
(* Type correctness of the semaphore.                                      *)
SemaphoreTypeOK ==
    /\ {value, minValue, maxValue} \subseteq Int
    /\ downWaiterList \in Seq(Fibers)
    /\ upWaiterList \in Seq(Fibers)

(* The value never leaves its bounds, although a woken waiter changes it   *)
(* without looking and others may have changed it since the wakeup.        *)
ValueInBounds == minValue <= value /\ value <= maxValue

(* No wakeup is lost and none is given twice: exactly when the value is    *)
(* off the bound, the first waiter, and never another, has been resumed.   *)
FrontResumed(waiterList, canGo) ==
    \A i \in DOMAIN waiterList :
        (waiterList[i] \in ToSet(readyFiberList) \cup {activeFiber})
            <=> (i = 1 /\ canGo)

WakeupsMatchValue ==
    /\ FrontResumed(downWaiterList, value > minValue)
    /\ FrontResumed(upWaiterList, value < maxValue)

(* A waiter's record lives on the stack of a blocked fiber: nobody is      *)
(* recorded twice, and whoever is recorded is a live fiber inside its call.*)
WaitersBlocked ==
    /\ IsInjective(downWaiterList) /\ IsInjective(upWaiterList)
    /\ ToSet(downWaiterList) \cap ToSet(upWaiterList) = {}
    /\ \A fiber \in Waiters :
          fiber \in Live /\ (fiber # activeFiber => context[fiber] = "saved")

(* The semaphore on top of the scheduler is a bounded semaphore with first *)
(* come first served waiting, where whoever can be served eventually is.   *)
Abstract == INSTANCE BoundedSemaphore
                WITH downWaiters <- downWaiterList, upWaiters <- upWaiterList

BoundedSemaphoreSpec == Abstract!FairSpec
=============================================================================
