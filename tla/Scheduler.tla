------------------------------ MODULE Scheduler ------------------------------
(***************************************************************************)
(* The cooperative fiber scheduler (src/Source/Scheduler.c).               *)
(*                                                                         *)
(* A fiber is named by the address of its struct Fiber, which is the       *)
(* 64 KiB region malloc returned for it.  One thread runs everything: at   *)
(* any moment either a fiber is active or the event loop of Runtime.c is.  *)
(* Only the calls of the active fiber, and between two ticks the           *)
(* callbacks of the loop, change the state, so a call up to the point      *)
(* where it switches stacks is one step.                                   *)
(*                                                                         *)
(* Two things are not variables of the C program but decide whether it is  *)
(* defined: which regions are allocated, and whether the jmp_buf a fiber's *)
(* context points to still belongs to a live stack frame.                  *)
(***************************************************************************)
EXTENDS Integers, FiniteSets, SequencesExt

CONSTANTS Fibers,    \* the regions malloc may return
          NoFiber    \* activeFiber == NULL

ASSUME NoFiberAssumption == NoFiber \notin Fibers

VARIABLES
    activeFiber,       \* the running fiber, or NoFiber while the loop runs
    readyFiberList,    \* the fibers that wait for the processor, front first
    deadFiberList,     \* exited fibers, kept for reuse until the tick ends
    fiberCount,        \* the counter the event loop tests for zero
    context,           \* where a switch to the fiber would land
    allocated          \* the regions obtained from malloc and not freed

schedulerVars == <<activeFiber, readyFiberList, deadFiberList, fiberCount,
                   context, allocated>>

(* "start": context is NULL, a switch enters the fiber's function.         *)
(* "saved": it points to the jmp_buf of the call the fiber is blocked in.  *)
(* "stale": that frame has been left, or nothing was ever stored.          *)
Contexts == {"start", "saved", "stale"}

Live == allocated \ ToSet(deadFiberList)

(* The fibers that exist but are neither running nor ready: somebody must  *)
(* call Scheduler_ResumeFiber on them.                                     *)
Suspended == Live \ (ToSet(readyFiberList) \cup {activeFiber})

-----------------------------------------------------------------------------
(* The pieces the calls below are made of.                                 *)

(* self->activeFiber->context = &context                                   *)
Saved == [context EXCEPT ![activeFiber] = "saved"]

SwitchToFiber(fiber, ready, ctx) ==
    /\ activeFiber' = fiber
    /\ readyFiberList' = ready
    /\ context' = [ctx EXCEPT ![fiber] = "stale"]

(* Mutant: the dead list is freed and not emptied.                         *)
SwitchToKeepingDead(dead, ctx) ==
    /\ activeFiber' = NoFiber
    /\ readyFiberList' = <<>>
    /\ deadFiberList' = dead
    /\ allocated' = allocated \ ToSet(dead)
    /\ context' = ctx

(* Back into Scheduler_Tick, which frees every dead fiber and returns to   *)
(* the loop.                                                               *)
SwitchTo(dead, ctx) ==
    /\ activeFiber' = NoFiber
    /\ readyFiberList' = <<>>
    /\ deadFiberList' = <<>>
    /\ allocated' = allocated \ ToSet(dead)
    /\ context' = ctx

(* The choice Scheduler_SuspendCurrentFiber and Scheduler_ExitCurrentFiber *)
(* end with: the front of the ready list, or the loop when it is empty.    *)
SwitchAway(dead, ctx) ==
    \/ /\ readyFiberList # <<>>
       /\ SwitchToFiber(Head(readyFiberList), Tail(readyFiberList), ctx)
       /\ deadFiberList' = dead
       /\ UNCHANGED allocated
    \/ /\ readyFiberList = <<>>
       /\ SwitchTo(dead, ctx)

(* The region of a new fiber: the back of the dead list, else malloc's.    *)
TakeRegion(fiber) ==
    \/ /\ deadFiberList = <<>>
       /\ fiber \in Fibers \ allocated
       /\ allocated' = allocated \cup {fiber}
       /\ UNCHANGED deadFiberList
    \/ /\ deadFiberList # <<>>
       /\ fiber = Last(deadFiberList)
       /\ deadFiberList' = Front(deadFiberList)
       /\ UNCHANGED allocated

-----------------------------------------------------------------------------
(* main() of Runtime.c initializes the scheduler and adds the fiber that   *)
(* runs FiberMain before it enters the loop.                               *)
SchedulerInit ==
    \E fiber \in Fibers :
        /\ activeFiber = NoFiber
        /\ readyFiberList = <<fiber>>
        /\ deadFiberList = <<>>
        /\ fiberCount = 1
        /\ context = [f \in Fibers |-> IF f = fiber THEN "start" ELSE "stale"]
        /\ allocated = {fiber}

(* Mutant: the context of a reused region is not reset.                    *)
AddFiberStale ==
    /\ activeFiber # NoFiber
    /\ \E fiber \in Fibers :
        /\ TakeRegion(fiber)
        /\ readyFiberList' = Append(readyFiberList, fiber)
    /\ fiberCount' = fiberCount + 1
    /\ UNCHANGED <<activeFiber, context>>

(* When malloc fails the call returns false and nothing has changed.       *)
AddFiber ==
    /\ activeFiber # NoFiber
    /\ \E fiber \in Fibers :
        /\ TakeRegion(fiber)
        /\ context' = [context EXCEPT ![fiber] = "start"]
        /\ readyFiberList' = Append(readyFiberList, fiber)
    /\ fiberCount' = fiberCount + 1
    /\ UNCHANGED activeFiber

(* Mutant: the new fiber runs and stays on the ready list.                 *)
AddAndRunFiberStillReady ==
    /\ activeFiber # NoFiber
    /\ \E fiber \in Fibers :
        /\ TakeRegion(fiber)
        /\ SwitchToFiber(fiber,
                Append(Cons(activeFiber, readyFiberList), fiber), Saved)
    /\ fiberCount' = fiberCount + 1

(* The caller goes to the front of the ready list, the new fiber, which    *)
(* AddFiber put at the back, is taken from there and runs.                 *)
AddAndRunFiber ==
    /\ activeFiber # NoFiber
    /\ \E fiber \in Fibers :
        /\ TakeRegion(fiber)
        /\ SwitchToFiber(fiber, Cons(activeFiber, readyFiberList), Saved)
    /\ fiberCount' = fiberCount + 1

(* With nobody else ready the call returns at once.                        *)
YieldCurrentFiber ==
    /\ activeFiber # NoFiber
    /\ readyFiberList # <<>>
    /\ SwitchToFiber(Head(readyFiberList),
                     Append(Tail(readyFiberList), activeFiber), Saved)
    /\ UNCHANGED <<deadFiberList, fiberCount, allocated>>

(* Mutant: the context of the suspended fiber is not saved.                *)
SuspendCurrentFiberUnsaved ==
    /\ activeFiber # NoFiber
    /\ SwitchAway(deadFiberList, context)
    /\ UNCHANGED fiberCount

SuspendCurrentFiber ==
    /\ activeFiber # NoFiber
    /\ SwitchAway(deadFiberList, Saved)
    /\ UNCHANGED fiberCount

ExitCurrentFiber ==
    /\ activeFiber # NoFiber
    /\ SwitchAway(Append(deadFiberList, activeFiber), context)
    /\ fiberCount' = fiberCount - 1

(* Mutant: who is resumed runs before those who were ready.                *)
ResumeFiberFirst(fiber) ==
    /\ activeFiber # fiber
    /\ readyFiberList' = Cons(fiber, readyFiberList)
    /\ UNCHANGED <<activeFiber, deadFiberList, fiberCount, context, allocated>>

(* Called by another fiber or by a callback of the loop.  The call trusts  *)
(* its caller: only a suspended fiber may be passed, its listItem being    *)
(* free, and nothing checks it.  The callers' modules show they comply.    *)
ResumeFiber(fiber) ==
    /\ activeFiber # fiber
    /\ readyFiberList' = Append(readyFiberList, fiber)
    /\ UNCHANGED <<activeFiber, deadFiberList, fiberCount, context, allocated>>

(* Takes back the resumption of a fiber that has not run since.            *)
UnresumeFiber(fiber) ==
    /\ activeFiber # fiber
    /\ readyFiberList' = RemoveFirst(readyFiberList, fiber)
    /\ UNCHANGED <<activeFiber, deadFiberList, fiberCount, context, allocated>>

(* The ready fibers that are inside a call, not new ones.                  *)
Resumed == {fiber \in ToSet(readyFiberList) : context[fiber] = "saved"}

(* The loop hands the processor to the front of the ready list; with an    *)
(* empty list the call returns at once.                                    *)
Tick ==
    /\ activeFiber = NoFiber
    /\ readyFiberList # <<>>
    /\ SwitchToFiber(Head(readyFiberList), Tail(readyFiberList), context)
    /\ UNCHANGED <<deadFiberList, fiberCount, allocated>>

SchedulerNext ==
    \/ AddFiber
    \/ AddAndRunFiber
    \/ YieldCurrentFiber
    \/ SuspendCurrentFiber
    \/ ExitCurrentFiber
    \/ \E fiber \in Suspended : ResumeFiber(fiber)
    \/ \E fiber \in Resumed : activeFiber # NoFiber /\ UnresumeFiber(fiber)
    \/ Tick

SchedulerSpec == SchedulerInit /\ [][SchedulerNext]_schedulerVars

(* The scheduler has no preemption, so progress needs fibers that          *)
(* cooperate: one that keeps getting the processor yields, blocks or       *)
(* exits again and again.  The loop itself never stops ticking.            *)
GiveUp(fiber) ==
    /\ activeFiber = fiber
    /\ YieldCurrentFiber \/ SuspendCurrentFiber \/ ExitCurrentFiber

SchedulerFairness ==
    /\ WF_schedulerVars(Tick)
    /\ \A fiber \in Fibers : SF_schedulerVars(GiveUp(fiber))

FairSchedulerSpec == SchedulerSpec /\ SchedulerFairness

-----------------------------------------------------------------------------
(* Type correctness of the scheduler's state.                              *)
SchedulerTypeOK ==
    /\ activeFiber \in Fibers \cup {NoFiber}
    /\ readyFiberList \in Seq(Fibers)
    /\ deadFiberList \in Seq(Fibers)
    /\ fiberCount \in Nat
    /\ context \in [Fibers -> Contexts]
    /\ allocated \in SUBSET Fibers

(* The one listItem of a fiber links it into at most one list, once, and   *)
(* never while the fiber runs; whatever is linked or runs has not been     *)
(* freed.  A second resumption of a fiber, or a dead list freed too early, *)
(* breaks this several calls before anything is seen.                      *)
FiberInOnePlace ==
    /\ IsInjective(readyFiberList)
    /\ IsInjective(deadFiberList)
    /\ ToSet(readyFiberList) \cap ToSet(deadFiberList) = {}
    /\ activeFiber \notin ToSet(readyFiberList) \cup ToSet(deadFiberList)
    /\ ToSet(readyFiberList) \cup ToSet(deadFiberList) \subseteq allocated
    /\ activeFiber # NoFiber => activeFiber \in allocated

(* A switch never lands in a frame that is gone: a ready fiber either has  *)
(* not started or is inside the call that saved its context, and so is a   *)
(* suspended one.  The region of a dead fiber is reused, stale context and *)
(* all, so Scheduler_AddFiber has to reset it.                             *)
ContextValid ==
    /\ \A fiber \in ToSet(readyFiberList) : context[fiber] # "stale"
    /\ \A fiber \in Suspended : context[fiber] = "saved"

(* fiberCount, the only thing the loop looks at to decide that the program *)
(* is over, counts exactly the fibers that have not exited; and when the   *)
(* loop looks, no dead fiber is left allocated.                            *)
CountMatches ==
    /\ fiberCount = Cardinality(Live)
    /\ activeFiber = NoFiber => deadFiberList = <<>>

(* No ready fiber is starved by the order of the ready list, if fibers     *)
(* cooperate: it runs, unless its resumption is taken back.                *)
ReadyRuns ==
    \A fiber \in Fibers :
        fiber \in ToSet(readyFiberList) ~> fiber \notin ToSet(readyFiberList)
=============================================================================
