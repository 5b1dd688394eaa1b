----------------------------- MODULE ThreadPool -----------------------------
(***************************************************************************)
(* The thread pool (src/Source/ThreadPool.c), the fibers that use it       *)
(* (DoWork in src/Source/IO.c) and the order in which main() of            *)
(* src/Source/Runtime.c stops it.                                          *)
(*                                                                         *)
(* A struct Work lies on the stack of the fiber that posts it and waits,   *)
(* so a work is named by its fiber.  The worker threads share the work     *)
(* list with the main thread under one mutex and one condition variable,   *)
(* and hand finished works back through a pipe the event loop watches.     *)
(*                                                                         *)
(* The list is touched only with the mutex held and no thread blocks while *)
(* it holds it, except in pthread_cond_wait, which releases it; so each    *)
(* critical section is one step.                                           *)
(***************************************************************************)
EXTENDS Integers, FiniteSets, SequencesExt

CONSTANTS Fibers, Workers,
          StopSignal,      \* the list item that is not a work
          NoWork,          \* a worker's hand is empty
          PipeCapacity,    \* works the pipe holds
          BatchSize        \* works WorkerCallback reads at once

ASSUME ThreadPoolAssumption ==
    /\ IsFiniteSet(Workers)
    /\ StopSignal \notin Fibers /\ NoWork \notin Fibers
    /\ PipeCapacity \in Nat \ {0} /\ BatchSize \in Nat \ {0}

VARIABLES
    workList,       \* posted works and, at the end, the stop signal
    workerState,    \* where each worker thread is
    hand,           \* the work each worker has taken from the list
    pipe,           \* finished works the main thread has not read
    fiberState,     \* the fibers, as far as the pool is concerned
    mainState       \* in Loop, in ThreadPool_Stop, or past it

vars == <<workList, workerState, hand, pipe, fiberState, mainState>>

(* "ready": about to lock the mutex, at the top of the loop or after the   *)
(* wait.  "waiting": in pthread_cond_wait.  "working": inside              *)
(* work->function.  "writing": in xwrite.  "exited": out of the loop.      *)
WorkerStates == {"ready", "waiting", "working", "writing", "exited"}

Pending == {fiber \in Fibers : fiberState[fiber] = "waiting"}

In(states) == {worker \in Workers : workerState[worker] \in states}

-----------------------------------------------------------------------------
(* pthread_cond_signal wakes one of the waiting threads, if there is one.  *)
Signalled(states) ==
    LET asleep == {worker \in Workers : states[worker] = "waiting"} IN
    IF asleep = {} THEN {states}
    ELSE {[states EXCEPT ![worker] = "ready"] : worker \in asleep}

(* Mutant: works are taken in the wrong order.                             *)
InsertWorkListItemFront(item) ==
    /\ workList' = Cons(item, workList)
    /\ workerState' \in IF Len(workList') = 1 THEN Signalled(workerState)
                                             ELSE {workerState}

(* The signal is left out when the list was not empty before.              *)
InsertWorkListItem(item) ==
    /\ workList' = Append(workList, item)
    /\ workerState' \in IF Len(workList') = 1 THEN Signalled(workerState)
                                             ELSE {workerState}

(* main() initializes and starts the pool before the loop; the workers     *)
(* begin at the top of theirs.                                             *)
Init ==
    /\ workList = <<>>
    /\ workerState = [worker \in Workers |-> "ready"]
    /\ hand = [worker \in Workers |-> NoWork]
    /\ pipe = <<>>
    /\ fiberState = [fiber \in Fibers |-> "running"]
    /\ mainState = "loop"

(* The fiber posts and suspends.  The result cannot arrive in between,     *)
(* since the same thread reads the pipe.                                   *)
PostWork(fiber) ==
    /\ mainState = "loop"
    /\ fiberState[fiber] = "running"
    /\ fiberState' = [fiberState EXCEPT ![fiber] = "waiting"]
    /\ InsertWorkListItem(fiber)
    /\ UNCHANGED <<hand, pipe, mainState>>

ExitFiber(fiber) ==
    /\ mainState = "loop"
    /\ fiberState[fiber] = "running"
    /\ fiberState' = [fiberState EXCEPT ![fiber] = "exited"]
    /\ UNCHANGED <<workList, workerState, hand, pipe, mainState>>

(* The loop finds the pipe readable and resumes the fibers whose works it  *)
(* reads.                                                                  *)
WorkerCallback ==
    /\ mainState = "loop"
    /\ pipe # <<>>
    /\ LET n == IF Len(pipe) < BatchSize THEN Len(pipe) ELSE BatchSize
           works == {pipe[i] : i \in 1 .. n}
       IN /\ pipe' = SubSeq(pipe, n + 1, Len(pipe))
          /\ fiberState' = [fiber \in Fibers |->
                IF fiber \in works THEN "running" ELSE fiberState[fiber]]
    /\ UNCHANGED <<workList, workerState, hand, mainState>>

(* Mutant: the loop is left while fibers still wait.                       *)
StopEarly ==
    /\ mainState = "loop"
    /\ mainState' = "stop"
    /\ InsertWorkListItem(StopSignal)
    /\ UNCHANGED <<hand, pipe, fiberState>>

(* Loop returns when no fiber is left, and main() stops the pool.          *)
Stop ==
    /\ mainState = "loop"
    /\ \A fiber \in Fibers : fiberState[fiber] = "exited"
    /\ mainState' = "stop"
    /\ InsertWorkListItem(StopSignal)
    /\ UNCHANGED <<hand, pipe, fiberState>>

(* Every thread joined; the signal is taken off the list.                  *)
Joined ==
    /\ mainState = "stop"
    /\ In({"exited"}) = Workers
    /\ mainState' = "done"
    /\ workList' = RemoveFirst(workList, StopSignal)
    /\ UNCHANGED <<workerState, hand, pipe, fiberState>>

-----------------------------------------------------------------------------
(* The worker's critical section, from the lock or the return of the wait  *)
(* to the next wait or the unlock, in its three outcomes.                  *)
FindNothing(worker) ==
    /\ workerState[worker] = "ready"
    /\ workList = <<>>
    /\ workerState' = [workerState EXCEPT ![worker] = "waiting"]
    /\ UNCHANGED <<workList, hand, pipe, fiberState, mainState>>

(* Mutant: an ending worker does not wake the next one.                    *)
FindStopSignalAlone(worker) ==
    /\ workerState[worker] = "ready"
    /\ workList # <<>>
    /\ Head(workList) = StopSignal
    /\ workerState' = [workerState EXCEPT ![worker] = "exited"]
    /\ UNCHANGED <<workList, hand, pipe, fiberState, mainState>>

(* The stop signal stays on the list for the next worker.                  *)
FindStopSignal(worker) ==
    /\ workerState[worker] = "ready"
    /\ workList # <<>>
    /\ Head(workList) = StopSignal
    /\ workerState' \in Signalled([workerState EXCEPT ![worker] = "exited"])
    /\ UNCHANGED <<workList, hand, pipe, fiberState, mainState>>

(* Mutants: the front item is not compared with the stop signal; the taken *)
(* work stays on the list; no other worker is woken for the works that are *)
(* left.                                                                   *)
TakeAnyItem(worker) ==
    /\ workerState[worker] = "ready"
    /\ workList # <<>>
    /\ hand' = [hand EXCEPT ![worker] = Head(workList)]
    /\ workList' = Tail(workList)
    /\ LET states == [workerState EXCEPT ![worker] = "working"]
       IN  workerState' \in IF workList' # <<>> THEN Signalled(states)
                                                ELSE {states}
    /\ UNCHANGED <<pipe, fiberState, mainState>>

TakeWorkTwice(worker) ==
    /\ workerState[worker] = "ready"
    /\ workList # <<>>
    /\ Head(workList) # StopSignal
    /\ hand' = [hand EXCEPT ![worker] = Head(workList)]
    /\ workerState' \in Signalled([workerState EXCEPT ![worker] = "working"])
    /\ UNCHANGED <<workList, pipe, fiberState, mainState>>

TakeWorkAlone(worker) ==
    /\ workerState[worker] = "ready"
    /\ workList # <<>>
    /\ Head(workList) # StopSignal
    /\ hand' = [hand EXCEPT ![worker] = Head(workList)]
    /\ workList' = Tail(workList)
    /\ workerState' = [workerState EXCEPT ![worker] = "working"]
    /\ UNCHANGED <<pipe, fiberState, mainState>>

TakeWork(worker) ==
    /\ workerState[worker] = "ready"
    /\ workList # <<>>
    /\ Head(workList) # StopSignal
    /\ hand' = [hand EXCEPT ![worker] = Head(workList)]
    /\ workList' = Tail(workList)
    /\ LET states == [workerState EXCEPT ![worker] = "working"]
       IN  workerState' \in IF workList' # <<>> THEN Signalled(states)
                                                ELSE {states}
    /\ UNCHANGED <<pipe, fiberState, mainState>>

(* work->function returns.                                                 *)
FinishWork(worker) ==
    /\ workerState[worker] = "working"
    /\ workerState' = [workerState EXCEPT ![worker] = "writing"]
    /\ UNCHANGED <<workList, hand, pipe, fiberState, mainState>>

(* The write blocks while the pipe is full.                                *)
WriteWork(worker) ==
    /\ workerState[worker] = "writing"
    /\ Len(pipe) < PipeCapacity
    /\ pipe' = Append(pipe, hand[worker])
    /\ hand' = [hand EXCEPT ![worker] = NoWork]
    /\ workerState' = [workerState EXCEPT ![worker] = "ready"]
    /\ UNCHANGED <<workList, fiberState, mainState>>

(* pthread_cond_wait may return without a signal.                          *)
SpuriousWakeup(worker) ==
    /\ workerState[worker] = "waiting"
    /\ workerState' = [workerState EXCEPT ![worker] = "ready"]
    /\ UNCHANGED <<workList, hand, pipe, fiberState, mainState>>

Worker(worker) ==
    \/ FindNothing(worker) \/ FindStopSignal(worker) \/ TakeWork(worker)
    \/ FinishWork(worker) \/ WriteWork(worker)

Next ==
    \/ \E fiber \in Fibers : PostWork(fiber) \/ ExitFiber(fiber)
    \/ WorkerCallback \/ Stop \/ Joined
    \/ \E worker \in Workers : Worker(worker) \/ SpuriousWakeup(worker)

Spec == Init /\ [][Next]_vars

(* Threads are scheduled by the system, which also lets everyone who waits *)
(* for the mutex or for room in the pipe have it in the end, and a work's  *)
(* function returns.  The loop comes back to the pipe because fibers give  *)
(* the processor up.                                                       *)
Fairness ==
    /\ WF_vars(WorkerCallback) /\ WF_vars(Stop) /\ WF_vars(Joined)
    /\ \A worker \in Workers :
          WF_vars(Worker(worker)) /\ SF_vars(WriteWork(worker))

FairSpec == Spec /\ Fairness

-----------------------------------------------------------------------------
(* Type correctness of the pool.                                           *)
ThreadPoolTypeOK ==
    /\ workList \in Seq(Fibers \cup {StopSignal})
    /\ workerState \in [Workers -> WorkerStates]
    /\ hand \in [Workers -> Fibers \cup {NoWork}]
    /\ pipe \in Seq(Fibers) /\ Len(pipe) <= PipeCapacity
    /\ fiberState \in [Fibers -> {"running", "waiting", "exited"}]
    /\ mainState \in {"loop", "stop", "done"}

(* The work of a waiting fiber is in exactly one place: on the list, in    *)
(* one worker's hand or in the pipe.  No other work is anywhere: once its  *)
(* fiber runs again the struct on its stack is gone, and a pointer to it   *)
(* left in any of them would be dangling.                                  *)
Works == {worker \in Workers : hand[worker] # NoWork}
Listed == ToSet(workList) \ {StopSignal}
Held == {hand[worker] : worker \in Works}

WorkInOnePlace ==
    /\ IsInjective(workList) /\ IsInjective(pipe)
    /\ \A v, w \in Works : hand[v] = hand[w] => v = w
    /\ Listed \cap Held = {} /\ Listed \cap ToSet(pipe) = {}
    /\ Held \cap ToSet(pipe) = {}
    /\ Listed \cup Held \cup ToSet(pipe) = Pending
    /\ Works = In({"working", "writing"})

(* No worker sleeps beside work nobody will take: although a signal is     *)
(* sent for an empty list only, whenever the list is not empty and a       *)
(* thread is waiting, another is on its way to the list.                   *)
NoSleepBesideWork ==
    workList # <<>> /\ In({"waiting"}) # {} => In({"ready"}) # {}

(* The pool is stopped only when it is idle: the stop signal is alone on   *)
(* the list, no worker is blocked in a write nobody will read, and after   *)
(* the join nothing is left that would use the list or the pipe.           *)
StopFindsNoWork ==
    mainState # "loop" =>
        /\ workList = IF mainState = "stop" THEN <<StopSignal>> ELSE <<>>
        /\ pipe = <<>>
        /\ In({"working", "writing"}) = {}
        /\ mainState = "done" => In({"exited"}) = Workers

(* One stop signal ends every worker: the join returns, also if all of     *)
(* them are asleep when the signal is inserted.                            *)
StopCompletes == mainState = "stop" ~> mainState = "done"

(* Seen by the fibers the pool is a work service; the stop signal, which   *)
(* comes when all works are done, is no work.                              *)
Abstract == INSTANCE WorkService
                WITH MaxRunning <- Cardinality(Workers),
                     queue <- IF mainState = "loop" THEN workList ELSE <<>>,
                     running <- {hand[worker] : worker \in In({"working"})},
                     finished <- ToSet(pipe)
                                   \cup {hand[worker] : worker \in In({"writing"})}

WorkServiceSpec == Abstract!FairSpec
=============================================================================
