--------------------------------- MODULE IO ---------------------------------
(***************************************************************************)
(* The calls of src/Source/IO.c that block, SleepCurrentFiber, and the     *)
(* event loop of src/Source/Runtime.c: fibers, watches, timeouts and works *)
(* together.  The scheduler is Scheduler; of the poller, the timer and the *)
(* thread pool only what they promise is left (WatchService, implemented   *)
(* by IOPoller; TimeoutService, by Timer; works are done in any order).    *)
(*                                                                         *)
(* A fiber that waits has a watch, a timeout or both on its stack, so a    *)
(* watch and a timeout are named by their fiber.                           *)
(***************************************************************************)
EXTENDS Scheduler

CONSTANTS FDs,         \* the descriptors the program uses
          WorkPipe,    \* the pipe of the thread pool ...
          PoolWatch,   \* ... and its watch, which is always set
          NotSet, NoCall, Expired,
          MaxEvents    \* the events epoll_wait returns at most

IOCalls == [fd : FDs, condition : {"readable", "writable"}, timed : BOOLEAN,
            again : BOOLEAN]

ASSUME IOAssumption ==
    /\ WorkPipe \notin FDs /\ PoolWatch \notin Fibers
    /\ {NoCall, Expired} \cap IOCalls = {}
    /\ MaxEvents \in Nat \ {0}

VARIABLES
    phase,             \* of the loop: fibers, the I/O calls, the timeouts' calls
    target, ready, open, calls,       \* of WatchService
    pending, fired,                   \* of TimeoutService
    working, finished,                \* whose work is posted, whose is done
    call               \* the I/O call a fiber is in and will continue

pollerVars == <<target, ready, open, calls>>
timerVars == <<pending, fired>>
workVars == <<working, finished>>
vars == <<schedulerVars, phase, pollerVars, timerVars, workVars, call>>

IOPoller == INSTANCE WatchService
                WITH FDs <- FDs \cup {WorkPipe},
                     Watches <- Fibers \cup {PoolWatch}, Lasting <- {PoolWatch}

Timer == INSTANCE TimeoutService WITH Timeouts <- Fibers

Conditions == IOPoller!Conditions

-----------------------------------------------------------------------------
(* The condition each call waits for when it would block.                  *)
ReadCalls == {"Read", "ReadV", "Accept4", "Recv", "RecvFrom", "RecvMsg"}
WriteCalls == {"Write", "WriteV", "Connect", "Send", "SendTo", "SendMsg"}

ConditionOf(name) == IF name \in ReadCalls THEN "readable" ELSE "writable"

(* WaitForFD lays the record of a timed wait out in words one way, and     *)
(* WaitForFDCallback3 reads it in another.                                 *)
WatchWords == <<"watch.prev", "watch.next", "watch.condition", "watch.data",
                "watch.callback">>
TimeoutWords == <<"timeout.slotNumber", "timeout.dueTime", "timeout.data",
                  "timeout.callback">>
WaitContext == WatchWords \o TimeoutWords \o <<"fiber", "ok">>
Callback3Context == <<"fiber">> \o WatchWords \o TimeoutWords \o <<"ok">>

(* What the callback takes for the given word.                             *)
Callback3Finds(word) ==
    WaitContext[CHOOSE i \in DOMAIN Callback3Context : Callback3Context[i] = word]

-----------------------------------------------------------------------------
Init ==
    /\ SchedulerInit
    /\ phase = "fibers"
    /\ target = [watch \in Fibers \cup {PoolWatch} |->
                    IF watch = PoolWatch THEN <<WorkPipe, "readable">> ELSE NotSet]
    /\ ready = [fd \in FDs \cup {WorkPipe} |-> {}]
    /\ open = {WorkPipe}
    /\ calls = <<>>
    /\ pending = [fiber \in Fibers |-> "unset"] /\ fired = <<>>
    /\ working = {} /\ finished = {}
    /\ call = [fiber \in Fibers |-> NoCall]

Running(fiber) == activeFiber = fiber /\ fiber # NoFiber

(* Mutant: only the first wait of a call has the timeout.                  *)
WaitForFDTimedOnce(fiber, fd, condition, timed) ==
    /\ condition \notin ready[fd]
    /\ IOPoller!SetWatch(fiber, fd, condition)
    /\ IF timed /\ call[fiber] = NoCall
       THEN Timer!SetTimeout(fiber, "finite") ELSE UNCHANGED timerVars
    /\ SuspendCurrentFiber

(* The rest of WaitForFD after its record is filled in: set the watch, and *)
(* the timeout if there is one, and suspend.                               *)
WaitForFD(fiber, fd, condition, timed) ==
    /\ condition \notin ready[fd]                                   \* EAGAIN
    /\ IOPoller!SetWatch(fiber, fd, condition)
    /\ IF timed THEN Timer!SetTimeout(fiber, "finite") ELSE UNCHANGED timerVars
    /\ SuspendCurrentFiber

(* A fiber makes a call that would block.  One that does not block, or     *)
(* cannot wait because memory is lacking, changes nothing.                 *)
BeginCall(fiber) ==
    /\ Running(fiber) /\ call[fiber] = NoCall
    /\ \E name \in ReadCalls \cup WriteCalls, fd \in FDs, timed \in BOOLEAN :
          /\ WaitForFD(fiber, fd, ConditionOf(name), timed)
          /\ call' = [call EXCEPT ![fiber] =
                         [fd |-> fd, condition |-> ConditionOf(name), timed |-> timed,
                          again |-> name # "Connect"]]
    /\ UNCHANGED <<phase, workVars>>

(* The descriptor was ready, but another fiber was faster: the call waits  *)
(* again, with the whole timeout.  Connect does not.                       *)
WaitAgain(fiber) ==
    /\ Running(fiber) /\ call[fiber] \notin {NoCall, Expired}
    /\ call[fiber].again
    /\ WaitForFD(fiber, call[fiber].fd, call[fiber].condition, call[fiber].timed)
    /\ UNCHANGED <<phase, workVars, call>>

(* The call succeeds, fails, or cannot wait again.                         *)
ReturnFromCall(fiber) ==
    /\ Running(fiber) /\ call[fiber] # NoCall
    /\ call' = [call EXCEPT ![fiber] = NoCall]
    /\ UNCHANGED <<schedulerVars, phase, pollerVars, timerVars, workVars>>

SleepCurrentFiber(fiber) ==
    /\ Running(fiber) /\ call[fiber] = NoCall
    /\ \E setting \in {"finite", "forever"} : Timer!SetTimeout(fiber, setting)
    /\ SuspendCurrentFiber
    /\ UNCHANGED <<phase, pollerVars, workVars, call>>

(* GetAddrInfo and GetNameInfo.                                            *)
DoWork(fiber) ==
    /\ Running(fiber) /\ call[fiber] = NoCall
    /\ working' = working \cup {fiber}
    /\ SuspendCurrentFiber
    /\ UNCHANGED <<phase, pollerVars, timerVars, finished, call>>

(* The calls that do not wait.                                             *)
OtherCall(fiber) ==
    /\ Running(fiber) /\ call[fiber] = NoCall
    /\ AddFiber \/ AddAndRunFiber \/ YieldCurrentFiber
    /\ UNCHANGED <<phase, pollerVars, timerVars, workVars, call>>

Exit(fiber) ==
    /\ Running(fiber) /\ call[fiber] = NoCall
    /\ ExitCurrentFiber
    /\ UNCHANGED <<phase, pollerVars, timerVars, workVars, call>>

Close(fiber) ==
    /\ Running(fiber) /\ call[fiber] = NoCall
    /\ \E fd \in FDs : IOPoller!Close(fd)
    /\ UNCHANGED <<schedulerVars, phase, timerVars, workVars, call>>

(* Pipe2, Socket, and an Accept4 that succeeds.                            *)
Open(fiber) ==
    /\ Running(fiber) /\ call[fiber] = NoCall
    /\ \E fd \in FDs : IOPoller!Open(fd)
    /\ UNCHANGED <<schedulerVars, phase, timerVars, workVars, call>>

-----------------------------------------------------------------------------
(* Loop: the scheduler runs until no fiber is ready, ...                   *)
LoopTick ==
    /\ phase = "fibers"
    /\ Tick
    /\ UNCHANGED <<phase, pollerVars, timerVars, workVars, call>>

FibersDone == phase = "fibers" /\ activeFiber = NoFiber /\ readyFiberList = <<>>

(* Mutant: the loop is left with a fiber still there.                      *)
LoopEndEarly ==
    /\ FibersDone /\ fiberCount <= 1
    /\ phase' = "ended"
    /\ UNCHANGED <<schedulerVars, pollerVars, timerVars, workVars, call>>

LoopEnd ==
    /\ FibersDone /\ fiberCount = 0
    /\ phase' = "ended"
    /\ UNCHANGED <<schedulerVars, pollerVars, timerVars, workVars, call>>

(* Mutant: the loop waits for I/O without a limit.                         *)
LoopPollForever ==
    /\ FibersDone /\ fiberCount # 0
    /\ IOPoller!Poll
    /\ calls' # <<>>
    /\ phase' = "io"
    /\ UNCHANGED <<schedulerVars, timerVars, workVars, call>>

(* ... epoll_wait returns because of I/O, or when the earliest timeout is  *)
(* due; interrupted, it is called again, ...                               *)
LoopPoll ==
    /\ FibersDone /\ fiberCount # 0
    /\ IOPoller!Poll
    /\ calls' # <<>> \/ Timer!Finite # {}
    /\ phase' = "io"
    /\ UNCHANGED <<schedulerVars, timerVars, workVars, call>>

(* Mutant: the callback leaves the timeout set.                            *)
WaitForFDCallbackStillTimed(fiber) ==
    /\ ResumeFiber(fiber)
    /\ UNCHANGED <<timerVars, workVars, call>>

(* ... the I/O callbacks are dispatched: a wait's clears what was set, ... *)
WaitForFDCallback(fiber) ==
    /\ IF call[fiber].timed THEN Timer!ClearTimeout(fiber)    \* WaitForFDCallback2
                            ELSE UNCHANGED timerVars          \* WaitForFDCallback1
    /\ ResumeFiber(fiber)
    /\ UNCHANGED <<workVars, call>>

ResumeAll(fibers) ==
    /\ \E order \in SetToSeqs(fibers) : readyFiberList' = readyFiberList \o order
    /\ UNCHANGED <<activeFiber, deadFiberList, fiberCount, context, allocated>>

(* Mutant: works that are done are taken off the pipe and dropped.         *)
WorkerCallbackDropping ==
    /\ \E batch \in SUBSET finished \ {{}} : ResumeAll(batch)
    /\ finished' = {}
    /\ UNCHANGED <<working, timerVars, call>>

(* ... the pool's resumes fibers whose works are done (DoWorkCallback) ... *)
WorkerCallback ==
    /\ \E batch \in SUBSET finished \ {{}} :
          finished' = finished \ batch /\ ResumeAll(batch)
    /\ UNCHANGED <<working, timerVars, call>>

DispatchIO ==
    /\ phase = "io" /\ calls # <<>>
    /\ IF Head(calls) = PoolWatch
       THEN /\ WorkerCallback
            /\ calls' = Tail(calls)
            /\ ready' = [ready EXCEPT
                  ![WorkPipe] = IF finished' = {} THEN {} ELSE {"readable"}]
            /\ UNCHANGED <<target, open>>
       ELSE WaitForFDCallback(Head(calls)) /\ IOPoller!Dispatch
    /\ UNCHANGED phase

(* Mutant: the timer is asked before the I/O callbacks were dispatched.    *)
TimerTickEarly(due) ==
    /\ phase = "io"
    /\ Timer!Tick(due)
    /\ phase' = IF calls = <<>> THEN "timeouts" ELSE "io"
    /\ UNCHANGED <<schedulerVars, pollerVars, workVars, call>>

(* ... then the timer is asked what is due, ...                            *)
TimerTick(due) ==
    /\ phase = "io" /\ calls = <<>>
    /\ Timer!Tick(due)
    /\ phase' = "timeouts"
    /\ UNCHANGED <<schedulerVars, pollerVars, workVars, call>>

SleepCallback(fiber) ==
    /\ ResumeFiber(fiber)
    /\ UNCHANGED <<phase, pollerVars, call>>

(* Taking the watch off its list and resuming the fiber are only defined   *)
(* if the callback finds the words it looks for.                           *)
WaitForFDCallback3(fiber) ==
    \/ /\ \A word \in {"watch.prev", "watch.next", "watch.condition", "fiber"} :
             Callback3Finds(word) = word
       /\ IOPoller!ClearWatch(fiber)
       /\ ResumeFiber(fiber)
       /\ call' = [call EXCEPT ![fiber] = Expired]      \* ok = false, EINTR
       /\ UNCHANGED phase
    \/ /\ \E word \in {"watch.prev", "watch.next"} : Callback3Finds(word) # word
       /\ phase' = "faulted"
       /\ UNCHANGED <<schedulerVars, pollerVars, call>>

DispatchTimeout ==
    /\ phase = "timeouts" /\ fired # <<>>
    /\ fired' = Tail(fired)
    /\ IF call[Head(fired)] = NoCall THEN SleepCallback(Head(fired))
                                     ELSE WaitForFDCallback3(Head(fired))
    /\ UNCHANGED <<pending, workVars>>

(* ... and the fibers run again.                                           *)
RoundEnd ==
    /\ phase = "timeouts" /\ fired = <<>>
    /\ phase' = "fibers"
    /\ UNCHANGED <<schedulerVars, pollerVars, timerVars, workVars, call>>

-----------------------------------------------------------------------------
(* What the fibers and the loop do not do: the world makes descriptors     *)
(* ready or not, a thread finishes a work and writes to the pipe.          *)
Alive == phase \notin {"ended", "faulted"}

World ==
    /\ Alive
    /\ \E fd \in FDs : IOPoller!ReadinessChanges(fd)
    /\ UNCHANGED <<schedulerVars, phase, timerVars, workVars, call>>

FinishWork(fiber) ==
    /\ Alive /\ fiber \in working
    /\ working' = working \ {fiber}
    /\ finished' = finished \cup {fiber}
    /\ ready' = [ready EXCEPT ![WorkPipe] = {"readable"}]
    /\ UNCHANGED <<schedulerVars, phase, target, open, calls, timerVars, call>>

Blocks(fiber) ==
    BeginCall(fiber) \/ SleepCurrentFiber(fiber) \/ DoWork(fiber) \/ Exit(fiber)

Continues(fiber) == WaitAgain(fiber) \/ ReturnFromCall(fiber)

Loop ==
    \/ LoopTick \/ LoopPoll \/ DispatchIO \/ DispatchTimeout \/ RoundEnd
    \/ \E due \in SUBSET Timer!Finite : TimerTick(due)

Next ==
    \/ \E fiber \in Fibers :
          \/ Blocks(fiber) \/ Continues(fiber)
          \/ OtherCall(fiber) \/ Close(fiber) \/ Open(fiber)
          \/ FinishWork(fiber)
    \/ Loop \/ LoopEnd \/ World

Spec == Init /\ [][Next]_vars

(* epoll goes round the ready descriptors when its array is too small for  *)
(* them: one that stays due is reported in the end.                        *)
EpollReports(fd) ==
    \/ []<>(fd \notin IOPoller!DueFDs)
    \/ []<><<LoopPoll /\ \E watch \in ToSet(calls') : target[watch][1] = fd>>_vars

(* The promise of TimeoutService: a timeout that stays set expires.  One   *)
(* that is set and cleared again and again need not.                       *)
TimerExpires(fiber) == WF_timerVars(Timer!Expire(fiber))

(* The loop goes on when it is its turn; and while it goes round, epoll    *)
(* and the timer, which it asks in every round, keep their promises.       *)
(* Nothing is assumed of the fibers.                                       *)
Fairness ==
    /\ WF_vars(Loop)
    /\ []<><<RoundEnd>>_vars =>
          /\ \A fd \in FDs \cup {WorkPipe} : EpollReports(fd)
          /\ \A fiber \in Fibers : TimerExpires(fiber)

FairSpec == Spec /\ Fairness

-----------------------------------------------------------------------------
(* Type correctness of the calls and the loop.                             *)
IOTypeOK ==
    /\ SchedulerTypeOK
    /\ phase \in {"fibers", "io", "timeouts", "ended", "faulted"}
    /\ target \in [Fibers \cup {PoolWatch} ->
                      ((FDs \cup {WorkPipe}) \X Conditions) \cup {NotSet}]
    /\ ready \in [FDs \cup {WorkPipe} -> SUBSET Conditions]
    /\ open \subseteq FDs \cup {WorkPipe}
    /\ calls \in Seq(Fibers \cup {PoolWatch}) /\ fired \in Seq(Fibers)
    /\ pending \in [Fibers -> Timer!Settings]
    /\ {working, finished} \subseteq SUBSET Fibers
    /\ call \in [Fibers -> IOCalls \cup {NoCall, Expired}]

(* A timeout of the fiber is set or has just fired; somebody will resume   *)
(* the fiber.                                                              *)
Timed(fiber) == pending[fiber] # "unset" \/ fiber \in ToSet(fired)

Recorded(fiber) ==
    target[fiber] # NotSet \/ Timed(fiber) \/ fiber \in working \cup finished

(* What is recorded of a fiber agrees with the call it is in.              *)
RecordInOrder(fiber) ==
    /\ Recorded(fiber) => fiber \in Suspended
    /\ target[fiber] # NotSet =>
          /\ call[fiber] \notin {NoCall, Expired}
          /\ target[fiber] = <<call[fiber].fd, call[fiber].condition>>
    /\ Timed(fiber) /\ call[fiber] # NoCall =>
          call[fiber] # Expired /\ call[fiber].timed
    /\ fiber \in working \cup finished => target[fiber] = NotSet /\ ~Timed(fiber)

(* Every watch, timeout and work the poller, the timer, the pool or the    *)
(* queue of calls points to lies on the stack of a fiber that is suspended *)
(* in the call that set it, so the callback may resume it; and none of     *)
(* them points to one twice.  The loop keeps this by dispatching the I/O   *)
(* callbacks, which clear timeouts, before it asks the timer.              *)
RecordsOfBlockedFibers ==
    /\ \A fiber \in Fibers : RecordInOrder(fiber)
    /\ IsInjective(calls \o fired)
    /\ \A watch \in ToSet(calls) : target[watch] # NotSet
    /\ \A fiber \in ToSet(fired) : pending[fiber] = "unset"
    /\ working \cap finished = {}

(* What the queued I/O callbacks find when their turn comes: the pool's a  *)
(* work that is done, and that of a timed wait its timeout still in the    *)
(* heap, from which Timer_ClearTimeout takes it by its slot number without *)
(* a look.  Nothing that comes between the wait and the callback may fire  *)
(* or clear the one, or deliver the other.                                 *)
CallbacksDefined ==
    \A watch \in ToSet(calls) :
        IF watch = PoolWatch THEN finished # {}
        ELSE /\ watch \in Suspended
             /\ call[watch].timed => pending[watch] # "unset"

(* A suspended fiber is forgotten in two ways only, and never by the loop: *)
(* another fiber closes the descriptor it waits for, or the process faults *)
(* in WaitForFDCallback3.  Whatever else takes its record away resumes it. *)
OnlyCloseForgets ==
    [][ \A fiber \in Fibers :
          Recorded(fiber) /\ ~Recorded(fiber)' =>
             \/ fiber \in ToSet(readyFiberList')
             \/ \E fd \in open \ open' : target[fiber] = <<fd, call[fiber].condition>>
             \/ phase' = "faulted"
      ]_vars

(* The loop is left only when nothing is left that would call back: no     *)
(* fiber, no watch but the pool's, no timeout, no work a thread could      *)
(* still be doing; main() then stops the pool and frees everything.        *)
LoopEndsClean ==
    phase = "ended" =>
        /\ Live = {} /\ allocated = {}
        /\ calls = <<>> /\ fired = <<>> /\ working \cup finished = {}
        /\ \A fiber \in Fibers : target[fiber] = NotSet /\ pending[fiber] = "unset"

(* Nobody is left waiting for a descriptor that stays ready, a sleeper     *)
(* gets the processor back, and so does whoever was resumed.  The fibers   *)
(* have to let the loop have its turn: all of them blocked at once, again  *)
(* and again.  To yield is not enough, nor to exit having added another.   *)
WaitsEnd ==
    []<>FibersDone =>
        \A fiber \in Fibers :
            /\ []<>(fiber \notin IOPoller!Due)
            /\ pending[fiber] = "finite" ~> activeFiber = fiber
            /\ fiber \in ToSet(readyFiberList) ~> activeFiber = fiber

(* A timed wait that is not served in time returns: WaitForFD looks at     *)
(* context.ok and errorNumber after the suspension, which only             *)
(* WaitForFDCallback3 sets to false and EINTR.                             *)
TimedWaitReturns == phase # "faulted"
=============================================================================
