------------------------------ MODULE IOProofs ------------------------------
(***************************************************************************)
(* The safety of the event loop and of the calls that block, for any set   *)
(* of fibers and descriptors.  Why a callback may resume the fiber of its  *)
(* watch, timeout or work is RecordsOfBlockedFibers; it holds because of   *)
(* the order of the loop, which QueuesInTurn says, and because the         *)
(* scheduler leaves blocked fibers alone, which SchedulerProofs shows.     *)
(***************************************************************************)
EXTENDS IO, SchedulerProofs

(* I/O calls are queued only until the timer is asked, timeouts' calls     *)
(* only until the fibers run again.                                        *)
QueuesInTurn ==
    /\ calls # <<>> => phase = "io"
    /\ fired # <<>> => phase \in {"timeouts", "faulted"}

(* The inductive invariant.                                                *)
IOInv ==
    /\ SchedulerInv
    /\ IOTypeOK
    /\ RecordsOfBlockedFibers
    /\ QueuesInTurn
    /\ LoopEndsClean

-----------------------------------------------------------------------------
(* What the calls of the scheduler do to the suspended fibers.             *)

(* A suspended fiber is one that Scheduler_ResumeFiber may be called for.  *)
LEMMA SuspendedBlocked ==
    ASSUME SchedulerInv, NEW f \in Suspended
    PROVE  /\ Blocked(f)
           /\ f \in Live /\ f \in Fibers /\ f # NoFiber /\ f # activeFiber
           /\ f \notin ToSet(readyFiberList)
BY PlacesAsSets DEF Suspended, Blocked, SchedulerInv, ContextValid

LEMMA KeptSuspended ==
    ASSUME SchedulerInv, NEW f \in Suspended, Kept(f)
    PROVE  f \in Suspended'
BY SuspendedBlocked DEF Kept, Awake, Suspended

(* The running fiber suspends: it joins the suspended fibers, and no other *)
(* leaves them.                                                            *)
LEMMA SuspendCall ==
    ASSUME SchedulerInv, SuspendCurrentFiber
    PROVE  /\ SchedulerInv'
           /\ \A f \in Suspended : f \in Suspended'
           /\ activeFiber \in Suspended'
<1>1. SchedulerInv'
  BY SuspendCurrentFiber_Inv
<1>2. ASSUME NEW f \in Suspended PROVE f \in Suspended'
  BY <1>2, SuspendCurrentFiber_Keeps, SuspendedBlocked, KeptSuspended
<1>3. activeFiber \in Suspended'
  BY SuspendCurrentFiber_Keeps DEF Awake, Suspended
<1> QED
  BY <1>1, <1>2, <1>3

(* The other calls of a fiber, and the loop's tick.                        *)
LEMMA OtherSchedulerCalls ==
    ASSUME SchedulerInv,
           \/ AddFiber \/ AddAndRunFiber \/ YieldCurrentFiber
           \/ ExitCurrentFiber \/ Tick
    PROVE  /\ SchedulerInv'
           /\ \A f \in Suspended : f \in Suspended'
<1>1. SchedulerInv'
  BY AddFiber_Inv, AddAndRunFiber_Inv, YieldCurrentFiber_Inv,
     ExitCurrentFiber_Inv, Tick_Inv
<1>2. ASSUME NEW f \in Suspended PROVE f \in Suspended'
  <2>1. Blocked(f)
    BY SuspendedBlocked
  <2>2. Kept(f)
    BY <2>1, AddFiber_Keeps, AddAndRunFiber_Keeps, YieldCurrentFiber_Keeps,
       ExitCurrentFiber_Keeps, Tick_Keeps
  <2> QED
    BY <2>2, KeptSuspended
<1> QED
  BY <1>1, <1>2

(* Resuming one suspended fiber.                                           *)
LEMMA ResumeCall ==
    ASSUME SchedulerInv, NEW g \in Suspended, ResumeFiber(g)
    PROVE  /\ SchedulerInv'
           /\ \A f \in Suspended \ {g} : f \in Suspended'
           /\ g \in ToSet(readyFiberList')
           /\ UNCHANGED Live
<1>1. SchedulerInv'
  BY ResumeFiber_Inv
<1>2. ASSUME NEW f \in Suspended \ {g} PROVE f \in Suspended'
  BY <1>2, SuspendedBlocked, ResumeFiber_Keeps, KeptSuspended
<1>3. g \in ToSet(readyFiberList')
  BY SuspendedBlocked, ListInsertBack
  DEF ResumeFiber, SchedulerInv, SchedulerTypeOK
<1> QED
  BY <1>1, <1>2, <1>3 DEF ResumeFiber, Live

(* Resuming several, in any order.                                         *)
LEMMA ResumeAllCall ==
    ASSUME SchedulerInv, NEW batch \in SUBSET Suspended, ResumeAll(batch)
    PROVE  /\ SchedulerInv'
           /\ \A f \in Suspended \ batch : f \in Suspended'
           /\ batch \subseteq ToSet(readyFiberList')
           /\ UNCHANGED Live
<1>1. PICK order \in SetToSeqs(batch) : readyFiberList' = readyFiberList \o order
  BY DEF ResumeAll
<1>2. UNCHANGED <<activeFiber, deadFiberList, fiberCount, context, allocated>>
  BY DEF ResumeAll
<1>3. batch \subseteq Live /\ IsFiniteSet(Live) /\ Live \subseteq Fibers
  BY PlacesAsSets DEF Suspended
<1>4. order \in Seq(batch) /\ IsInjective(order) /\ ToSet(order) = batch
  BY <1>3, FS_Subset, ListOfSet
<1>5. order \in Seq(Fibers) /\ readyFiberList \in Seq(Fibers)
  BY <1>3, <1>4, SeqMonotonic DEF SchedulerInv, SchedulerTypeOK
<1>6. ToSet(readyFiberList) \cap batch = {} /\ activeFiber \notin batch
  BY DEF Suspended
<1>7. /\ readyFiberList' \in Seq(Fibers)
      /\ ToSet(readyFiberList') = ToSet(readyFiberList) \cup batch
      /\ IsInjective(readyFiberList')
  BY <1>1, <1>4, <1>5, <1>6, ListConcat
  DEF SchedulerInv, FiberInOnePlace
<1>8. UNCHANGED Live /\ Suspended' = Suspended \ batch
  BY <1>2, <1>7 DEF Live, Suspended
<1>9. SchedulerTypeOK'
  BY <1>2, <1>7 DEF SchedulerInv, SchedulerTypeOK
<1>10. FiberInOnePlace'
  BY <1>2, <1>3, <1>6, <1>7 DEF SchedulerInv, FiberInOnePlace, Live
<1>11. ContextValid'
  BY <1>2, <1>7, <1>8 DEF SchedulerInv, ContextValid
<1>12. CountMatches'
  BY <1>2, <1>8 DEF SchedulerInv, CountMatches
<1> QED
  BY <1>2, <1>7, <1>8, <1>9, <1>10, <1>11, <1>12 DEF SchedulerInv

-----------------------------------------------------------------------------
(* What a step leaves alone.                                               *)
Untouched(f) ==
    /\ target'[f] = target[f] /\ pending'[f] = pending[f] /\ call'[f] = call[f]
    /\ f \in ToSet(fired') <=> f \in ToSet(fired)
    /\ f \in working' <=> f \in working
    /\ f \in finished' <=> f \in finished

LEMMA RecordKept ==
    ASSUME NEW f \in Fibers, RecordInOrder(f), Untouched(f),
           f \in Suspended => f \in Suspended'
    PROVE  RecordInOrder(f)' /\ (Recorded(f)' <=> Recorded(f))
BY DEF RecordInOrder, Recorded, Timed, Untouched

(* No step forgets a fiber but in the ways OnlyCloseForgets allows.        *)
Remembered(f) ==
    Recorded(f) /\ ~Recorded(f)' =>
        \/ f \in ToSet(readyFiberList')
        \/ \E fd \in open \ open' : target[f] = <<fd, call[f].condition>>
        \/ phase' = "faulted"

AllRemembered == \A f \in Fibers : Remembered(f)

(* The fiber that runs has no record, and the loop has not been left.      *)
LEMMA RunningHasNoRecord ==
    ASSUME IOInv, NEW fiber \in Fibers, Running(fiber)
    PROVE  /\ fiber = activeFiber /\ fiber \in Live /\ fiber \notin Suspended
           /\ target[fiber] = NotSet /\ pending[fiber] = "unset"
           /\ fiber \notin ToSet(fired)
           /\ fiber \notin working /\ fiber \notin finished
           /\ phase # "ended" /\ fiber # PoolWatch
<1>1. fiber = activeFiber /\ fiber \in Live /\ fiber \notin Suspended
  BY PlacesAsSets DEF IOInv, Running, Suspended
<1>2. ~Recorded(fiber)
  BY <1>1 DEF IOInv, RecordsOfBlockedFibers, RecordInOrder
<1> QED
  BY <1>1, <1>2, IOAssumption DEF Recorded, Timed, IOInv, LoopEndsClean

(* A step of the running fiber that leaves the records of the others, the  *)
(* queues and the phase alone.                                             *)
LEMMA FiberStep ==
    ASSUME IOInv, SchedulerInv', IOTypeOK',
           NEW fiber \in Fibers, Running(fiber), RecordInOrder(fiber)',
           \A f \in Suspended : f \in Suspended',
           \A f \in Fibers \ {fiber} : Untouched(f),
           UNCHANGED <<calls, fired, phase>>,
           \A watch \in ToSet(calls) : target'[watch] # NotSet,
           \A f \in ToSet(fired) : pending'[f] = "unset",
           working' \cap finished' = {}
    PROVE  IOInv' /\ AllRemembered
<1>1. phase' # "ended"
  BY RunningHasNoRecord
<1>2. \A f \in Fibers : RecordInOrder(f)'
  BY RecordKept DEF IOInv, RecordsOfBlockedFibers
<1>3. RecordsOfBlockedFibers'
  BY <1>2 DEF IOInv, RecordsOfBlockedFibers
<1>4. AllRemembered
  <2>1. ~Recorded(fiber)
    BY RunningHasNoRecord DEF Recorded, Timed
  <2>2. \A f \in Fibers \ {fiber} : Recorded(f)' <=> Recorded(f)
    BY RecordKept DEF IOInv, RecordsOfBlockedFibers
  <2> QED
    BY <2>1, <2>2 DEF AllRemembered, Remembered
<1> QED
  BY <1>1, <1>3, <1>4 DEF IOInv, QueuesInTurn, LoopEndsClean

(* A fiber waits for a descriptor, for the first time or again.            *)
LEMMA WaitForFD_Inv ==
    ASSUME IOInv, NEW fiber \in Fibers, Running(fiber),
           NEW c \in IOCalls, WaitForFD(fiber, c.fd, c.condition, c.timed),
           call' = [call EXCEPT ![fiber] = c],
           UNCHANGED <<phase, workVars>>
    PROVE  IOInv' /\ AllRemembered
<1>1. /\ fiber = activeFiber /\ fiber \notin working /\ fiber \notin finished
      /\ fiber \notin ToSet(fired) /\ fiber # PoolWatch
      /\ target[fiber] = NotSet /\ pending[fiber] = "unset"
  BY RunningHasNoRecord
<1>2. /\ calls = <<>>
      /\ target' = [target EXCEPT ![fiber] = <<c.fd, c.condition>>]
      /\ UNCHANGED <<ready, open, calls>>
  BY DEF WaitForFD, IOPoller!SetWatch
<1>3. /\ SchedulerInv' /\ \A f \in Suspended : f \in Suspended'
      /\ fiber \in Suspended'
  BY <1>1, SuspendCall DEF WaitForFD, IOInv
<1>4. /\ UNCHANGED fired
      /\ pending' = IF c.timed THEN [pending EXCEPT ![fiber] = "finite"] ELSE pending
  BY DEF WaitForFD, Timer!SetTimeout, timerVars
<1>5. c.fd \in FDs /\ c.condition \in Conditions /\ c.timed \in BOOLEAN /\ c \notin {NoCall, Expired}
  BY IOAssumption DEF IOCalls, Conditions, IOPoller!Conditions
<1>6. UNCHANGED <<phase, working, finished>>
  BY DEF workVars
<1>7. IOTypeOK'
  BY <1>2, <1>3, <1>4, <1>5, <1>6
  DEF IOInv, SchedulerInv, IOTypeOK, Timer!Settings, Conditions, IOPoller!Conditions
<1>8. RecordInOrder(fiber)'
  BY <1>1, <1>2, <1>3, <1>4, <1>5, <1>6
  DEF RecordInOrder, Recorded, Timed, IOInv, IOTypeOK
<1>9. \A f \in Fibers \ {fiber} : Untouched(f)
  BY <1>2, <1>4, <1>6 DEF Untouched, IOInv, IOTypeOK
<1>10. /\ \A watch \in ToSet(calls) : target'[watch] # NotSet
       /\ \A f \in ToSet(fired) : pending'[f] = "unset"
       /\ working' \cap finished' = {}
  <2>1. ToSet(calls) = {}
    BY <1>2, ListEmpty DEF IOInv, IOTypeOK
  <2> QED
    BY <1>1, <1>4, <1>6, <2>1, ListEmpty
    DEF IOInv, RecordsOfBlockedFibers, IOTypeOK
<1> QED
  BY <1>2, <1>3, <1>4, <1>6, <1>7, <1>8, <1>9, <1>10, FiberStep

LEMMA BeginCall_Inv ==
    ASSUME IOInv, NEW fiber \in Fibers, BeginCall(fiber) PROVE IOInv' /\ AllRemembered
<1>1. PICK name \in ReadCalls \cup WriteCalls, fd \in FDs, timed \in BOOLEAN :
          /\ WaitForFD(fiber, fd, ConditionOf(name), timed)
          /\ call' = [call EXCEPT ![fiber] =
                         [fd |-> fd, condition |-> ConditionOf(name), timed |-> timed,
                          again |-> name # "Connect"]]
  BY DEF BeginCall
<1> DEFINE c == [fd |-> fd, condition |-> ConditionOf(name), timed |-> timed,
                 again |-> name # "Connect"]
<1>2. c \in IOCalls
  BY DEF IOCalls, ConditionOf
<1>3. c.fd = fd /\ c.condition = ConditionOf(name) /\ c.timed = timed
  OBVIOUS
<1>4. Running(fiber) /\ UNCHANGED <<phase, workVars>>
  BY DEF BeginCall
<1>5. WaitForFD(fiber, c.fd, c.condition, c.timed) /\ call' = [call EXCEPT ![fiber] = c]
  BY <1>1, <1>3
<1> HIDE DEF c
<1> QED
  BY <1>2, <1>4, <1>5, WaitForFD_Inv

LEMMA WaitAgain_Inv ==
    ASSUME IOInv, NEW fiber \in Fibers, WaitAgain(fiber) PROVE IOInv' /\ AllRemembered
<1> DEFINE c == call[fiber]
<1>1. /\ Running(fiber) /\ WaitForFD(fiber, c.fd, c.condition, c.timed)
      /\ c \notin {NoCall, Expired} /\ UNCHANGED <<phase, workVars, call>>
  BY DEF WaitAgain
<1>2. c \in IOCalls /\ call = [call EXCEPT ![fiber] = c]
  BY <1>1 DEF IOInv, IOTypeOK
<1> HIDE DEF c
<1> QED
  BY <1>1, <1>2, WaitForFD_Inv

(* The calls of a fiber that record nothing and block nobody.              *)
LEMMA ReturnFromCall_Inv ==
    ASSUME IOInv, NEW fiber \in Fibers, ReturnFromCall(fiber) PROVE IOInv' /\ AllRemembered
<1>1. /\ call' = [call EXCEPT ![fiber] = NoCall] /\ Running(fiber)
      /\ UNCHANGED <<schedulerVars, phase, pollerVars, timerVars, workVars>>
  BY DEF ReturnFromCall
<1>2. SchedulerInv' /\ Suspended' = Suspended
  BY <1>1, SchedulerNext_Inv DEF IOInv, schedulerVars, Suspended, Live
<1>3. /\ fiber \notin working /\ fiber \notin finished /\ fiber \notin ToSet(fired)
      /\ target[fiber] = NotSet /\ pending[fiber] = "unset"
  BY <1>1, RunningHasNoRecord
<1>4. IOTypeOK'
  BY <1>1, <1>2
  DEF IOInv, SchedulerInv, IOTypeOK, pollerVars, timerVars, workVars
<1>5. RecordInOrder(fiber)'
  BY <1>1, <1>3 DEF RecordInOrder, Recorded, Timed, pollerVars, timerVars, workVars
<1>6. \A f \in Fibers \ {fiber} : Untouched(f)
  BY <1>1 DEF Untouched, IOInv, IOTypeOK, pollerVars, timerVars, workVars
<1>7. /\ UNCHANGED <<calls, fired, phase>>
      /\ \A watch \in ToSet(calls) : target'[watch] # NotSet
      /\ \A f \in ToSet(fired) : pending'[f] = "unset"
      /\ working' \cap finished' = {}
  BY <1>1 DEF IOInv, RecordsOfBlockedFibers, pollerVars, timerVars, workVars
<1> QED
  BY <1>1, <1>2, <1>4, <1>5, <1>6, <1>7, FiberStep

LEMMA SleepCurrentFiber_Inv ==
    ASSUME IOInv, NEW fiber \in Fibers, SleepCurrentFiber(fiber) PROVE IOInv' /\ AllRemembered
<1>1. PICK setting \in {"finite", "forever"} :
          /\ Running(fiber) /\ call[fiber] = NoCall
          /\ pending' = [pending EXCEPT ![fiber] = setting]
          /\ UNCHANGED <<fired, phase, pollerVars, workVars, call>>
  BY DEF SleepCurrentFiber, Timer!SetTimeout
<1>2. /\ fiber = activeFiber
      /\ fiber \notin working /\ fiber \notin finished /\ fiber \notin ToSet(fired)
      /\ target[fiber] = NotSet
  BY <1>1, RunningHasNoRecord
<1>3. /\ SchedulerInv' /\ \A f \in Suspended : f \in Suspended'
      /\ fiber \in Suspended'
  BY <1>2, SuspendCall DEF SleepCurrentFiber, IOInv
<1>4. IOTypeOK'
  BY <1>1, <1>3
  DEF IOInv, SchedulerInv, IOTypeOK, Timer!Settings, pollerVars, workVars
<1>5. RecordInOrder(fiber)'
  BY <1>1, <1>2, <1>3 DEF RecordInOrder, Recorded, Timed, pollerVars, workVars
<1>6. \A f \in Fibers \ {fiber} : Untouched(f)
  BY <1>1 DEF Untouched, IOInv, IOTypeOK, pollerVars, workVars
<1>7. /\ UNCHANGED <<calls, fired, phase>>
      /\ \A watch \in ToSet(calls) : target'[watch] # NotSet
      /\ \A f \in ToSet(fired) : pending'[f] = "unset"
      /\ working' \cap finished' = {}
  <2>1. ToSet(fired) \subseteq Fibers
    BY ListEmpty DEF IOInv, IOTypeOK
  <2> QED
    BY <1>1, <1>2, <2>1
    DEF IOInv, IOTypeOK, RecordsOfBlockedFibers, pollerVars, workVars
<1> QED
  BY <1>1, <1>3, <1>4, <1>5, <1>6, <1>7, FiberStep

LEMMA DoWork_Inv ==
    ASSUME IOInv, NEW fiber \in Fibers, DoWork(fiber) PROVE IOInv' /\ AllRemembered
<1>1. /\ Running(fiber) /\ working' = working \cup {fiber}
      /\ UNCHANGED <<phase, pollerVars, timerVars, finished, call>>
  BY DEF DoWork
<1>2. /\ fiber = activeFiber
      /\ fiber \notin finished /\ fiber \notin ToSet(fired)
      /\ target[fiber] = NotSet /\ pending[fiber] = "unset"
  BY <1>1, RunningHasNoRecord
<1>3. /\ SchedulerInv' /\ \A f \in Suspended : f \in Suspended'
      /\ fiber \in Suspended'
  BY <1>2, SuspendCall DEF DoWork, IOInv
<1>4. IOTypeOK'
  BY <1>1, <1>3 DEF IOInv, SchedulerInv, IOTypeOK, pollerVars, timerVars
<1>5. RecordInOrder(fiber)'
  BY <1>1, <1>2, <1>3 DEF RecordInOrder, Recorded, Timed, pollerVars, timerVars
<1>6. \A f \in Fibers \ {fiber} : Untouched(f)
  BY <1>1 DEF Untouched, pollerVars, timerVars
<1>7. /\ UNCHANGED <<calls, fired, phase>>
      /\ \A watch \in ToSet(calls) : target'[watch] # NotSet
      /\ \A f \in ToSet(fired) : pending'[f] = "unset"
      /\ working' \cap finished' = {}
  BY <1>1, <1>2 DEF IOInv, RecordsOfBlockedFibers, pollerVars, timerVars
<1> QED
  BY <1>1, <1>3, <1>4, <1>5, <1>6, <1>7, FiberStep

LEMMA OtherCall_Inv ==
    ASSUME IOInv, NEW fiber \in Fibers, OtherCall(fiber) \/ Exit(fiber)
    PROVE  IOInv' /\ AllRemembered
<1>1. /\ Running(fiber)
      /\ UNCHANGED <<phase, pollerVars, timerVars, workVars, call>>
      /\ AddFiber \/ AddAndRunFiber \/ YieldCurrentFiber \/ ExitCurrentFiber
  BY DEF OtherCall, Exit
<1>2. SchedulerInv' /\ \A f \in Suspended : f \in Suspended'
  BY <1>1, OtherSchedulerCalls DEF IOInv
<1>3. IOTypeOK'
  BY <1>1, <1>2
  DEF IOInv, SchedulerInv, IOTypeOK, pollerVars, timerVars, workVars
<1>4. \A f \in Fibers : Untouched(f)
  BY <1>1 DEF Untouched, pollerVars, timerVars, workVars
<1>5. RecordInOrder(fiber)'
  BY <1>2, <1>4, RecordKept DEF IOInv, RecordsOfBlockedFibers
<1>6. /\ UNCHANGED <<calls, fired, phase>>
      /\ \A watch \in ToSet(calls) : target'[watch] # NotSet
      /\ \A f \in ToSet(fired) : pending'[f] = "unset"
      /\ working' \cap finished' = {}
  BY <1>1 DEF IOInv, RecordsOfBlockedFibers, pollerVars, timerVars, workVars
<1> QED
  BY <1>1, <1>2, <1>3, <1>4, <1>5, <1>6, FiberStep

(* Closing takes away the watches of others; their fibers stay suspended   *)
(* and may have a timeout.                                                 *)
LEMMA Close_Inv ==
    ASSUME IOInv, NEW fiber \in Fibers, Close(fiber) PROVE IOInv' /\ AllRemembered
<1>1. PICK fd \in FDs :
          /\ Running(fiber) /\ fd \in open
          /\ calls = <<>> /\ UNCHANGED calls
          /\ target' = [watch \in Fibers \cup {PoolWatch} |->
                 IF watch \in IOPoller!WatchesOf(fd) THEN NotSet ELSE target[watch]]
          /\ open' = open \ {fd}
          /\ ready' = [ready EXCEPT ![fd] = {}]
          /\ UNCHANGED <<schedulerVars, phase, timerVars, workVars, call>>
  BY DEF Close, IOPoller!Close
<1>2. SchedulerInv' /\ Suspended' = Suspended
  BY <1>1, SchedulerNext_Inv DEF IOInv, schedulerVars, Suspended, Live
<1>3. IOTypeOK'
  BY <1>1, <1>2 DEF IOInv, SchedulerInv, IOTypeOK, timerVars, workVars
<1>4. ASSUME NEW f \in Fibers PROVE RecordInOrder(f)'
  <2>1. target'[f] = target[f] \/ target'[f] = NotSet
    BY <1>1
  <2>2. RecordInOrder(f)
    BY DEF IOInv, RecordsOfBlockedFibers
  <2> QED
    BY <1>1, <1>2, <2>1, <2>2
    DEF RecordInOrder, Recorded, Timed, timerVars, workVars
<1>5. ToSet(calls) = {}
  BY <1>1, ListEmpty DEF IOInv, IOTypeOK
<1>6. RecordsOfBlockedFibers'
  BY <1>1, <1>4, <1>5 DEF IOInv, RecordsOfBlockedFibers, timerVars, workVars
<1>7. phase # "ended"
  BY <1>1, RunningHasNoRecord
<1>8. ASSUME NEW f \in Fibers, Recorded(f), ~Recorded(f)'
      PROVE  fd \in open \ open' /\ target[f] = <<fd, call[f].condition>>
  <2>1. target[f] # NotSet /\ f \in IOPoller!WatchesOf(fd)
    BY <1>1, <1>8 DEF Recorded, Timed, timerVars, workVars
  <2>2. target[f][1] = fd
    BY <2>1 DEF IOPoller!WatchesOf
  <2>3. target[f] = <<call[f].fd, call[f].condition>>
    BY <2>1 DEF IOInv, RecordsOfBlockedFibers, RecordInOrder
  <2> QED
    BY <1>1, <2>2, <2>3
<1>9. AllRemembered
  BY <1>8 DEF AllRemembered, Remembered
<1> QED
  BY <1>1, <1>2, <1>3, <1>6, <1>7, <1>9
  DEF IOInv, QueuesInTurn, LoopEndsClean, timerVars

(* A step that changes nothing but what descriptors are open and ready.    *)
LEMMA KernelStep ==
    ASSUME IOInv, open' \subseteq FDs \cup {WorkPipe},
           ready' \in [FDs \cup {WorkPipe} -> SUBSET Conditions],
           UNCHANGED <<schedulerVars, phase, target, calls, timerVars, call>>,
           \A f \in Fibers : f \in working' \cup finished' <=> f \in working \cup finished,
           {working', finished'} \subseteq SUBSET Fibers,
           working' \cap finished' = {}
    PROVE  IOInv' /\ AllRemembered
<1>1. SchedulerInv' /\ Suspended' = Suspended /\ UNCHANGED <<Live, allocated>>
  BY SchedulerNext_Inv DEF IOInv, schedulerVars, Suspended, Live
<1>2. IOTypeOK'
  BY <1>1 DEF IOInv, SchedulerInv, IOTypeOK, timerVars
<1>3. ASSUME NEW f \in Fibers PROVE RecordInOrder(f)'
  <2>1. RecordInOrder(f)
    BY DEF IOInv, RecordsOfBlockedFibers
  <2> QED
    BY <1>1, <2>1 DEF RecordInOrder, Recorded, Timed, timerVars
<1>4. RecordsOfBlockedFibers'
  BY <1>3 DEF IOInv, RecordsOfBlockedFibers, timerVars
<1>5. QueuesInTurn'
  BY DEF IOInv, QueuesInTurn, timerVars
<1>6. LoopEndsClean'
  BY <1>1 DEF IOInv, IOTypeOK, LoopEndsClean, timerVars
<1>7. AllRemembered
  BY DEF AllRemembered, Remembered, Recorded, Timed, timerVars
<1> QED
  BY <1>1, <1>2, <1>4, <1>5, <1>6, <1>7 DEF IOInv

LEMMA Open_Inv ==
    ASSUME IOInv, NEW fiber \in Fibers, Open(fiber) PROVE IOInv' /\ AllRemembered
<1>1. PICK fd \in FDs : open' = open \cup {fd} /\ UNCHANGED <<target, ready, calls>>
  BY DEF Open, IOPoller!Open
<1> QED
  BY <1>1, KernelStep
  DEF Open, IOInv, IOTypeOK, RecordsOfBlockedFibers, workVars

LEMMA World_Inv == ASSUME IOInv, World PROVE IOInv' /\ AllRemembered
<1>1. PICK fd \in FDs : IOPoller!ReadinessChanges(fd)
  BY DEF World
<1>2. ready' \in [FDs \cup {WorkPipe} -> SUBSET Conditions]
  BY <1>1 DEF IOPoller!ReadinessChanges, IOInv, IOTypeOK, Conditions
<1> QED
  BY <1>1, <1>2, KernelStep
  DEF World, IOPoller!ReadinessChanges, IOInv, IOTypeOK,
      RecordsOfBlockedFibers, workVars

LEMMA FinishWork_Inv ==
    ASSUME IOInv, NEW fiber \in Fibers, FinishWork(fiber) PROVE IOInv' /\ AllRemembered
<1>1. ready' \in [FDs \cup {WorkPipe} -> SUBSET Conditions]
  BY DEF FinishWork, IOInv, IOTypeOK, Conditions, IOPoller!Conditions
<1> QED
  BY <1>1, KernelStep
  DEF FinishWork, IOInv, IOTypeOK, RecordsOfBlockedFibers

-----------------------------------------------------------------------------
(* The steps of the loop.  A tick of the scheduler and the end of a round  *)
(* touch no record.                                                        *)
LEMMA LoopTick_Inv == ASSUME IOInv, LoopTick PROVE IOInv' /\ AllRemembered
<1>1. /\ phase = "fibers" /\ Tick
      /\ UNCHANGED <<phase, pollerVars, timerVars, workVars, call>>
  BY DEF LoopTick
<1>2. SchedulerInv' /\ \A f \in Suspended : f \in Suspended'
  BY <1>1, OtherSchedulerCalls DEF IOInv
<1>3. IOTypeOK'
  BY <1>1, <1>2
  DEF IOInv, SchedulerInv, IOTypeOK, pollerVars, timerVars, workVars
<1>4. \A f \in Fibers : Untouched(f)
  BY <1>1 DEF Untouched, pollerVars, timerVars, workVars
<1>5. \A f \in Fibers : RecordInOrder(f)' /\ Remembered(f)
  BY <1>2, <1>4, RecordKept DEF IOInv, RecordsOfBlockedFibers, Remembered
<1>6. RecordsOfBlockedFibers' /\ AllRemembered
  BY <1>1, <1>5
  DEF IOInv, RecordsOfBlockedFibers, pollerVars, timerVars, workVars, AllRemembered
<1> QED
  BY <1>1, <1>2, <1>3, <1>6
  DEF IOInv, QueuesInTurn, LoopEndsClean, pollerVars, timerVars

LEMMA RoundEnd_Inv == ASSUME IOInv, RoundEnd PROVE IOInv' /\ AllRemembered
<1>1. /\ phase = "timeouts" /\ fired = <<>> /\ phase' = "fibers"
      /\ UNCHANGED <<schedulerVars, pollerVars, timerVars, workVars, call>>
  BY DEF RoundEnd
<1>2. SchedulerInv' /\ Suspended' = Suspended
  BY <1>1, SchedulerNext_Inv DEF IOInv, schedulerVars, Suspended, Live
<1>3. IOTypeOK'
  BY <1>1, <1>2
  DEF IOInv, SchedulerInv, IOTypeOK, pollerVars, timerVars, workVars
<1>4. \A f \in Fibers : RecordInOrder(f)' /\ Remembered(f)
  BY <1>1, <1>2
  DEF IOInv, RecordsOfBlockedFibers, RecordInOrder, Recorded, Timed,
      pollerVars, timerVars, workVars, Remembered
<1>5. RecordsOfBlockedFibers' /\ AllRemembered
  BY <1>1, <1>4
  DEF IOInv, RecordsOfBlockedFibers, pollerVars, timerVars, workVars, AllRemembered
<1> QED
  BY <1>1, <1>2, <1>3, <1>5
  DEF IOInv, QueuesInTurn, LoopEndsClean, pollerVars, timerVars

(* The loop is left when the counter is zero: nothing lives, so nothing    *)
(* is recorded.                                                            *)
LEMMA LoopEnd_Inv == ASSUME IOInv, LoopEnd PROVE IOInv' /\ AllRemembered
<1>1. /\ phase = "fibers" /\ activeFiber = NoFiber /\ fiberCount = 0
      /\ phase' = "ended"
      /\ UNCHANGED <<schedulerVars, pollerVars, timerVars, workVars, call>>
  BY DEF LoopEnd, FibersDone
<1>2. /\ SchedulerInv' /\ Suspended' = Suspended
      /\ Live' = Live /\ allocated' = allocated
  BY <1>1, SchedulerNext_Inv DEF IOInv, schedulerVars, Suspended, Live
<1>3. Live = {} /\ allocated = {}
  <2>1. Cardinality(Live) = 0 /\ deadFiberList = <<>> /\ IsFiniteSet(Live)
    BY <1>1, PlacesAsSets DEF IOInv, SchedulerInv, CountMatches
  <2>2. Live = {}
    BY <2>1, FS_EmptySet
  <2>3. ToSet(deadFiberList) = {}
    BY <2>1, ListEmpty DEF IOInv, IOTypeOK, SchedulerTypeOK
  <2> QED
    BY <2>2, <2>3 DEF Live
<1>4. \A f \in Fibers : ~Recorded(f)
  BY <1>3 DEF IOInv, RecordsOfBlockedFibers, RecordInOrder, Suspended
<1>5. IOTypeOK'
  BY <1>1, <1>2
  DEF IOInv, SchedulerInv, IOTypeOK, pollerVars, timerVars, workVars
<1>6. \A f \in Fibers : RecordInOrder(f)' /\ Remembered(f)
  BY <1>1, <1>2
  DEF IOInv, RecordsOfBlockedFibers, RecordInOrder, Recorded, Timed,
      pollerVars, timerVars, workVars, Remembered
<1>7. RecordsOfBlockedFibers' /\ AllRemembered
  BY <1>1, <1>6
  DEF IOInv, RecordsOfBlockedFibers, pollerVars, timerVars, workVars, AllRemembered
<1>8. calls = <<>> /\ fired = <<>>
  BY <1>1 DEF IOInv, QueuesInTurn
<1>9. LoopEndsClean'
  BY <1>1, <1>2, <1>3, <1>4, <1>8
  DEF LoopEndsClean, Recorded, Timed, IOInv, IOTypeOK,
      pollerVars, timerVars, workVars
<1> QED
  BY <1>1, <1>2, <1>5, <1>7, <1>8, <1>9
  DEF IOInv, QueuesInTurn, pollerVars, timerVars

(* The services speak of the same sequences.                               *)
LEMMA SameSequences ==
    \A S : IOPoller!SetToSeqs(S) = SetToSeqs(S) /\ Timer!SetToSeqs(S) = SetToSeqs(S)
<1>1. ASSUME NEW S
      PROVE  IOPoller!Cardinality(S) = Cardinality(S) /\ Timer!Cardinality(S) = Cardinality(S)
  BY DEF IOPoller!Cardinality, Cardinality, Timer!Cardinality
<1> QED
  BY <1>1 DEF SetToSeqs, IOPoller!SetToSeqs, Timer!SetToSeqs

(* Whoever has a record lives, so only finitely many have one.             *)
LEMMA FinitelyManyRecords ==
    ASSUME IOInv
    PROVE  /\ IsFiniteSet(IOPoller!Due)
           /\ \A due \in SUBSET Timer!Finite : IsFiniteSet(due)
<1>1. IsFiniteSet(Live) /\ IsFiniteSet(Live \cup {PoolWatch})
  BY PlacesAsSets, FS_AddElement DEF IOInv
<1>2. \A f \in Fibers : Recorded(f) => f \in Live
  BY DEF IOInv, RecordsOfBlockedFibers, RecordInOrder, Suspended
<1>3. IOPoller!Due \subseteq Live \cup {PoolWatch}
  BY <1>2 DEF IOPoller!Due, Recorded
<1>4. \A due \in SUBSET Timer!Finite : due \subseteq Live
  BY <1>2 DEF Timer!Finite, Recorded, Timed
<1> QED
  BY <1>1, <1>3, <1>4, FS_Subset

(* With one queue empty the other has no call twice.                       *)
LEMMA QueuesAlone ==
    ASSUME IOTypeOK
    PROVE  /\ fired = <<>> => calls \o fired = calls
           /\ calls = <<>> => calls \o fired = fired
BY ConcatEmptySeq DEF IOTypeOK

(* Whatever epoll_wait returned with, only due watches are queued, once.   *)
LEMMA PolledCalls ==
    ASSUME IOInv, IOPoller!Poll
    PROVE  /\ calls = <<>> /\ UNCHANGED <<target, ready, open>>
           /\ calls' \in Seq(IOPoller!Due) /\ IsInjective(calls')
           /\ ToSet(calls') \subseteq IOPoller!Due
<1>1. /\ calls = <<>> /\ UNCHANGED <<target, ready, open>>
      /\ \E fds : calls' \in IOPoller!SetToSeqs(IOPoller!DueAt(fds))
  BY DEF IOPoller!Poll
<1>2. PICK fds : calls' \in SetToSeqs(IOPoller!DueAt(fds))
  BY <1>1, SameSequences
<1>3. IOPoller!DueAt(fds) \subseteq IOPoller!Due
  BY DEF IOPoller!DueAt
<1>4. IsFiniteSet(IOPoller!DueAt(fds))
  BY <1>3, FinitelyManyRecords, FS_Subset
<1>5. /\ calls' \in Seq(IOPoller!DueAt(fds)) /\ IsInjective(calls')
      /\ ToSet(calls') = IOPoller!DueAt(fds)
  BY <1>2, <1>4, ListOfSet
<1>6. calls' \in Seq(IOPoller!Due)
  BY <1>3, <1>5, SeqMonotonic
<1> QED
  BY <1>1, <1>3, <1>5, <1>6

LEMMA LoopPoll_Inv == ASSUME IOInv, LoopPoll PROVE IOInv' /\ AllRemembered
<1>1. /\ phase = "fibers" /\ phase' = "io" /\ calls = <<>>
      /\ UNCHANGED <<target, ready, open>>
      /\ UNCHANGED <<schedulerVars, timerVars, workVars, call>>
  BY PolledCalls DEF LoopPoll, FibersDone
<1>2. SchedulerInv' /\ Suspended' = Suspended
  BY <1>1, SchedulerNext_Inv DEF IOInv, schedulerVars, Suspended, Live
<1>3. fired = <<>>
  BY <1>1 DEF IOInv, QueuesInTurn
<1>4. /\ calls' \in Seq(IOPoller!Due) /\ IsInjective(calls')
      /\ ToSet(calls') \subseteq IOPoller!Due
  BY PolledCalls DEF LoopPoll
<1>5. calls' \in Seq(Fibers \cup {PoolWatch})
  <2>1. IOPoller!Due \subseteq Fibers \cup {PoolWatch}
    BY DEF IOPoller!Due
  <2> QED
    BY <1>4, <2>1, SeqMonotonic
<1>6. IOTypeOK'
  BY <1>1, <1>2, <1>5 DEF IOInv, SchedulerInv, IOTypeOK, timerVars, workVars
<1>7. \A f \in Fibers : RecordInOrder(f)' /\ Remembered(f)
  BY <1>1, <1>2
  DEF IOInv, RecordsOfBlockedFibers, RecordInOrder, Recorded, Timed,
      timerVars, workVars, Remembered
<1>8. IsInjective(calls' \o fired')
  BY <1>1, <1>3, <1>4, <1>6, QueuesAlone, ConcatEmptySeq DEF timerVars, IOTypeOK
<1>9. RecordsOfBlockedFibers'
  <2>1. \A watch \in ToSet(calls') : target'[watch] # NotSet
    BY <1>1, <1>4 DEF IOPoller!Due
  <2> QED
    BY <1>1, <1>7, <1>8, <2>1
    DEF IOInv, RecordsOfBlockedFibers, timerVars, workVars
<1> QED
  BY <1>1, <1>2, <1>3, <1>6, <1>7, <1>9
  DEF IOInv, QueuesInTurn, LoopEndsClean, timerVars, AllRemembered

(* What is left of the queue of I/O calls when its first has been taken.   *)
LEMMA FirstCall ==
    ASSUME IOInv, phase = "io", calls # <<>>
    PROVE  /\ fired = <<>> /\ ToSet(fired) = {}
           /\ Head(calls) \in Fibers \cup {PoolWatch}
           /\ target[Head(calls)] # NotSet
           /\ Tail(calls) \in Seq(Fibers \cup {PoolWatch})
           /\ IsInjective(Tail(calls) \o fired)
           /\ ToSet(Tail(calls)) = ToSet(calls) \ {Head(calls)}
<1>1. fired = <<>> /\ calls \in Seq(Fibers \cup {PoolWatch}) /\ fired \in Seq(Fibers)
  BY DEF IOInv, QueuesInTurn, IOTypeOK
<1>2. IsInjective(calls)
  BY <1>1, ConcatEmptySeq DEF IOInv, RecordsOfBlockedFibers
<1>3. /\ Head(calls) \in Fibers \cup {PoolWatch}
      /\ Tail(calls) \in Seq(Fibers \cup {PoolWatch})
      /\ ToSet(calls) = ToSet(Tail(calls)) \cup {Head(calls)}
      /\ IsInjective(Tail(calls)) /\ Head(calls) \notin ToSet(Tail(calls))
  BY <1>1, <1>2, ListTakeFront
<1>4. Tail(calls) \o fired = Tail(calls) /\ ToSet(fired) = {}
  BY <1>1, <1>3, ConcatEmptySeq, ListEmpty
<1> QED
  BY <1>1, <1>3, <1>4 DEF IOInv, RecordsOfBlockedFibers

(* The callback of a wait: the fiber's watch and timeout are taken away    *)
(* and the fiber, which was suspended, is ready.                           *)
LEMMA WaitForFDCallback_Inv ==
    ASSUME IOInv, DispatchIO, Head(calls) # PoolWatch
    PROVE  IOInv' /\ AllRemembered
<1>0. PICK g \in Fibers : g = Head(calls)
  BY FirstCall DEF DispatchIO
<1>1. /\ phase = "io" /\ calls # <<>> /\ UNCHANGED phase
      /\ WaitForFDCallback(g) /\ IOPoller!Dispatch
  BY <1>0 DEF DispatchIO
<1>2. /\ target[g] # NotSet
      /\ calls' = Tail(calls)
      /\ Tail(calls) \in Seq(Fibers \cup {PoolWatch})
      /\ IsInjective(Tail(calls) \o fired)
      /\ ToSet(Tail(calls)) = ToSet(calls) \ {g}
      /\ target' = [target EXCEPT ![g] = NotSet]
      /\ UNCHANGED <<ready, open>>
      /\ fired = <<>> /\ ToSet(fired) = {}
  BY <1>0, <1>1, FirstCall DEF IOPoller!Dispatch
<1>3. RecordInOrder(g) /\ g \in Suspended
  BY <1>2 DEF IOInv, RecordsOfBlockedFibers, RecordInOrder, Recorded
<1>4. /\ g \notin working /\ g \notin finished
      /\ ~call[g].timed => pending[g] = "unset"
  BY <1>2, <1>3 DEF RecordInOrder, Timed
<1>5. /\ SchedulerInv' /\ g \in ToSet(readyFiberList')
      /\ \A f \in Suspended \ {g} : f \in Suspended'
  BY <1>1, <1>3, ResumeCall DEF WaitForFDCallback, IOInv
<1>6. /\ pending' = [pending EXCEPT ![g] = "unset"]
      /\ UNCHANGED <<fired, working, finished, call>>
  BY <1>1, <1>2, <1>4
  DEF WaitForFDCallback, Timer!ClearTimeout, timerVars, workVars, IOInv, IOTypeOK
<1>7. IOTypeOK'
  BY <1>1, <1>2, <1>5, <1>6
  DEF IOInv, SchedulerInv, IOTypeOK, Timer!Settings
<1>8. RecordInOrder(g)'
  BY <1>2, <1>4, <1>6
  DEF RecordInOrder, Recorded, Timed, IOInv, IOTypeOK
<1>9. \A f \in Fibers \ {g} : Untouched(f)
  BY <1>2, <1>6 DEF Untouched, IOInv, IOTypeOK
<1>10. \A f \in Fibers : RecordInOrder(f)' /\ Remembered(f)
  BY <1>5, <1>8, <1>9, RecordKept DEF IOInv, RecordsOfBlockedFibers, Remembered
<1>11. \A watch \in ToSet(calls') : target'[watch] # NotSet
  <2>1. ToSet(calls) \subseteq Fibers \cup {PoolWatch}
    BY ListEmpty DEF IOInv, IOTypeOK
  <2> QED
    BY <1>2, <2>1 DEF IOInv, IOTypeOK, RecordsOfBlockedFibers
<1>12. RecordsOfBlockedFibers'
  BY <1>2, <1>6, <1>10, <1>11 DEF IOInv, RecordsOfBlockedFibers
<1> QED
  BY <1>1, <1>2, <1>5, <1>6, <1>7, <1>10, <1>12
  DEF IOInv, QueuesInTurn, LoopEndsClean, AllRemembered

(* The pool's callback: the fibers of a batch of works are ready.          *)
LEMMA WorkerCallback_Inv ==
    ASSUME IOInv, DispatchIO, Head(calls) = PoolWatch
    PROVE  IOInv' /\ AllRemembered
<1>1. /\ phase = "io" /\ calls # <<>> /\ UNCHANGED phase
      /\ calls' = Tail(calls)
      /\ ready' = [ready EXCEPT
            ![WorkPipe] = IF finished' = {} THEN {} ELSE {"readable"}]
      /\ UNCHANGED <<target, open, working, timerVars, call>>
  BY DEF DispatchIO, WorkerCallback
<1>2. PICK batch \in SUBSET finished : finished' = finished \ batch /\ ResumeAll(batch)
  BY DEF DispatchIO, WorkerCallback
<1>3. batch \in SUBSET Suspended
  BY DEF IOInv, IOTypeOK, RecordsOfBlockedFibers, RecordInOrder, Recorded
<1>4. /\ SchedulerInv' /\ batch \subseteq ToSet(readyFiberList')
      /\ \A f \in Suspended \ batch : f \in Suspended'
  BY <1>2, <1>3, ResumeAllCall DEF IOInv
<1>5. /\ Tail(calls) \in Seq(Fibers \cup {PoolWatch})
      /\ IsInjective(Tail(calls) \o fired)
      /\ ToSet(Tail(calls)) = ToSet(calls) \ {PoolWatch}
      /\ fired = <<>>
  BY <1>1, FirstCall
<1>6. IOTypeOK'
  BY <1>1, <1>2, <1>4, <1>5
  DEF IOInv, SchedulerInv, IOTypeOK, Conditions, IOPoller!Conditions, timerVars
<1>7. ASSUME NEW f \in Fibers PROVE RecordInOrder(f)' /\ Remembered(f)
  <2>1. RecordInOrder(f) /\ working \cap finished = {}
    BY DEF IOInv, RecordsOfBlockedFibers
  <2>2. CASE f \in batch
    BY <1>1, <1>2, <1>4, <2>1, <2>2
    DEF RecordInOrder, Recorded, Timed, timerVars, Remembered
  <2>3. CASE f \notin batch
    <3>1. Untouched(f)
      BY <1>1, <1>2, <2>3 DEF Untouched, timerVars
    <3> QED
      BY <1>4, <2>1, <2>3, <3>1, RecordKept DEF Remembered
  <2> QED
    BY <2>2, <2>3
<1>8. RecordsOfBlockedFibers'
  BY <1>1, <1>2, <1>5, <1>7 DEF IOInv, RecordsOfBlockedFibers, timerVars
<1> QED
  BY <1>1, <1>2, <1>4, <1>5, <1>6, <1>7, <1>8
  DEF IOInv, QueuesInTurn, LoopEndsClean, timerVars, AllRemembered

(* What is due leaves the timer for the queue, in which it is once.        *)
LEMMA TimerTick_Inv ==
    ASSUME IOInv, NEW due \in SUBSET Timer!Finite, TimerTick(due)
    PROVE  IOInv' /\ AllRemembered
<1>1. /\ phase = "io" /\ calls = <<>> /\ phase' = "timeouts"
      /\ fired' \in SetToSeqs(due)
      /\ pending' = [timeout \in Fibers |->
                        IF timeout \in due THEN "unset" ELSE pending[timeout]]
      /\ UNCHANGED <<schedulerVars, pollerVars, workVars, call>>
  <2>1. Timer!Tick(due)
    BY DEF TimerTick
  <2>2. /\ fired' \in SetToSeqs(due)
        /\ pending' = [timeout \in Fibers |->
                          IF timeout \in due THEN "unset" ELSE pending[timeout]]
    BY <2>1, SameSequences DEF Timer!Tick
  <2> QED
    BY <2>2 DEF TimerTick
<1>2. SchedulerInv' /\ Suspended' = Suspended
  BY <1>1, SchedulerNext_Inv DEF IOInv, schedulerVars, Suspended, Live
<1>3. fired = <<>> /\ ToSet(fired) = {} /\ ToSet(calls) = {}
  BY <1>1, ListEmpty DEF IOInv, QueuesInTurn, IOTypeOK
<1>4. due \subseteq Fibers /\ \A f \in due : pending[f] = "finite"
  BY DEF Timer!Finite
<1>5. /\ fired' \in Seq(Fibers) /\ IsInjective(fired') /\ ToSet(fired') = due
  BY <1>1, <1>4, FinitelyManyRecords, ListOfSet, SeqMonotonic
<1>6. IOTypeOK'
  BY <1>1, <1>2, <1>5
  DEF IOInv, SchedulerInv, IOTypeOK, Timer!Settings, pollerVars, workVars
<1>7. ASSUME NEW f \in Fibers PROVE RecordInOrder(f)' /\ Remembered(f)
  <2>1. RecordInOrder(f)
    BY DEF IOInv, RecordsOfBlockedFibers
  <2>2. Timed(f)' <=> Timed(f)
    BY <1>1, <1>3, <1>4, <1>5 DEF Timed
  <2> QED
    BY <1>1, <1>2, <2>1, <2>2
    DEF RecordInOrder, Recorded, pollerVars, workVars, Remembered
<1>8. RecordsOfBlockedFibers'
  <2>1. IsInjective(calls' \o fired')
    BY <1>1, <1>5, ConcatEmptySeq DEF pollerVars
  <2>2. \A f \in ToSet(fired') : pending'[f] = "unset"
    BY <1>1, <1>4, <1>5
  <2> QED
    BY <1>1, <1>3, <1>7, <2>1, <2>2
    DEF IOInv, RecordsOfBlockedFibers, pollerVars, workVars
<1> QED
  BY <1>1, <1>2, <1>6, <1>7, <1>8
  DEF IOInv, QueuesInTurn, LoopEndsClean, pollerVars, AllRemembered

(* A timeout's call: the sleeper is ready, or the timed wait loses its     *)
(* watch and its fiber is ready, or the process faults.                    *)
LEMMA DispatchTimeout_Inv ==
    ASSUME IOInv, DispatchTimeout PROVE IOInv' /\ AllRemembered
<1>1. /\ phase = "timeouts" /\ fired # <<>> /\ fired' = Tail(fired)
      /\ UNCHANGED <<pending, workVars>>
  BY DEF DispatchTimeout
<1>2. /\ calls = <<>> /\ fired \in Seq(Fibers) /\ ToSet(calls) = {}
      /\ IsInjective(fired)
  <2>1. calls = <<>> /\ fired \in Seq(Fibers)
    BY <1>1 DEF IOInv, QueuesInTurn, IOTypeOK
  <2>2. IsInjective(fired)
    BY <2>1, ConcatEmptySeq DEF IOInv, RecordsOfBlockedFibers
  <2> QED
    BY <2>1, <2>2, ListEmpty
<1>3. PICK g \in Fibers : g = Head(fired)
  BY <1>1, <1>2, ListTakeFront
<1>4. /\ fired' \in Seq(Fibers) /\ IsInjective(fired')
      /\ ToSet(fired) = ToSet(fired') \cup {g} /\ g \notin ToSet(fired')
  BY <1>1, <1>2, <1>3, ListTakeFront
<1>5. /\ RecordInOrder(g) /\ Timed(g) /\ g \in Suspended
      /\ pending[g] = "unset" /\ g \notin working /\ g \notin finished
  BY <1>4 DEF IOInv, RecordsOfBlockedFibers, RecordInOrder, Recorded, Timed
<1>6. UNCHANGED <<pending, working, finished>>
  BY <1>1 DEF workVars
<1>7. \/ /\ ResumeFiber(g)
         /\ target' = [target EXCEPT ![g] = NotSet]
         /\ UNCHANGED <<phase, ready, open, calls>>
         /\ call' = call \/ call' = [call EXCEPT ![g] = Expired]
      \/ /\ phase' = "faulted"
         /\ UNCHANGED <<schedulerVars, pollerVars, call>>
  <2>1. CASE call[g] = NoCall
    <3>1. target[g] = NotSet
      BY <1>5, <2>1 DEF RecordInOrder
    <3> QED
      BY <1>3, <2>1, <3>1
      DEF DispatchTimeout, SleepCallback, pollerVars, IOInv, IOTypeOK
  <2>2. CASE call[g] # NoCall
    BY <1>3, <2>2
    DEF DispatchTimeout, WaitForFDCallback3, IOPoller!ClearWatch
  <2> QED
    BY <2>1, <2>2
<1>8. /\ SchedulerInv'
      /\ \A f \in Fibers \ {g} : f \in Suspended => f \in Suspended'
      /\ \A f \in Fibers \ {g} : target'[f] = target[f] /\ call'[f] = call[f]
      /\ UNCHANGED <<ready, open, calls>>
  <2>1. CASE ResumeFiber(g)
    <3>1. /\ SchedulerInv'
          /\ \A f \in Suspended \ {g} : f \in Suspended'
      BY <1>5, <2>1, ResumeCall DEF IOInv
    <3>2. \A f \in Fibers \ {g} : target'[f] = target[f] /\ call'[f] = call[f]
      BY <1>7 DEF pollerVars, IOInv, IOTypeOK
    <3> QED
      BY <1>7, <3>1, <3>2 DEF pollerVars
  <2>2. CASE UNCHANGED <<schedulerVars, pollerVars, call>>
    BY <2>2, SchedulerNext_Inv
    DEF IOInv, schedulerVars, pollerVars, Suspended, Live
  <2> QED
    BY <1>7, <2>1, <2>2
<1>9. phase' \in {"timeouts", "faulted"}
  BY <1>1, <1>7
<1>10. IOTypeOK'
  <2>1. /\ target' \in [Fibers \cup {PoolWatch} ->
                          ((FDs \cup {WorkPipe}) \X Conditions) \cup {NotSet}]
        /\ call' \in [Fibers -> IOCalls \cup {NoCall, Expired}]
    BY <1>7 DEF IOInv, IOTypeOK, pollerVars
  <2> QED
    BY <1>4, <1>6, <1>8, <1>9, <2>1 DEF IOInv, SchedulerInv, IOTypeOK
<1>11. RecordInOrder(g)' /\ Remembered(g)
  <2>1. ~Timed(g)' /\ g \notin working' \cup finished'
    BY <1>4, <1>5, <1>6 DEF Timed
  <2>2. CASE ResumeFiber(g) /\ target' = [target EXCEPT ![g] = NotSet]
    <3>1. target'[g] = NotSet
      BY <2>2 DEF IOInv, IOTypeOK
    <3>2. g \in ToSet(readyFiberList')
      BY <1>5, <2>2, ResumeCall DEF IOInv
    <3> QED
      BY <2>1, <3>1, <3>2 DEF RecordInOrder, Recorded, Remembered
  <2>3. CASE phase' = "faulted" /\ UNCHANGED <<schedulerVars, pollerVars, call>>
    <3>1. Suspended' = Suspended
      BY <2>3 DEF schedulerVars, Suspended, Live
    <3> QED
      BY <1>5, <2>1, <2>3, <3>1
      DEF RecordInOrder, Recorded, Remembered, pollerVars
  <2> QED
    BY <1>7, <2>2, <2>3
<1>12. \A f \in Fibers \ {g} : RecordInOrder(f)' /\ Remembered(f)
  <2>1. \A f \in Fibers \ {g} : Untouched(f)
    BY <1>4, <1>6, <1>8 DEF Untouched
  <2> QED
    BY <1>8, <2>1, RecordKept DEF IOInv, RecordsOfBlockedFibers, Remembered
<1>13. RecordsOfBlockedFibers'
  <2>1. IsInjective(calls' \o fired')
    BY <1>2, <1>4, <1>8, ConcatEmptySeq
  <2>2. \A f \in Fibers : RecordInOrder(f)'
    BY <1>11, <1>12
  <2> QED
    BY <1>2, <1>4, <1>6, <1>8, <2>1, <2>2 DEF IOInv, RecordsOfBlockedFibers
<1> QED
  BY <1>2, <1>8, <1>9, <1>10, <1>11, <1>12, <1>13
  DEF IOInv, QueuesInTurn, LoopEndsClean, AllRemembered

-----------------------------------------------------------------------------
(* The loop begins with the fiber of FiberMain ready and nothing recorded. *)
LEMMA IOInit_Inv == Init => IOInv
<1> SUFFICES ASSUME Init PROVE IOInv
  OBVIOUS
<1>1. SchedulerInv
  BY SchedulerInit_Inv DEF Init
<1>2. IOTypeOK
  BY <1>1, IOAssumption
  DEF Init, SchedulerInv, IOTypeOK, Timer!Settings, Conditions, IOPoller!Conditions
<1>3. ToSet(<<>>) = {} /\ IsInjective(<<>>) /\ <<>> \o <<>> = <<>>
  BY <1>2, ListEmpty, ConcatEmptySeq DEF Init, IOTypeOK
<1>4. \A f \in Fibers : ~Recorded(f) /\ target[f] = NotSet
  BY <1>3, IOAssumption DEF Init, Recorded, Timed
<1>5. RecordsOfBlockedFibers
  BY <1>3, <1>4 DEF Init, RecordsOfBlockedFibers, RecordInOrder, Recorded
<1> QED
  BY <1>1, <1>2, <1>5 DEF Init, IOInv, QueuesInTurn, LoopEndsClean

(* Every step keeps the invariant and forgets no fiber but in the ways     *)
(* OnlyCloseForgets allows.                                                *)
THEOREM IONext_Inv == IOInv /\ [Next]_vars => IOInv' /\ AllRemembered
<1> SUFFICES ASSUME IOInv, [Next]_vars PROVE IOInv' /\ AllRemembered
  OBVIOUS
<1>1. ASSUME NEW fiber \in Fibers, Blocks(fiber) \/ Continues(fiber)
      PROVE  IOInv' /\ AllRemembered
  BY <1>1, BeginCall_Inv, SleepCurrentFiber_Inv, DoWork_Inv, OtherCall_Inv,
     WaitAgain_Inv, ReturnFromCall_Inv DEF Blocks, Continues
<1>2. ASSUME NEW fiber \in Fibers,
             OtherCall(fiber) \/ Close(fiber) \/ Open(fiber) \/ FinishWork(fiber)
      PROVE  IOInv' /\ AllRemembered
  BY <1>2, OtherCall_Inv, Close_Inv, Open_Inv, FinishWork_Inv
<1>3. CASE DispatchIO
  BY <1>3, WaitForFDCallback_Inv, WorkerCallback_Inv
<1>4. CASE Loop
  BY <1>3, <1>4, LoopTick_Inv, LoopPoll_Inv, DispatchTimeout_Inv, RoundEnd_Inv,
     TimerTick_Inv DEF Loop
<1>5. CASE LoopEnd \/ World
  BY <1>5, LoopEnd_Inv, World_Inv
<1>6. CASE UNCHANGED vars
  BY <1>6, KernelStep
  DEF vars, pollerVars, workVars, IOInv, IOTypeOK, RecordsOfBlockedFibers
<1> QED
  BY <1>1, <1>2, <1>4, <1>5, <1>6 DEF Next

(* The inductive invariant holds in every behaviour of the program, for    *)
(* any set of fibers and descriptors.                                      *)
THEOREM IO_Inv == Spec => []IOInv
<1>1. IOInv /\ [Next]_vars => IOInv'
  BY IONext_Inv
<1> QED
  BY <1>1, IOInit_Inv, PTL DEF Spec

(* Type correctness.                                                       *)
THEOREM IO_TypeOK == Spec => []IOTypeOK
<1>1. IOInv => IOTypeOK
  BY DEF IOInv
<1> QED
  BY <1>1, IO_Inv, PTL

(* The precondition of Scheduler_ResumeFiber is met by every callback of   *)
(* the loop: no fiber is ever linked twice, whatever comes first of I/O,   *)
(* timeouts, works and descriptors being closed.                           *)
THEOREM IO_FiberInOnePlace == Spec => []FiberInOnePlace
<1>1. IOInv => FiberInOnePlace
  BY DEF IOInv, SchedulerInv
<1> QED
  BY <1>1, IO_Inv, PTL

(* Nothing the poller, the timer, the pool or a queue of calls points to   *)
(* lies on a stack that is running, ready or gone.                         *)
THEOREM IO_RecordsOfBlockedFibers == Spec => []RecordsOfBlockedFibers
<1>1. IOInv => RecordsOfBlockedFibers
  BY DEF IOInv
<1> QED
  BY <1>1, IO_Inv, PTL

(* When the loop is left there is nothing left that would call back.       *)
THEOREM IO_LoopEndsClean == Spec => []LoopEndsClean
<1>1. IOInv => LoopEndsClean
  BY DEF IOInv
<1> QED
  BY <1>1, IO_Inv, PTL

(* Every step that takes away what would resume a fiber resumes it, but    *)
(* for a descriptor closed under it and the fault in WaitForFDCallback3.   *)
THEOREM IO_OnlyCloseForgets == Spec => OnlyCloseForgets
<1> DEFINE A == \A fiber \in Fibers :
          Recorded(fiber) /\ ~Recorded(fiber)' =>
             \/ fiber \in ToSet(readyFiberList')
             \/ \E fd \in open \ open' : target[fiber] = <<fd, call[fiber].condition>>
             \/ phase' = "faulted"
<1>1. IOInv /\ [Next]_vars => [A]_vars
  BY IONext_Inv DEF AllRemembered, Remembered
<1>2. Spec => [][A]_vars
  BY <1>1, IO_Inv, PTL DEF Spec
<1> QED
  BY <1>2 DEF OnlyCloseForgets

-----------------------------------------------------------------------------
(* Why the callbacks find what they rely on.  A timed wait has its timeout *)
(* as long as it has its watch, and the pipe of the pool is readable while *)
(* there are works that are done, and only then.                           *)
TimeoutsSet ==
    phase # "faulted" =>
        \A f \in Fibers : target[f] # NotSet /\ call[f].timed => Timed(f)

ResultsTold ==
    /\ target[PoolWatch] = <<WorkPipe, "readable">>
    /\ finished # {} <=> "readable" \in ready[WorkPipe]
    /\ PoolWatch \in ToSet(calls) => finished # {}

WaitsInv == IOInv /\ TimeoutsSet /\ ResultsTold

LEMMA TimeoutsKept ==
    ASSUME TimeoutsSet, phase' # "faulted" => phase # "faulted",
           \A f \in Fibers :
              \/ target'[f] = NotSet \/ Timed(f)'
              \/ /\ target'[f] = target[f] /\ call'[f] = call[f]
                 /\ Timed(f) => Timed(f)'
    PROVE  TimeoutsSet'
BY DEF TimeoutsSet

LEMMA ResultsKept ==
    ASSUME ResultsTold, finished' = finished,
           target'[PoolWatch] = target[PoolWatch],
           ready'[WorkPipe] = ready[WorkPipe],
           PoolWatch \in ToSet(calls') => PoolWatch \in ToSet(calls)
    PROVE  ResultsTold'
BY DEF ResultsTold

(* The calls of a fiber: a wait with a timeout sets it with its watch.     *)
LEMMA WaitForFD_Waits ==
    ASSUME WaitsInv, NEW fiber \in Fibers, Running(fiber),
           NEW c \in IOCalls, WaitForFD(fiber, c.fd, c.condition, c.timed),
           call' = [call EXCEPT ![fiber] = c],
           UNCHANGED <<phase, workVars>>
    PROVE  TimeoutsSet' /\ ResultsTold'
<1>1. /\ target' = [target EXCEPT ![fiber] = <<c.fd, c.condition>>]
      /\ UNCHANGED <<ready, open, calls>>
  BY DEF WaitForFD, IOPoller!SetWatch
<1>2. /\ UNCHANGED fired
      /\ pending' = IF c.timed THEN [pending EXCEPT ![fiber] = "finite"] ELSE pending
  BY DEF WaitForFD, Timer!SetTimeout, timerVars
<1>3. /\ target \in [Fibers \cup {PoolWatch} ->
                        ((FDs \cup {WorkPipe}) \X Conditions) \cup {NotSet}]
      /\ pending \in [Fibers -> Timer!Settings]
      /\ call \in [Fibers -> IOCalls \cup {NoCall, Expired}]
      /\ fiber # PoolWatch
  BY IOAssumption DEF WaitsInv, IOInv, IOTypeOK
<1>4. ASSUME NEW f \in Fibers, phase # "faulted", target'[f] # NotSet, call'[f].timed
      PROVE  Timed(f)'
  <2>1. CASE f = fiber
    <3>1. c.timed
      BY <1>3, <1>4, <2>1
    <3>2. pending'[f] = "finite"
      BY <1>2, <1>3, <2>1, <3>1
    <3> QED
      BY <3>2 DEF Timed
  <2>2. CASE f # fiber
    <3>1. /\ target'[f] = target[f] /\ call'[f] = call[f] /\ pending'[f] = pending[f]
          /\ fired' = fired
      BY <1>1, <1>2, <1>3, <2>2
    <3> QED
      BY <1>4, <3>1 DEF WaitsInv, TimeoutsSet, Timed
  <2> QED
    BY <2>1, <2>2
<1>5. ResultsTold'
  BY <1>1, <1>3, ResultsKept DEF WaitsInv, workVars
<1> QED
  BY <1>4, <1>5 DEF TimeoutsSet

LEMMA FiberCalls_Waits ==
    ASSUME WaitsInv, NEW fiber \in Fibers,
           \/ Blocks(fiber) \/ Continues(fiber) \/ OtherCall(fiber)
           \/ Close(fiber) \/ Open(fiber)
    PROVE  TimeoutsSet' /\ ResultsTold'
<1> USE DEF WaitsInv
<1>0. /\ target \in [Fibers \cup {PoolWatch} ->
                        ((FDs \cup {WorkPipe}) \X Conditions) \cup {NotSet}]
      /\ pending \in [Fibers -> Timer!Settings]
      /\ ready \in [FDs \cup {WorkPipe} -> SUBSET Conditions]
      /\ call \in [Fibers -> IOCalls \cup {NoCall, Expired}]
      /\ WorkPipe \notin FDs /\ PoolWatch \notin Fibers
  BY IOAssumption DEF IOInv, IOTypeOK
<1>1. CASE BeginCall(fiber)
  <2>1. PICK name \in ReadCalls \cup WriteCalls, fd \in FDs, timed \in BOOLEAN :
            /\ WaitForFD(fiber, fd, ConditionOf(name), timed)
            /\ call' = [call EXCEPT ![fiber] =
                           [fd |-> fd, condition |-> ConditionOf(name), timed |-> timed,
                            again |-> name # "Connect"]]
    BY <1>1 DEF BeginCall
  <2> DEFINE c == [fd |-> fd, condition |-> ConditionOf(name), timed |-> timed,
                   again |-> name # "Connect"]
  <2>2. c \in IOCalls
    BY DEF IOCalls, ConditionOf
  <2>3. c.fd = fd /\ c.condition = ConditionOf(name) /\ c.timed = timed
    OBVIOUS
  <2>4. Running(fiber) /\ UNCHANGED <<phase, workVars>>
    BY <1>1 DEF BeginCall
  <2>5. WaitForFD(fiber, c.fd, c.condition, c.timed) /\ call' = [call EXCEPT ![fiber] = c]
    BY <2>1, <2>3
  <2> HIDE DEF c
  <2> QED
    BY <2>2, <2>4, <2>5, WaitForFD_Waits
<1>2. CASE WaitAgain(fiber)
  <2> DEFINE c == call[fiber]
  <2>1. /\ Running(fiber) /\ WaitForFD(fiber, c.fd, c.condition, c.timed)
        /\ c \notin {NoCall, Expired} /\ UNCHANGED <<phase, workVars, call>>
    BY <1>2 DEF WaitAgain
  <2>2. c \in IOCalls /\ call = [call EXCEPT ![fiber] = c]
    BY <1>0, <2>1
  <2> HIDE DEF c
  <2> QED
    BY <2>1, <2>2, WaitForFD_Waits
<1>3. CASE ReturnFromCall(fiber)
  <2>1. /\ UNCHANGED <<phase, target, ready, calls, pending, fired, finished>>
        /\ call' = [call EXCEPT ![fiber] = NoCall] /\ target[fiber] = NotSet
    BY <1>3, RunningHasNoRecord DEF ReturnFromCall, pollerVars, timerVars, workVars
  <2>2. TimeoutsSet'
    BY <1>0, <2>1, TimeoutsKept DEF Timed
  <2> QED
    BY <2>1, <2>2, ResultsKept
<1>4. CASE SleepCurrentFiber(fiber)
  <2>1. PICK setting \in {"finite", "forever"} :
            /\ pending' = [pending EXCEPT ![fiber] = setting]
            /\ UNCHANGED <<phase, target, ready, calls, fired, finished, call>>
    BY <1>4 DEF SleepCurrentFiber, Timer!SetTimeout, pollerVars, workVars
  <2>2. \A f \in Fibers : Timed(f) => Timed(f)'
    BY <1>0, <2>1 DEF Timed
  <2> QED
    BY <2>1, <2>2, TimeoutsKept, ResultsKept
<1>5. CASE DoWork(fiber) \/ Exit(fiber) \/ OtherCall(fiber)
  <2>1. UNCHANGED <<phase, target, ready, calls, pending, fired, finished, call>>
    BY <1>5 DEF DoWork, Exit, OtherCall, pollerVars, timerVars, workVars
  <2>2. TimeoutsSet'
    BY <2>1, TimeoutsKept DEF Timed
  <2> QED
    BY <2>1, <2>2, ResultsKept
<1>6. CASE Close(fiber)
  <2>1. PICK fd \in FDs :
            /\ target' = [watch \in Fibers \cup {PoolWatch} |->
                   IF watch \in IOPoller!WatchesOf(fd) THEN NotSet ELSE target[watch]]
            /\ ready' = [ready EXCEPT ![fd] = {}]
            /\ UNCHANGED <<phase, calls, pending, fired, finished, call>>
    BY <1>6 DEF Close, IOPoller!Close, timerVars, workVars
  <2>2. \A f \in Fibers : target'[f] = NotSet \/ target'[f] = target[f]
    BY <2>1
  <2>3. TimeoutsSet'
    BY <2>1, <2>2, TimeoutsKept DEF Timed
  <2>4. PoolWatch \notin IOPoller!WatchesOf(fd)
    BY <1>0 DEF IOPoller!WatchesOf, ResultsTold
  <2>5. target'[PoolWatch] = target[PoolWatch] /\ ready'[WorkPipe] = ready[WorkPipe]
    BY <1>0, <2>1, <2>4
  <2> QED
    BY <2>1, <2>3, <2>5, ResultsKept
<1>7. CASE Open(fiber)
  <2>1. UNCHANGED <<phase, target, ready, calls, pending, fired, finished, call>>
    BY <1>7 DEF Open, IOPoller!Open, timerVars, workVars
  <2>2. TimeoutsSet'
    BY <2>1, TimeoutsKept DEF Timed
  <2> QED
    BY <2>1, <2>2, ResultsKept
<1> QED
  BY <1>1, <1>2, <1>3, <1>4, <1>5, <1>6, <1>7 DEF Blocks, Continues

(* The loop up to the callbacks, and the world: the pool's callback is     *)
(* only queued when a thread has written to the pipe.                      *)
LEMMA Around_Waits ==
    ASSUME WaitsInv, LoopTick \/ LoopPoll \/ LoopEnd \/ RoundEnd \/ World
    PROVE  TimeoutsSet' /\ ResultsTold'
<1> USE DEF WaitsInv
<1>1. /\ UNCHANGED <<target, pending, fired, finished, call>>
      /\ phase' # "faulted" => phase # "faulted"
      /\ LoopPoll \/ UNCHANGED calls
      /\ World \/ UNCHANGED ready
  BY DEF LoopTick, LoopPoll, LoopEnd, RoundEnd, World, FibersDone, IOPoller!Poll,
         IOPoller!ReadinessChanges, pollerVars, timerVars, workVars
<1>2. TimeoutsSet'
  BY <1>1, TimeoutsKept DEF Timed
<1>3. ready'[WorkPipe] = ready[WorkPipe]
  <2>1. CASE World
    <3>1. PICK fd \in FDs, conditions \in SUBSET IOPoller!Conditions :
             ready' = [ready EXCEPT ![fd] = conditions]
      BY <2>1 DEF World, IOPoller!ReadinessChanges
    <3> QED
      BY <3>1, IOAssumption DEF IOInv, IOTypeOK
  <2> QED
    BY <1>1, <2>1
<1>4. CASE LoopPoll
  <2>1. ToSet(calls') \subseteq IOPoller!Due
    BY <1>1, <1>4, PolledCalls DEF LoopPoll, WaitsInv
  <2>2. PoolWatch \in ToSet(calls') => finished # {}
    BY <2>1 DEF IOPoller!Due, ResultsTold
  <2> QED
    BY <1>1, <1>2, <1>3, <2>2 DEF ResultsTold
<1> QED
  BY <1>1, <1>2, <1>3, <1>4, ResultsKept

(* A thread tells the loop of every work it has done.                      *)
LEMMA FinishWork_Waits ==
    ASSUME WaitsInv, NEW fiber \in Fibers, FinishWork(fiber)
    PROVE  TimeoutsSet' /\ ResultsTold'
<1>1. /\ UNCHANGED <<phase, target, calls, pending, fired, call>>
      /\ ready' = [ready EXCEPT ![WorkPipe] = {"readable"}]
      /\ finished' = finished \cup {fiber}
  BY DEF FinishWork, timerVars
<1>2. ready'[WorkPipe] = {"readable"} /\ finished' # {}
  BY <1>1 DEF WaitsInv, IOInv, IOTypeOK
<1>3. TimeoutsSet'
  BY <1>1, TimeoutsKept DEF Timed, WaitsInv
<1> QED
  BY <1>1, <1>2, <1>3 DEF WaitsInv, ResultsTold

(* A callback takes the records of its own fiber or of the pool only.      *)
LEMMA DispatchIO_Waits ==
    ASSUME WaitsInv, DispatchIO PROVE TimeoutsSet' /\ ResultsTold'
<1> USE DEF WaitsInv
<1>1. /\ phase = "io" /\ calls # <<>> /\ UNCHANGED phase
      /\ ToSet(Tail(calls)) = ToSet(calls) \ {Head(calls)}
      /\ Head(calls) \in Fibers \cup {PoolWatch}
  BY FirstCall DEF DispatchIO
<1>2. CASE Head(calls) = PoolWatch
  <2>1. /\ calls' = Tail(calls)
        /\ ready' = [ready EXCEPT
              ![WorkPipe] = IF finished' = {} THEN {} ELSE {"readable"}]
        /\ UNCHANGED <<target, pending, fired, call>>
    BY <1>2 DEF DispatchIO, WorkerCallback, timerVars
  <2>2. ready'[WorkPipe] = IF finished' = {} THEN {} ELSE {"readable"}
    BY <2>1 DEF IOInv, IOTypeOK
  <2>3. TimeoutsSet'
    BY <1>1, <2>1, TimeoutsKept DEF Timed
  <2>4. PoolWatch \notin ToSet(calls')
    BY <1>1, <1>2, <2>1
  <2> QED
    BY <2>1, <2>2, <2>3, <2>4 DEF ResultsTold
<1>3. CASE Head(calls) # PoolWatch
  <2>1. PICK g \in Fibers : g = Head(calls)
    BY <1>1, <1>3
  <2>2. /\ WaitForFDCallback(g) /\ calls' = Tail(calls) /\ g # PoolWatch
        /\ target' = [target EXCEPT ![g] = NotSet] /\ UNCHANGED ready
    BY <1>3, <2>1 DEF DispatchIO, IOPoller!Dispatch
  <2>3. /\ \A f \in Fibers \ {g} : pending'[f] = pending[f]
        /\ UNCHANGED <<fired, finished, call>>
    BY <2>2 DEF WaitForFDCallback, Timer!ClearTimeout, timerVars, workVars,
                IOInv, IOTypeOK
  <2>4. /\ target'[g] = NotSet /\ target'[PoolWatch] = target[PoolWatch]
        /\ \A f \in Fibers \ {g} : target'[f] = target[f]
    BY <2>2 DEF IOInv, IOTypeOK
  <2>5. TimeoutsSet'
    BY <1>1, <2>3, <2>4, TimeoutsKept DEF Timed
  <2> QED
    BY <1>1, <2>2, <2>3, <2>4, <2>5, ResultsKept
<1> QED
  BY <1>2, <1>3

(* What is due goes from the timer to the queue; a timed wait whose call   *)
(* is made loses its watch, unless that is where the process faults.       *)
LEMMA Timeouts_Waits ==
    ASSUME WaitsInv,
           DispatchTimeout \/ \E due \in SUBSET Timer!Finite : TimerTick(due)
    PROVE  TimeoutsSet' /\ ResultsTold'
<1> USE DEF WaitsInv
<1>1. ASSUME NEW due \in SUBSET Timer!Finite, TimerTick(due)
      PROVE  TimeoutsSet' /\ ResultsTold'
  <2>1. Timer!Tick(due)
    BY <1>1 DEF TimerTick
  <2>2. /\ fired' \in SetToSeqs(due)
        /\ pending' = [timeout \in Fibers |->
                          IF timeout \in due THEN "unset" ELSE pending[timeout]]
    BY <2>1, SameSequences DEF Timer!Tick
  <2>3. /\ phase = "io" /\ calls = <<>>
        /\ UNCHANGED <<target, ready, calls, finished, call>>
    BY <1>1 DEF TimerTick, pollerVars, workVars
  <2>4. ToSet(fired') = due /\ ToSet(fired) = {}
    BY <2>2, <2>3, FinitelyManyRecords, ListOfSet, ListEmpty
    DEF IOInv, QueuesInTurn, IOTypeOK
  <2>5. \A f \in Fibers : Timed(f) => Timed(f)'
    BY <2>2, <2>4 DEF Timed
  <2> QED
    BY <2>3, <2>5, TimeoutsKept, ResultsKept
<1>2. CASE DispatchTimeout
  <2>1. /\ phase = "timeouts" /\ fired # <<>> /\ fired' = Tail(fired)
        /\ UNCHANGED <<pending, finished>>
    BY <1>2 DEF DispatchTimeout, workVars
  <2>2. fired \in Seq(Fibers)
    BY DEF IOInv, IOTypeOK
  <2>3. PICK g \in Fibers : g = Head(fired)
    BY <2>1, <2>2, ListTakeFront
  <2>4. ToSet(fired) = ToSet(fired') \cup {g} /\ g # PoolWatch
    BY <2>1, <2>2, <2>3, ListTakeFront, IOAssumption
  <2>5. RecordInOrder(g)
    BY DEF IOInv, RecordsOfBlockedFibers
  <2>6. \A f \in Fibers \ {g} : Timed(f) => Timed(f)'
    BY <2>1, <2>4 DEF Timed
  <2>7. \/ /\ target'[g] = NotSet /\ UNCHANGED <<ready, calls>>
           /\ \A f \in Fibers \ {g} : target'[f] = target[f] /\ call'[f] = call[f]
           /\ target'[PoolWatch] = target[PoolWatch]
        \/ phase' = "faulted" /\ UNCHANGED <<target, ready, calls>>
    <3>1. CASE call[g] = NoCall
      <4>1. target[g] = NotSet
        BY <2>5, <3>1 DEF RecordInOrder
      <4> QED
        BY <1>2, <2>3, <3>1, <4>1 DEF DispatchTimeout, SleepCallback, pollerVars
    <3>2. CASE call[g] # NoCall
      BY <1>2, <2>3, <2>4, <3>2
      DEF DispatchTimeout, WaitForFDCallback3, IOPoller!ClearWatch, pollerVars,
          IOInv, IOTypeOK
    <3> QED
      BY <3>1, <3>2
  <2>8. TimeoutsSet'
    <3>1. CASE phase' = "faulted"
      BY <3>1 DEF TimeoutsSet
    <3>2. CASE phase' # "faulted"
      BY <2>1, <2>6, <2>7, <3>2, TimeoutsKept
    <3> QED
      BY <3>1, <3>2
  <2> QED
    BY <2>1, <2>7, <2>8, ResultsKept
<1> QED
  BY <1>1, <1>2

(* What the I/O callbacks do when their turn comes is defined: the timeout *)
(* they clear is set, and the pool's finds a result.                       *)
THEOREM IO_CallbacksDefined == Spec => []CallbacksDefined
<1>1. Init => WaitsInv
  <2> SUFFICES ASSUME Init PROVE WaitsInv
    OBVIOUS
  <2>1. /\ target[PoolWatch] = <<WorkPipe, "readable">>
        /\ \A f \in Fibers : target[f] = NotSet
        /\ finished = {} /\ ready[WorkPipe] = {} /\ calls = <<>>
    BY IOAssumption DEF Init
  <2> QED
    BY <2>1, IOInit_Inv, ListEmpty DEF WaitsInv, TimeoutsSet, ResultsTold, IOInv, IOTypeOK
<1>2. WaitsInv /\ [Next]_vars => WaitsInv'
  <2> SUFFICES ASSUME WaitsInv, [Next]_vars PROVE TimeoutsSet' /\ ResultsTold'
    BY IONext_Inv DEF WaitsInv
  <2>1. CASE UNCHANGED vars
    BY <2>1 DEF vars, pollerVars, timerVars, workVars, WaitsInv, TimeoutsSet,
                ResultsTold, Timed
  <2> QED
    BY <2>1, FiberCalls_Waits, Around_Waits, FinishWork_Waits, DispatchIO_Waits,
       Timeouts_Waits DEF Next, Loop
<1>3. WaitsInv => CallbacksDefined
  <2> SUFFICES ASSUME WaitsInv, NEW watch \in ToSet(calls)
               PROVE  IF watch = PoolWatch THEN finished # {}
                      ELSE /\ watch \in Suspended
                           /\ call[watch].timed => pending[watch] # "unset"
    BY DEF CallbacksDefined
  <2>1. CASE watch = PoolWatch
    BY <2>1 DEF WaitsInv, ResultsTold
  <2>2. CASE watch # PoolWatch
    <3>1. calls \in Seq(Fibers \cup {PoolWatch}) /\ fired \in Seq(Fibers)
      BY DEF WaitsInv, IOInv, IOTypeOK
    <3>2. calls # <<>> /\ watch \in Fibers
      BY <2>2, <3>1, ListEmpty
    <3>3. phase = "io" /\ fired = <<>> /\ ToSet(<<>>) = {}
      BY <3>1, <3>2, ListEmpty DEF WaitsInv, IOInv, QueuesInTurn
    <3>4. target[watch] # NotSet /\ RecordInOrder(watch)
      BY <3>2 DEF WaitsInv, IOInv, RecordsOfBlockedFibers
    <3> QED
      BY <2>2, <3>2, <3>3, <3>4
      DEF WaitsInv, TimeoutsSet, RecordInOrder, Recorded, Timed
  <2> QED
    BY <2>1, <2>2
<1> QED
  BY <1>1, <1>2, <1>3, PTL DEF Spec
=============================================================================
