----------------------------- MODULE EventProofs -----------------------------
(***************************************************************************)
(* The safety of the event on top of the scheduler, for any set of fibers. *)
(* A waiter stays suspended whatever others do, since nobody resumes it    *)
(* but Trigger, which takes it off the list; and the scheduler's own       *)
(* invariant holds because Trigger resumes suspended fibers only.          *)
(***************************************************************************)
EXTENDS Event, SchedulerProofs

(* The inductive invariant.                                                *)
EventInv ==
    /\ SchedulerInv
    /\ EventTypeOK
    /\ WaitersSuspended

(* A waiter is blocked and asleep.                                         *)
LEMMA WaitersBlocked ==
    ASSUME EventInv
    PROVE  \A f \in Waiters : Blocked(f) /\ f \notin Awake(readyFiberList)
  BY DEF EventInv, WaitersSuspended, Suspended, Blocked, Awake

(* A step of others that keeps the waiters keeps the event.                *)
LEMMA KeptWaiters ==
    ASSUME EventInv, SchedulerInv', UNCHANGED waiterList,
           \A f \in Waiters : Kept(f)
    PROVE  EventInv'
<1>1. Waiters' = Waiters
  BY DEF Waiters
<1>2. ASSUME NEW f \in Waiters PROVE f \in Suspended' /\ context'[f] = "saved"
  <2>1. Kept(f) /\ f \notin Awake(readyFiberList)
    BY WaitersBlocked
  <2> QED
    BY <2>1 DEF Kept, Suspended, Awake
<1>3. WaitersSuspended'
  BY <1>1, <1>2 DEF WaitersSuspended, EventInv
<1> QED
  BY <1>3 DEF EventInv, EventTypeOK

(* Event_WaitFor: the caller joins those who sleep.                        *)
LEMMA WaitFor_Inv == EventInv /\ WaitFor => EventInv'
<1> SUFFICES ASSUME EventInv, WaitFor PROVE EventInv'
  OBVIOUS
<1>1. /\ SuspendCurrentFiber /\ waiterList' = Append(waiterList, activeFiber)
      /\ SchedulerInv /\ waiterList \in Seq(Fibers) /\ IsInjective(waiterList)
      /\ activeFiber \in Fibers
  BY DEF WaitFor, SuspendCurrentFiber, EventInv, EventTypeOK,
         WaitersSuspended, SchedulerInv, SchedulerTypeOK
<1>2. activeFiber \notin ToSet(waiterList)
  BY WaitersBlocked DEF Waiters, Blocked
<1>3. /\ waiterList' \in Seq(Fibers) /\ IsInjective(waiterList')
      /\ ToSet(waiterList') = ToSet(waiterList) \cup {activeFiber}
  BY <1>1, <1>2, ListInsertBack
<1>4. activeFiber \in Suspended' /\ context'[activeFiber] = "saved"
  BY <1>1, SuspendCurrentFiber_Keeps DEF Suspended, Awake
<1>5. ASSUME NEW f \in Waiters PROVE f \in Suspended' /\ context'[f] = "saved"
  <2>1. Kept(f) /\ f \notin Awake(readyFiberList)
    BY <1>1, WaitersBlocked, SuspendCurrentFiber_Keeps
  <2> QED
    BY <2>1 DEF Kept, Suspended, Awake
<1>6. WaitersSuspended'
  BY <1>3, <1>4, <1>5 DEF WaitersSuspended, Waiters
<1> QED
  BY <1>1, <1>3, <1>6, SuspendCurrentFiber_Inv DEF EventInv, EventTypeOK

(* Event_Trigger: who is resumed was suspended, and is on the list no more.*)
LEMMA Trigger_Inv == EventInv /\ Trigger => EventInv'
<1> SUFFICES ASSUME EventInv, Trigger PROVE EventInv'
  OBVIOUS
<1> DEFINE front == Head(waiterList)
<1>1. /\ waiterList # <<>> /\ waiterList' = Tail(waiterList) /\ ResumeFiber(front)
      /\ SchedulerInv /\ waiterList \in Seq(Fibers) /\ IsInjective(waiterList)
  BY DEF Trigger, EventInv, EventTypeOK, WaitersSuspended
<1>2. /\ waiterList' \in Seq(Fibers) /\ IsInjective(waiterList')
      /\ ToSet(waiterList) = ToSet(waiterList') \cup {front}
      /\ front \notin ToSet(waiterList')
  BY <1>1, ListTakeFront
<1>3. front \in Suspended
  BY <1>2 DEF EventInv, WaitersSuspended, Waiters
<1> HIDE DEF front
<1>4. ASSUME NEW f \in ToSet(waiterList') PROVE f \in Suspended' /\ context'[f] = "saved"
  <2>1. Blocked(f) /\ f \notin Awake(readyFiberList) /\ f # front
    BY <1>2, WaitersBlocked DEF Waiters
  <2>2. Kept(f)
    BY <1>1, <1>3, <2>1, ResumeFiber_Keeps
  <2>3. context'[f] = "saved"
    BY <1>1, <2>1 DEF ResumeFiber, Blocked
  <2> QED
    BY <2>1, <2>2, <2>3 DEF Kept, Suspended, Awake
<1>5. WaitersSuspended'
  BY <1>2, <1>4 DEF WaitersSuspended, Waiters
<1>6. SchedulerInv'
  BY <1>1, <1>3, ResumeFiber_Inv
<1> QED
  BY <1>2, <1>5, <1>6 DEF EventInv, EventTypeOK

(* Everything else a fiber or the loop does.                               *)
LEMMA OtherCalls_Inv == EventInv /\ OtherCalls => EventInv'
<1> SUFFICES ASSUME EventInv, OtherCalls PROVE EventInv'
  OBVIOUS
<1>1. SchedulerInv /\ UNCHANGED waiterList
  BY DEF OtherCalls, EventInv
<1>2. \A f \in Waiters : Blocked(f)
  BY WaitersBlocked
<1>3. CASE AddFiber
  BY <1>1, <1>2, <1>3, AddFiber_Keeps, AddFiber_Inv, KeptWaiters
<1>4. CASE AddAndRunFiber
  BY <1>1, <1>2, <1>4, AddAndRunFiber_Keeps, AddAndRunFiber_Inv, KeptWaiters
<1>5. CASE YieldCurrentFiber
  BY <1>1, <1>2, <1>5, YieldCurrentFiber_Keeps, YieldCurrentFiber_Inv, KeptWaiters
<1>6. CASE SuspendCurrentFiber
  BY <1>1, <1>2, <1>6, SuspendCurrentFiber_Keeps, SuspendCurrentFiber_Inv, KeptWaiters
<1>7. CASE ExitCurrentFiber
  BY <1>1, <1>2, <1>7, ExitCurrentFiber_Keeps, ExitCurrentFiber_Inv, KeptWaiters
<1> QED
  BY <1>3, <1>4, <1>5, <1>6, <1>7 DEF OtherCalls

(* The resumption of a fiber that waits for something else.                *)
LEMMA OtherResume_Inv == EventInv /\ OtherResume => EventInv'
<1> SUFFICES ASSUME EventInv, OtherResume PROVE EventInv'
  OBVIOUS
<1>1. SchedulerInv /\ UNCHANGED waiterList
  BY DEF OtherResume, EventInv
<1>2. PICK fiber \in Suspended \ Waiters : ResumeFiber(fiber)
  BY DEF OtherResume
<1>3. \A f \in Waiters : Kept(f)
  BY <1>1, <1>2, WaitersBlocked, ResumeFiber_Keeps
<1>4. SchedulerInv'
  BY <1>1, <1>2, ResumeFiber_Inv
<1> QED
  BY <1>1, <1>3, <1>4, KeptWaiters

(* The invariant is inductive, so it holds of every run of any number of   *)
(* fibers that use the event in any way.                                   *)
THEOREM Event_Inv == Spec => []EventInv
<1>1. Init => EventInv
  <2> SUFFICES ASSUME Init PROVE EventInv
    OBVIOUS
  <2>1. SchedulerInv /\ waiterList = <<>>
    BY SchedulerInit_Inv DEF Init
  <2>2. <<>> \in Seq(Fibers)
    OBVIOUS
  <2>3. ToSet(<<>>) = {} /\ IsInjective(<<>>)
    BY <2>2, ListEmpty
  <2> QED
    BY <2>1, <2>2, <2>3 DEF EventInv, EventTypeOK, WaitersSuspended, Waiters
<1>2. ASSUME EventInv, [Next]_vars PROVE EventInv'
  <2>1. CASE WaitFor
    BY <1>2, <2>1, WaitFor_Inv
  <2>2. CASE Trigger
    BY <1>2, <2>2, Trigger_Inv
  <2>3. CASE OtherCalls
    BY <1>2, <2>3, OtherCalls_Inv
  <2>4. CASE OtherResume
    BY <1>2, <2>4, OtherResume_Inv
  <2>5. CASE LoopTick
    <3>1. SchedulerInv /\ Tick /\ UNCHANGED waiterList
      BY <1>2, <2>5 DEF LoopTick, EventInv
    <3>2. SchedulerInv' /\ \A f \in Waiters : Kept(f)
      BY <1>2, <3>1, Tick_Inv, Tick_Keeps, WaitersBlocked
    <3> QED
      BY <1>2, <3>1, <3>2, KeptWaiters
  <2>6. CASE UNCHANGED vars
    <3>1. UNCHANGED schedulerVars /\ UNCHANGED waiterList
      BY <2>6 DEF vars
    <3>2. SchedulerInv'
      BY <1>2, <3>1, SchedulerNext_Inv DEF EventInv
    <3> QED
      BY <1>2, <3>1, <3>2
      DEF EventInv, schedulerVars, EventTypeOK, WaitersSuspended, Waiters,
          Suspended, Live
  <2> QED
    BY <1>2, <2>1, <2>2, <2>3, <2>4, <2>5, <2>6 DEF Next
<1> QED
  BY <1>1, <1>2, PTL DEF Spec

(* Type correctness.                                                       *)
THEOREM Event_TypeOK == Spec => []EventTypeOK
<1>1. EventInv => EventTypeOK
  BY DEF EventInv
<1> QED
  BY <1>1, Event_Inv, PTL

(* Whoever is on the list can be resumed: it is suspended in its call.     *)
THEOREM Event_WaitersSuspended == Spec => []WaitersSuspended
<1>1. EventInv => WaitersSuspended
  BY DEF EventInv
<1> QED
  BY <1>1, Event_Inv, PTL

(* The scheduler under the event: no fiber is resumed that is not          *)
(* suspended.                                                              *)
THEOREM Event_FiberInOnePlace == Spec => []FiberInOnePlace
<1>1. EventInv => FiberInOnePlace
  BY DEF EventInv, SchedulerInv
<1> QED
  BY <1>1, Event_Inv, PTL
=============================================================================
