-------------------------------- MODULE Timer --------------------------------
(***************************************************************************)
(* The timer (src/Source/Timer.c) in the event loop of                     *)
(* src/Source/Runtime.c.  A timeout is a node of the heap whose key is its *)
(* due time.  One round of the loop runs the fibers, which set timeouts,   *)
(* waits for I/O as long as the earliest timeout allows, dispatches the    *)
(* I/O callbacks, which clear timeouts, and then fires what is due.        *)
(***************************************************************************)
EXTENDS Heap

CONSTANTS Delays,     \* the delays a program asks for, negative: forever
          MaxTime     \* the bound put on the clock

Never == MaxTime + 1     \* UINT64_MAX

ASSUME TimerAssumption ==
    /\ MaxTime \in Nat
    /\ Delays \subseteq -1 .. MaxTime
    /\ Keys = 0 .. Never

VARIABLES
    now,       \* the coarse monotonic clock
    phase,     \* what the loop does: run fibers, or dispatch I/O callbacks
    calls      \* the calls the last Timer_Tick added, in order

vars == <<heapVars, now, phase, calls>>

Pending == DOMAIN key

(* Mutants: "never" is taken for a time; the loop sleeps one tick longer.  *)
CalculateWaitTimeNever ==
    IF slots = <<>> THEN -1
    ELSE LET due == key[Slot(slots, 0)] IN IF due <= now THEN 0 ELSE due - now

CalculateWaitTimeLate ==
    IF slots = <<>> THEN -1
    ELSE LET due == key[Slot(slots, 0)] IN
         IF due = Never THEN -1 ELSE IF due < now THEN 0 ELSE due - now + 1

(* Milliseconds until the earliest timeout, or -1 for no limit.            *)
CalculateWaitTime ==
    IF slots = <<>> THEN -1
    ELSE LET due == key[Slot(slots, 0)] IN
         IF due = Never THEN -1 ELSE IF due <= now THEN 0 ELSE due - now

-----------------------------------------------------------------------------
Init == HeapInit /\ now = 0 /\ phase = "run" /\ calls = <<>>

(* A fiber sleeps, or waits for I/O with a timeout.  Only the bound on the *)
(* clock keeps the due time within MaxTime.                                *)
SetTimeout(timeout, delay) ==
    /\ phase = "run"
    /\ delay >= 0 => now + delay <= MaxTime
    /\ InsertNode(timeout, IF delay >= 0 THEN now + delay ELSE Never)
    /\ UNCHANGED <<now, phase, calls>>

SetTimeoutFails == phase = "run" /\ InsertFails /\ UNCHANGED <<now, phase, calls>>

(* The I/O a fiber waits for has come before its timeout.                  *)
ClearTimeout(timeout) ==
    /\ phase = "dispatch"
    /\ RemoveNode(timeout)
    /\ UNCHANGED <<now, phase, calls>>

(* IOPoller_Tick returns when there is I/O or the wait time is over.       *)
IOPollerTick ==
    /\ phase = "run"
    /\ phase' = "dispatch"
    /\ now' \in now .. (IF CalculateWaitTime = -1 THEN MaxTime
                                                  ELSE now + CalculateWaitTime)
    /\ UNCHANGED <<heapVars, calls>>

(* The loop of Timer_Tick: as long as the top is due, add its call and     *)
(* remove it.                                                              *)
Firings == [heap : [array : Seq(Nodes), number : [Nodes -> Nat]], calls : Seq(Nodes)]

FireTop(firing) ==
    IF firing.heap.array = <<>> \/ key[Slot(firing.heap.array, 0)] > now
    THEN firing
    ELSE LET top == Slot(firing.heap.array, 0)
         IN  [heap  |-> Removed(firing.heap, top, key),
              calls |-> Append(firing.calls, top)]

(* Mutant: a tick fires one timeout at most.                               *)
FireOnce == FireTop([heap |-> currentHeap, calls |-> <<>>])

FireDue ==
    Repeated([firing \in Firings |-> FireTop(firing)],
             [heap |-> currentHeap, calls |-> <<>>], numberOfNodes)

(* The calls are dispatched before anything else happens.                  *)
TimerTick ==
    /\ phase = "dispatch"
    /\ phase' = "run"
    /\ Becomes(FireDue.heap)
    /\ calls' = FireDue.calls
          /\ key' = [timeout \in ToSet(slots') |-> key[timeout]]
    /\ UNCHANGED <<now, segmentVars>>

(* Fibers and callbacks take time too, and so does getting back from the   *)
(* kernel.                                                                 *)
TimePasses ==
    /\ now < MaxTime
    /\ now' = now + 1
    /\ UNCHANGED <<heapVars, phase, calls>>

Next ==
    \/ \E timeout \in Nodes :
          ClearTimeout(timeout) \/ \E delay \in Delays : SetTimeout(timeout, delay)
    \/ SetTimeoutFails \/ IOPollerTick \/ TimerTick \/ TimePasses

Spec == Init /\ [][Next]_vars

(* The loop goes round as long as fibers give the processor up: one of     *)
(* IOPollerTick and TimerTick, the only steps that change the phase, is    *)
(* always possible and eventually taken.                                   *)
NextPhase == phase' \in {"run", "dispatch"} \ {phase}

FairSpec == Spec /\ WF_vars(TimePasses) /\ WF_phase(NextPhase)

-----------------------------------------------------------------------------
(* Type correctness of the timer.                                          *)
TimerTypeOK ==
    /\ HeapTypeOK
    /\ now \in 0 .. MaxTime
    /\ phase \in {"run", "dispatch"}
    /\ calls \in Seq(Nodes)

(* A tick fires exactly the timeouts that are due, each once, the earlier  *)
(* ones first, and leaves the others pending.                              *)
TickFiresWhatIsDue ==
    [][ phase = "dispatch" /\ phase' = "run" =>
          /\ ToSet(calls') = {timeout \in Pending : key[timeout] <= now}
          /\ IsInjective(calls')
          /\ \A i, j \in DOMAIN calls' : i < j => key[calls'[i]] <= key[calls'[j]]
          /\ ToSet(slots') = Pending \ ToSet(calls')
      ]_vars

(* The loop never sleeps past a timeout: whatever was not yet due when it  *)
(* went to wait is not overdue when the wait ends.                         *)
WaitEndsInTime ==
    [][ phase = "run" /\ phase' = "dispatch" =>
          \A timeout \in Pending : key[timeout] < now' => key[timeout] < now
      ]_vars

(* To the loop the timer is a timeout service: a timeout that was set      *)
(* fires, once, or is cleared; only one set forever may stay.              *)
Abstract == INSTANCE TimeoutService
                WITH Timeouts <- Nodes,
                     pending <- [timeout \in Nodes |->
                         IF timeout \notin Pending THEN "unset"
                         ELSE IF key[timeout] = Never THEN "forever" ELSE "finite"],
                     fired <- calls

TimeoutServiceSpec == Abstract!FairSpec
=============================================================================
