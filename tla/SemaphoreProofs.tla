--------------------------- MODULE SemaphoreProofs ---------------------------
(***************************************************************************)
(* The safety of the semaphore on top of the scheduler, for any set of     *)
(* fibers and any bounds.  That the value stays in its bounds depends on   *)
(* who is awake: a woken waiter changes the value without looking, so it   *)
(* must be awake only while the value is off the bound, and then be the    *)
(* only one of its list.  That in turn needs the scheduler's invariant,    *)
(* which needs waiters to be resumed once.  The conjunction is inductive.  *)
(***************************************************************************)
EXTENDS Semaphore, SchedulerProofs

(* The inductive invariant.                                                *)
SemaphoreInv ==
    /\ SchedulerInv
    /\ SemaphoreTypeOK
    /\ ValueInBounds
    /\ WakeupsMatchValue
    /\ WaitersBlocked

-----------------------------------------------------------------------------
(* The two things a list of waiters can be: all asleep, or all asleep but  *)
(* the front.                                                              *)
AllAsleep(list, awake) == ToSet(list) \cap awake = {}

FrontAwake(list, awake) ==
    list # <<>> => Head(list) \in awake /\ ToSet(Tail(list)) \cap awake = {}

(* The conditions of WakeupsMatchValue, seen as sets.                      *)
LEMMA WakeupsAsSets ==
    ASSUME NEW list \in Seq(Fibers), NEW awake
    PROVE  /\ (\A i \in DOMAIN list : list[i] \notin awake) <=> AllAsleep(list, awake)
           /\ (\A i \in DOMAIN list : list[i] \in awake <=> i = 1)
                  <=> FrontAwake(list, awake)
<1>1. (\A i \in DOMAIN list : list[i] \notin awake) <=> AllAsleep(list, awake)
  BY DEF AllAsleep, ToSet
<1>2. ASSUME list # <<>>
      PROVE  (\A i \in DOMAIN list : list[i] \in awake <=> i = 1)
                 <=> Head(list) \in awake /\ ToSet(Tail(list)) \cap awake = {}
  <2> DEFINE rest == Tail(list)
             n == Len(list)
  <2>1. /\ n \in Nat /\ n >= 1 /\ DOMAIN list = 1 .. n /\ Head(list) = list[1]
        /\ DOMAIN rest = 1 .. n - 1
        /\ \A i \in 1 .. n - 1 : rest[i] = list[i + 1]
    BY <1>2
  <2> HIDE DEF rest, n
  <2>2. ToSet(rest) \cap awake = {} <=> \A i \in 1 .. n - 1 : list[i + 1] \notin awake
    BY <2>1 DEF ToSet
  <2>3. (\A i \in 1 .. n - 1 : list[i + 1] \notin awake)
          <=> \A i \in 1 .. n : i # 1 => list[i] \notin awake
    <3>1. ASSUME \A i \in 1 .. n - 1 : list[i + 1] \notin awake,
                 NEW i \in 1 .. n, i # 1
          PROVE  list[i] \notin awake
      <4>1. i - 1 \in 1 .. n - 1 /\ (i - 1) + 1 = i
        BY <2>1, <3>1
      <4> QED
        BY <3>1, <4>1
    <3>2. ASSUME \A i \in 1 .. n : i # 1 => list[i] \notin awake,
                 NEW i \in 1 .. n - 1
          PROVE  list[i + 1] \notin awake
      <4>1. i + 1 \in 1 .. n /\ i + 1 # 1
        BY <2>1, <3>2
      <4> QED
        BY <3>2, <4>1
    <3> QED
      BY <3>1, <3>2
  <2>4. 1 \in 1 .. n
    BY <2>1
  <2> QED
    BY <2>1, <2>2, <2>3, <2>4 DEF rest
<1>3. ASSUME list = <<>> PROVE \A i \in DOMAIN list : list[i] \in awake <=> i = 1
  BY <1>3
<1> QED
  BY <1>1, <1>2, <1>3 DEF FrontAwake

(* What has to hold of a ready list and two lists of waiters for the       *)
(* scheduler and the waiters to be consistent.                             *)
Consistent(ready, list, other) ==
    /\ ready \in Seq(Fibers) /\ IsInjective(ready)
    /\ ToSet(ready) \subseteq Live \ {activeFiber}
    /\ \A fiber \in ToSet(ready) : context[fiber] # "stale"
    /\ \A fiber \in Live \ Awake(ready) : context[fiber] = "saved"
    /\ list \in Seq(Fibers) /\ IsInjective(list)
    /\ other \in Seq(Fibers) /\ IsInjective(other)
    /\ ToSet(list) \cap ToSet(other) = {}
    /\ \A fiber \in ToSet(list) \cup ToSet(other) :
          fiber \in Live /\ (fiber # activeFiber => context[fiber] = "saved")

(* The two lists of waiters play the same part.                            *)
LEMMA ConsistentSymmetric ==
    ASSUME NEW ready, NEW list, NEW other, Consistent(ready, list, other)
    PROVE  Consistent(ready, other, list)
  BY DEF Consistent

(* Resuming the front of a list whose waiters all sleep wakes it alone, and*)
(* changes nothing for the other list.                                     *)
LEMMA ResumeFront_Consistent ==
    ASSUME NEW ready, NEW list, NEW other,
           Consistent(ready, list, other), AllAsleep(list, Awake(ready))
    PROVE  LET after == ResumeFront(ready, list) IN
           /\ Consistent(after, list, other)
           /\ FrontAwake(list, Awake(after))
           /\ AllAsleep(other, Awake(ready)) => AllAsleep(other, Awake(after))
           /\ FrontAwake(other, Awake(ready)) => FrontAwake(other, Awake(after))
<1>1. CASE list = <<>>
  BY <1>1 DEF ResumeFront, FrontAwake
<1>2. CASE list # <<>>
  <2> DEFINE front == Head(list)
             after == Append(ready, front)
  <2>1. /\ front \in Fibers /\ Tail(list) \in Seq(Fibers)
        /\ ToSet(list) = ToSet(Tail(list)) \cup {front}
        /\ front \notin ToSet(Tail(list))
    BY <1>2, ListTakeFront DEF Consistent
  <2>2. /\ front \notin Awake(ready) /\ front \in Live
        /\ context[front] = "saved" /\ front \notin ToSet(other)
    BY <2>1 DEF Consistent, AllAsleep, Awake
  <2>3. /\ after \in Seq(Fibers) /\ IsInjective(after)
        /\ ToSet(after) = ToSet(ready) \cup {front}
    BY <2>1, <2>2, ListInsertBack DEF Consistent, Awake
  <2>4. Awake(after) = Awake(ready) \cup {front}
    BY <2>3 DEF Awake
  <2> HIDE DEF front, after
  <2>5. Consistent(after, list, other)
    BY <2>2, <2>3, <2>4 DEF Consistent, Awake
  <2>6. FrontAwake(list, Awake(after))
    BY <2>1, <2>4 DEF FrontAwake, AllAsleep, front
  <2>7. AllAsleep(other, Awake(ready)) => AllAsleep(other, Awake(after))
    BY <2>2, <2>4 DEF AllAsleep
  <2>8. FrontAwake(other, Awake(ready)) => FrontAwake(other, Awake(after))
    <3> SUFFICES ASSUME other # <<>>, FrontAwake(other, Awake(ready))
                 PROVE  FrontAwake(other, Awake(after))
      BY DEF FrontAwake
    <3>1. ToSet(other) = ToSet(Tail(other)) \cup {Head(other)}
      BY ListTakeFront DEF Consistent
    <3> QED
      BY <2>2, <2>4, <3>1 DEF FrontAwake
  <2> QED
    BY <1>2, <2>5, <2>6, <2>7, <2>8 DEF ResumeFront, after, front
<1> QED
  BY <1>1, <1>2

(* Taking back the resumption of the front leaves all its list asleep.     *)
LEMMA UnresumeFront_Consistent ==
    ASSUME NEW ready, NEW list, NEW other,
           Consistent(ready, list, other), FrontAwake(list, Awake(ready)),
           activeFiber \notin ToSet(list)
    PROVE  LET after == UnresumeFront(ready, list) IN
           /\ Consistent(after, list, other)
           /\ AllAsleep(list, Awake(after))
           /\ AllAsleep(other, Awake(ready)) => AllAsleep(other, Awake(after))
           /\ FrontAwake(other, Awake(ready)) => FrontAwake(other, Awake(after))
<1>1. CASE list = <<>>
  BY <1>1, ListEmpty DEF UnresumeFront, AllAsleep, Consistent
<1>2. CASE list # <<>>
  <2> DEFINE front == Head(list)
             after == RemoveFirst(ready, front)
  <2>1. /\ front \in Fibers /\ ToSet(list) = ToSet(Tail(list)) \cup {front}
    BY <1>2, ListTakeFront DEF Consistent
  <2>2. /\ front \in ToSet(ready) /\ front # activeFiber /\ front \in Live
        /\ context[front] = "saved" /\ front \notin ToSet(other)
    BY <1>2, <2>1 DEF Consistent, FrontAwake, Awake
  <2>3. /\ after \in Seq(Fibers) /\ IsInjective(after)
        /\ ToSet(after) = ToSet(ready) \ {front}
    BY <2>2, ListRemove DEF Consistent
  <2>4. Awake(after) = Awake(ready) \ {front}
    BY <2>2, <2>3 DEF Awake
  <2> HIDE DEF front, after
  <2>5. Consistent(after, list, other)
    BY <2>2, <2>3, <2>4 DEF Consistent
  <2>6. AllAsleep(list, Awake(after))
    BY <1>2, <2>1, <2>4 DEF FrontAwake, AllAsleep, front
  <2>7. AllAsleep(other, Awake(ready)) => AllAsleep(other, Awake(after))
    BY <2>4 DEF AllAsleep
  <2>8. FrontAwake(other, Awake(ready)) => FrontAwake(other, Awake(after))
    <3> SUFFICES ASSUME other # <<>>, FrontAwake(other, Awake(ready))
                 PROVE  FrontAwake(other, Awake(after))
      BY DEF FrontAwake
    <3>1. ToSet(other) = ToSet(Tail(other)) \cup {Head(other)}
      BY ListTakeFront DEF Consistent
    <3> QED
      BY <2>2, <2>4, <3>1 DEF FrontAwake
  <2> QED
    BY <1>2, <2>5, <2>6, <2>7, <2>8 DEF UnresumeFront, after, front
<1> QED
  BY <1>1, <1>2

(* When a woken waiter, who is the front, has left its list, all the list  *)
(* is asleep.                                                              *)
LEMMA RemoveWoken_Consistent ==
    ASSUME NEW ready, NEW list, NEW other,
           Consistent(ready, list, other), FrontAwake(list, Awake(ready)),
           activeFiber \in ToSet(list)
    PROVE  LET after == RemoveFirst(list, activeFiber) IN
           /\ Consistent(ready, after, other)
           /\ AllAsleep(after, Awake(ready))
<1> DEFINE after == RemoveFirst(list, activeFiber)
<1>1. /\ after \in Seq(Fibers) /\ IsInjective(after)
      /\ ToSet(after) = ToSet(list) \ {activeFiber}
  BY ListRemove DEF Consistent
<1>2. list # <<>>
  BY ListEmpty DEF Consistent
<1>3. ToSet(list) = ToSet(Tail(list)) \cup {Head(list)}
  BY <1>2, ListTakeFront DEF Consistent
<1>4. Head(list) = activeFiber
  BY <1>2, <1>3 DEF FrontAwake, Awake
<1> HIDE DEF after
<1>5. Consistent(ready, after, other)
  BY <1>1 DEF Consistent
<1>6. AllAsleep(after, Awake(ready))
  BY <1>1, <1>2, <1>3, <1>4 DEF FrontAwake, AllAsleep
<1> QED
  BY <1>5, <1>6 DEF after

-----------------------------------------------------------------------------
(* What the value says of a list of waiters.                               *)
Matches(list, awake, canGo) ==
    IF canGo THEN FrontAwake(list, awake) ELSE AllAsleep(list, awake)

LEMMA FrontResumedMatches ==
    ASSUME NEW list \in Seq(Fibers), NEW canGo \in BOOLEAN
    PROVE  FrontResumed(list, canGo)
               <=> Matches(list, Awake(readyFiberList), canGo)
  BY WakeupsAsSets DEF FrontResumed, Matches, Awake

(* The invariant gives everything the lemmas on lists ask for.             *)
LEMMA InvMatches ==
    ASSUME SemaphoreInv
    PROVE  /\ Consistent(readyFiberList, downWaiterList, upWaiterList)
           /\ Consistent(readyFiberList, upWaiterList, downWaiterList)
           /\ Matches(downWaiterList, Awake(readyFiberList), value > minValue)
           /\ Matches(upWaiterList, Awake(readyFiberList), value < maxValue)
           /\ value \in Int /\ minValue \in Int /\ maxValue \in Int
           /\ minValue <= value /\ value <= maxValue
<1>1. /\ downWaiterList \in Seq(Fibers) /\ upWaiterList \in Seq(Fibers)
      /\ value \in Int /\ minValue \in Int /\ maxValue \in Int
      /\ minValue <= value /\ value <= maxValue
  BY DEF SemaphoreInv, SemaphoreTypeOK, ValueInBounds
<1>2. /\ readyFiberList \in Seq(Fibers) /\ IsInjective(readyFiberList)
      /\ ToSet(readyFiberList) \subseteq Live \ {activeFiber}
      /\ \A fiber \in ToSet(readyFiberList) : context[fiber] # "stale"
      /\ \A fiber \in Live \ Awake(readyFiberList) : context[fiber] = "saved"
  BY PlacesAsSets DEF SemaphoreInv, SchedulerInv, SchedulerTypeOK,
                      FiberInOnePlace, ContextValid, Suspended, Awake
<1>3. /\ IsInjective(downWaiterList) /\ IsInjective(upWaiterList)
      /\ ToSet(downWaiterList) \cap ToSet(upWaiterList) = {}
      /\ \A fiber \in ToSet(downWaiterList) \cup ToSet(upWaiterList) :
            fiber \in Live /\ (fiber # activeFiber => context[fiber] = "saved")
  BY DEF SemaphoreInv, WaitersBlocked, Waiters
<1>4. Consistent(readyFiberList, downWaiterList, upWaiterList)
  BY <1>1, <1>2, <1>3 DEF Consistent
<1>5. /\ FrontResumed(downWaiterList, value > minValue)
      /\ FrontResumed(upWaiterList, value < maxValue)
  BY DEF SemaphoreInv, WakeupsMatchValue
<1>6. (value > minValue) \in BOOLEAN /\ (value < maxValue) \in BOOLEAN
  BY <1>1
<1>7. /\ Matches(downWaiterList, Awake(readyFiberList), value > minValue)
      /\ Matches(upWaiterList, Awake(readyFiberList), value < maxValue)
  BY <1>1, <1>5, <1>6, FrontResumedMatches
<1>8. Consistent(readyFiberList, upWaiterList, downWaiterList)
  BY <1>4, ConsistentSymmetric
<1> QED
  BY <1>1, <1>4, <1>7, <1>8

(* And what they give is the invariant after a call that switches to no    *)
(* other fiber.                                                            *)
LEMMA MatchesInv ==
    ASSUME SemaphoreInv,
           UNCHANGED <<activeFiber, deadFiberList, fiberCount, context,
                       allocated, boundVars>>,
           value' \in Int, minValue <= value', value' <= maxValue,
           Consistent(readyFiberList', downWaiterList', upWaiterList'),
           Matches(downWaiterList', Awake(readyFiberList'), value' > minValue),
           Matches(upWaiterList', Awake(readyFiberList'), value' < maxValue)
    PROVE  SemaphoreInv'
<1>1. /\ Live' = Live /\ minValue' = minValue /\ maxValue' = maxValue
      /\ Awake(readyFiberList)' = Awake(readyFiberList')
      /\ minValue \in Int /\ maxValue \in Int
  BY DEF Live, boundVars, Awake, SemaphoreInv, SemaphoreTypeOK
<1>2. /\ readyFiberList' \in Seq(Fibers) /\ IsInjective(readyFiberList')
      /\ ToSet(readyFiberList') \subseteq Live \ {activeFiber}
      /\ \A fiber \in ToSet(readyFiberList') : context[fiber] # "stale"
      /\ \A fiber \in Live \ (ToSet(readyFiberList') \cup {activeFiber}) :
            context[fiber] = "saved"
  BY DEF Consistent, Awake
<1>3. SchedulerInv'
  <2>1. SchedulerTypeOK'
    BY <1>2 DEF SemaphoreInv, SchedulerInv, SchedulerTypeOK, Contexts
  <2>2. FiberInOnePlace'
    BY <1>2 DEF SemaphoreInv, SchedulerInv, FiberInOnePlace, Live
  <2>3. ContextValid'
    BY <1>1, <1>2 DEF ContextValid, Suspended
  <2>4. CountMatches' /\ IsFiniteSet(allocated)'
    BY <1>1 DEF SemaphoreInv, SchedulerInv, CountMatches
  <2> QED
    BY <2>1, <2>2, <2>3, <2>4 DEF SchedulerInv
<1>4. /\ downWaiterList' \in Seq(Fibers) /\ upWaiterList' \in Seq(Fibers)
      /\ IsInjective(downWaiterList') /\ IsInjective(upWaiterList')
      /\ ToSet(downWaiterList') \cap ToSet(upWaiterList') = {}
      /\ \A fiber \in ToSet(downWaiterList') \cup ToSet(upWaiterList') :
            fiber \in Live /\ (fiber # activeFiber => context[fiber] = "saved")
  BY DEF Consistent
<1>5. SemaphoreTypeOK' /\ ValueInBounds'
  BY <1>1, <1>4 DEF SemaphoreTypeOK, ValueInBounds
<1>6. WakeupsMatchValue'
  <2>1. FrontResumed(downWaiterList, value > minValue)'
    BY <1>1, <1>4, WakeupsAsSets DEF FrontResumed, Matches, Awake
  <2>2. FrontResumed(upWaiterList, value < maxValue)'
    BY <1>1, <1>4, WakeupsAsSets DEF FrontResumed, Matches, Awake
  <2> QED
    BY <2>1, <2>2 DEF WakeupsMatchValue
<1>7. WaitersBlocked'
  BY <1>1, <1>4 DEF WaitersBlocked, Waiters
<1> QED
  BY <1>3, <1>5, <1>6, <1>7 DEF SemaphoreInv

(* The end of Semaphore_Down, from a state in which the caller's own list  *)
(* is already right for the value it leaves.                               *)
LEMMA FinishDown_Inv ==
    ASSUME SemaphoreInv, value > minValue,
           NEW ready, FinishDown(ready),
           Consistent(ready, downWaiterList', upWaiterList),
           Matches(downWaiterList', Awake(ready), value - 1 > minValue),
           Matches(upWaiterList, Awake(ready), value < maxValue)
    PROVE  SemaphoreInv'
<1>1. /\ value \in Int /\ minValue \in Int /\ maxValue \in Int
      /\ minValue <= value /\ value <= maxValue
  BY InvMatches
<1>2. /\ value' = value - 1 /\ upWaiterList' = upWaiterList
      /\ UNCHANGED <<activeFiber, deadFiberList, fiberCount, context,
                     allocated, boundVars>>
      /\ readyFiberList' = IF value' = maxValue - 1
                           THEN ResumeFront(ready, upWaiterList) ELSE ready
  BY DEF FinishDown
<1>3. CASE value = maxValue
  <2>1. AllAsleep(upWaiterList, Awake(ready))
    BY <1>1, <1>3 DEF Matches
  <2>2. readyFiberList' = ResumeFront(ready, upWaiterList)
    BY <1>1, <1>2, <1>3
  <2>3. Consistent(ready, upWaiterList, downWaiterList')
    BY ConsistentSymmetric
  <2>4. /\ Consistent(readyFiberList', upWaiterList, downWaiterList')
        /\ FrontAwake(upWaiterList, Awake(readyFiberList'))
        /\ AllAsleep(downWaiterList', Awake(ready))
              => AllAsleep(downWaiterList', Awake(readyFiberList'))
        /\ FrontAwake(downWaiterList', Awake(ready))
              => FrontAwake(downWaiterList', Awake(readyFiberList'))
    BY <2>1, <2>2, <2>3, ResumeFront_Consistent
  <2>5. Consistent(readyFiberList', downWaiterList', upWaiterList')
    BY <1>2, <2>4, ConsistentSymmetric
  <2>6. /\ Matches(downWaiterList', Awake(readyFiberList'), value' > minValue)
        /\ Matches(upWaiterList', Awake(readyFiberList'), value' < maxValue)
    BY <1>1, <1>2, <1>3, <2>4 DEF Matches
  <2> QED
    BY <1>1, <1>2, <2>5, <2>6, MatchesInv
<1>4. CASE value # maxValue
  <2>1. readyFiberList' = ready
    BY <1>1, <1>2, <1>4
  <2>2. /\ Matches(downWaiterList', Awake(readyFiberList'), value' > minValue)
        /\ Matches(upWaiterList', Awake(readyFiberList'), value' < maxValue)
    BY <1>1, <1>2, <1>4, <2>1 DEF Matches
  <2> QED
    BY <1>1, <1>2, <2>1, <2>2, MatchesInv
<1> QED
  BY <1>3, <1>4

(* The end of Semaphore_Up, likewise.                                      *)
LEMMA FinishUp_Inv ==
    ASSUME SemaphoreInv, value < maxValue,
           NEW ready, FinishUp(ready),
           Consistent(ready, upWaiterList', downWaiterList),
           Matches(upWaiterList', Awake(ready), value + 1 < maxValue),
           Matches(downWaiterList, Awake(ready), value > minValue)
    PROVE  SemaphoreInv'
<1>1. /\ value \in Int /\ minValue \in Int /\ maxValue \in Int
      /\ minValue <= value /\ value <= maxValue
  BY InvMatches
<1>2. /\ value' = value + 1 /\ downWaiterList' = downWaiterList
      /\ UNCHANGED <<activeFiber, deadFiberList, fiberCount, context,
                     allocated, boundVars>>
      /\ readyFiberList' = IF value' = minValue + 1
                           THEN ResumeFront(ready, downWaiterList) ELSE ready
  BY DEF FinishUp
<1>3. CASE value = minValue
  <2>1. AllAsleep(downWaiterList, Awake(ready))
    BY <1>1, <1>3 DEF Matches
  <2>2. readyFiberList' = ResumeFront(ready, downWaiterList)
    BY <1>1, <1>2, <1>3
  <2>3. Consistent(ready, downWaiterList, upWaiterList')
    BY ConsistentSymmetric
  <2>4. /\ Consistent(readyFiberList', downWaiterList, upWaiterList')
        /\ FrontAwake(downWaiterList, Awake(readyFiberList'))
        /\ AllAsleep(upWaiterList', Awake(ready))
              => AllAsleep(upWaiterList', Awake(readyFiberList'))
        /\ FrontAwake(upWaiterList', Awake(ready))
              => FrontAwake(upWaiterList', Awake(readyFiberList'))
    BY <2>1, <2>2, <2>3, ResumeFront_Consistent
  <2>5. /\ Matches(downWaiterList', Awake(readyFiberList'), value' > minValue)
        /\ Matches(upWaiterList', Awake(readyFiberList'), value' < maxValue)
    BY <1>1, <1>2, <1>3, <2>4 DEF Matches
  <2> QED
    BY <1>1, <1>2, <2>4, <2>5, MatchesInv
<1>4. CASE value # minValue
  <2>1. readyFiberList' = ready
    BY <1>1, <1>2, <1>4
  <2>2. Consistent(readyFiberList', downWaiterList', upWaiterList')
    BY <1>2, <2>1, ConsistentSymmetric
  <2>3. /\ Matches(downWaiterList', Awake(readyFiberList'), value' > minValue)
        /\ Matches(upWaiterList', Awake(readyFiberList'), value' < maxValue)
    BY <1>1, <1>2, <1>4, <2>1 DEF Matches
  <2> QED
    BY <1>1, <1>2, <2>2, <2>3, MatchesInv
<1> QED
  BY <1>3, <1>4

(* Semaphore_Down that does not block: when it takes the last of the value,*)
(* the waiter who was woken for it is put to sleep again.                  *)
LEMMA DownTake_Inv == SemaphoreInv /\ DownTake => SemaphoreInv'
<1> SUFFICES ASSUME SemaphoreInv, DownTake PROVE SemaphoreInv'
  OBVIOUS
<1> DEFINE ready == IF value - 1 = minValue
                    THEN UnresumeFront(readyFiberList, downWaiterList)
                    ELSE readyFiberList
<1>1. /\ activeFiber \notin ToSet(downWaiterList) /\ value # minValue
      /\ FinishDown(ready) /\ downWaiterList' = downWaiterList
  BY DEF DownTake, InUserCode, Waiters
<1>2. /\ value \in Int /\ minValue \in Int /\ value > minValue
      /\ Consistent(readyFiberList, downWaiterList, upWaiterList)
      /\ Matches(downWaiterList, Awake(readyFiberList), value > minValue)
      /\ Matches(upWaiterList, Awake(readyFiberList), value < maxValue)
  BY <1>1, InvMatches
<1>3. FrontAwake(downWaiterList, Awake(readyFiberList))
  BY <1>2 DEF Matches
<1>4. CASE value - 1 = minValue
  <2>1. ready = UnresumeFront(readyFiberList, downWaiterList)
    BY <1>4
  <2> HIDE DEF ready
  <2>2. /\ Consistent(ready, downWaiterList, upWaiterList)
        /\ AllAsleep(downWaiterList, Awake(ready))
        /\ AllAsleep(upWaiterList, Awake(readyFiberList))
              => AllAsleep(upWaiterList, Awake(ready))
        /\ FrontAwake(upWaiterList, Awake(readyFiberList))
              => FrontAwake(upWaiterList, Awake(ready))
    BY <1>1, <1>2, <1>3, <2>1, UnresumeFront_Consistent
  <2>3. /\ Matches(downWaiterList', Awake(ready), value - 1 > minValue)
        /\ Matches(upWaiterList, Awake(ready), value < maxValue)
    BY <1>1, <1>2, <1>4, <2>2 DEF Matches
  <2> QED
    BY <1>1, <1>2, <2>2, <2>3, FinishDown_Inv
<1>5. CASE value - 1 # minValue
  <2>1. ready = readyFiberList
    BY <1>5
  <2> HIDE DEF ready
  <2>2. Matches(downWaiterList', Awake(ready), value - 1 > minValue)
    BY <1>1, <1>2, <1>3, <1>5, <2>1 DEF Matches
  <2> QED
    BY <1>1, <1>2, <2>1, <2>2, FinishDown_Inv
<1> QED
  BY <1>4, <1>5

(* The woken Semaphore_Down: it is awake, so the value is off the bound,   *)
(* and it was the only one awake, so it may wake the next.                 *)
LEMMA DownWoken_Inv == SemaphoreInv /\ DownWoken => SemaphoreInv'
<1> SUFFICES ASSUME SemaphoreInv, DownWoken PROVE SemaphoreInv'
  OBVIOUS
<1> DEFINE ready == IF value - 1 > minValue
                    THEN ResumeFront(readyFiberList, downWaiterList')
                    ELSE readyFiberList
<1>1. /\ activeFiber \in ToSet(downWaiterList) /\ FinishDown(ready)
      /\ downWaiterList' = RemoveFirst(downWaiterList, activeFiber)
  BY DEF DownWoken
<1>2. /\ value \in Int /\ minValue \in Int /\ minValue <= value
      /\ Consistent(readyFiberList, downWaiterList, upWaiterList)
      /\ Matches(downWaiterList, Awake(readyFiberList), value > minValue)
      /\ Matches(upWaiterList, Awake(readyFiberList), value < maxValue)
  BY InvMatches
<1>3. value > minValue /\ FrontAwake(downWaiterList, Awake(readyFiberList))
  BY <1>1, <1>2 DEF Matches, AllAsleep, Awake
<1>4. /\ Consistent(readyFiberList, downWaiterList', upWaiterList)
      /\ AllAsleep(downWaiterList', Awake(readyFiberList))
  BY <1>1, <1>2, <1>3, RemoveWoken_Consistent
<1>5. CASE value - 1 > minValue
  <2>1. ready = ResumeFront(readyFiberList, downWaiterList')
    BY <1>5
  <2> HIDE DEF ready
  <2>2. /\ Consistent(ready, downWaiterList', upWaiterList)
        /\ FrontAwake(downWaiterList', Awake(ready))
        /\ AllAsleep(upWaiterList, Awake(readyFiberList))
              => AllAsleep(upWaiterList, Awake(ready))
        /\ FrontAwake(upWaiterList, Awake(readyFiberList))
              => FrontAwake(upWaiterList, Awake(ready))
    BY <1>4, <2>1, ResumeFront_Consistent
  <2>3. /\ Matches(downWaiterList', Awake(ready), value - 1 > minValue)
        /\ Matches(upWaiterList, Awake(ready), value < maxValue)
    BY <1>2, <1>5, <2>2 DEF Matches
  <2> QED
    BY <1>1, <1>3, <2>2, <2>3, FinishDown_Inv
<1>6. CASE ~(value - 1 > minValue)
  <2>1. ready = readyFiberList
    BY <1>6
  <2> HIDE DEF ready
  <2>2. Matches(downWaiterList', Awake(ready), value - 1 > minValue)
    BY <1>4, <1>6, <2>1 DEF Matches
  <2> QED
    BY <1>1, <1>2, <1>3, <1>4, <2>1, <2>2, FinishDown_Inv
<1> QED
  BY <1>5, <1>6

(* Semaphore_Up that does not block, likewise.                             *)
LEMMA UpTake_Inv == SemaphoreInv /\ UpTake => SemaphoreInv'
<1> SUFFICES ASSUME SemaphoreInv, UpTake PROVE SemaphoreInv'
  OBVIOUS
<1> DEFINE ready == IF value + 1 = maxValue
                    THEN UnresumeFront(readyFiberList, upWaiterList)
                    ELSE readyFiberList
<1>1. /\ activeFiber \notin ToSet(upWaiterList) /\ value # maxValue
      /\ FinishUp(ready) /\ upWaiterList' = upWaiterList
  BY DEF UpTake, InUserCode, Waiters
<1>2. /\ value \in Int /\ maxValue \in Int /\ value < maxValue
      /\ Consistent(readyFiberList, upWaiterList, downWaiterList)
      /\ Matches(upWaiterList, Awake(readyFiberList), value < maxValue)
      /\ Matches(downWaiterList, Awake(readyFiberList), value > minValue)
  BY <1>1, InvMatches
<1>3. FrontAwake(upWaiterList, Awake(readyFiberList))
  BY <1>2 DEF Matches
<1>4. CASE value + 1 = maxValue
  <2>1. ready = UnresumeFront(readyFiberList, upWaiterList)
    BY <1>4
  <2> HIDE DEF ready
  <2>2. /\ Consistent(ready, upWaiterList, downWaiterList)
        /\ AllAsleep(upWaiterList, Awake(ready))
        /\ AllAsleep(downWaiterList, Awake(readyFiberList))
              => AllAsleep(downWaiterList, Awake(ready))
        /\ FrontAwake(downWaiterList, Awake(readyFiberList))
              => FrontAwake(downWaiterList, Awake(ready))
    BY <1>1, <1>2, <1>3, <2>1, UnresumeFront_Consistent
  <2>3. /\ Matches(upWaiterList', Awake(ready), value + 1 < maxValue)
        /\ Matches(downWaiterList, Awake(ready), value > minValue)
    BY <1>1, <1>2, <1>4, <2>2 DEF Matches
  <2> QED
    BY <1>1, <1>2, <2>2, <2>3, FinishUp_Inv
<1>5. CASE value + 1 # maxValue
  <2>1. ready = readyFiberList
    BY <1>5
  <2> HIDE DEF ready
  <2>2. Matches(upWaiterList', Awake(ready), value + 1 < maxValue)
    BY <1>1, <1>2, <1>3, <1>5, <2>1 DEF Matches
  <2> QED
    BY <1>1, <1>2, <2>1, <2>2, FinishUp_Inv
<1> QED
  BY <1>4, <1>5

(* The woken Semaphore_Up, likewise.                                       *)
LEMMA UpWoken_Inv == SemaphoreInv /\ UpWoken => SemaphoreInv'
<1> SUFFICES ASSUME SemaphoreInv, UpWoken PROVE SemaphoreInv'
  OBVIOUS
<1> DEFINE ready == IF value + 1 < maxValue
                    THEN ResumeFront(readyFiberList, upWaiterList')
                    ELSE readyFiberList
<1>1. /\ activeFiber \in ToSet(upWaiterList) /\ FinishUp(ready)
      /\ upWaiterList' = RemoveFirst(upWaiterList, activeFiber)
  BY DEF UpWoken
<1>2. /\ value \in Int /\ maxValue \in Int /\ value <= maxValue
      /\ Consistent(readyFiberList, upWaiterList, downWaiterList)
      /\ Matches(upWaiterList, Awake(readyFiberList), value < maxValue)
      /\ Matches(downWaiterList, Awake(readyFiberList), value > minValue)
  BY InvMatches
<1>3. value < maxValue /\ FrontAwake(upWaiterList, Awake(readyFiberList))
  BY <1>1, <1>2 DEF Matches, AllAsleep, Awake
<1>4. /\ Consistent(readyFiberList, upWaiterList', downWaiterList)
      /\ AllAsleep(upWaiterList', Awake(readyFiberList))
  BY <1>1, <1>2, <1>3, RemoveWoken_Consistent
<1>5. CASE value + 1 < maxValue
  <2>1. ready = ResumeFront(readyFiberList, upWaiterList')
    BY <1>5
  <2> HIDE DEF ready
  <2>2. /\ Consistent(ready, upWaiterList', downWaiterList)
        /\ FrontAwake(upWaiterList', Awake(ready))
        /\ AllAsleep(downWaiterList, Awake(readyFiberList))
              => AllAsleep(downWaiterList, Awake(ready))
        /\ FrontAwake(downWaiterList, Awake(readyFiberList))
              => FrontAwake(downWaiterList, Awake(ready))
    BY <1>4, <2>1, ResumeFront_Consistent
  <2>3. /\ Matches(upWaiterList', Awake(ready), value + 1 < maxValue)
        /\ Matches(downWaiterList, Awake(ready), value > minValue)
    BY <1>2, <1>5, <2>2 DEF Matches
  <2> QED
    BY <1>1, <1>3, <2>2, <2>3, FinishUp_Inv
<1>6. CASE ~(value + 1 < maxValue)
  <2>1. ready = readyFiberList
    BY <1>6
  <2> HIDE DEF ready
  <2>2. Matches(upWaiterList', Awake(ready), value + 1 < maxValue)
    BY <1>4, <1>6, <2>1 DEF Matches
  <2> QED
    BY <1>1, <1>2, <1>3, <1>4, <2>1, <2>2, FinishUp_Inv
<1> QED
  BY <1>5, <1>6

-----------------------------------------------------------------------------
(* While nobody inside the semaphore's calls runs, all waiters are blocked.*)
LEMMA WaitersAreBlocked ==
    ASSUME SemaphoreInv, activeFiber \notin Waiters
    PROVE  \A f \in Waiters : Blocked(f)
  BY DEF SemaphoreInv, WaitersBlocked, Blocked

(* A step of others that keeps the waiters keeps the semaphore.            *)
LEMMA KeptWaiters ==
    ASSUME SemaphoreInv, SchedulerInv', UNCHANGED semaphoreVars,
           \A f \in Waiters : Kept(f)
    PROVE  SemaphoreInv'
<1>1. /\ downWaiterList' = downWaiterList /\ upWaiterList' = upWaiterList
      /\ value' = value /\ minValue' = minValue /\ maxValue' = maxValue
  BY DEF semaphoreVars
<1>2. SemaphoreTypeOK' /\ ValueInBounds'
  BY <1>1 DEF SemaphoreInv, SemaphoreTypeOK, ValueInBounds
<1>3. /\ \A i \in DOMAIN downWaiterList : Kept(downWaiterList[i])
      /\ \A i \in DOMAIN upWaiterList : Kept(upWaiterList[i])
  BY DEF Waiters, ToSet
<1>4. FrontResumed(downWaiterList, value > minValue)'
  BY <1>1, <1>3 DEF SemaphoreInv, WakeupsMatchValue, FrontResumed, Kept, Awake
<1>5. FrontResumed(upWaiterList, value < maxValue)'
  BY <1>1, <1>3 DEF SemaphoreInv, WakeupsMatchValue, FrontResumed, Kept, Awake
<1>6. WaitersBlocked'
  BY <1>1 DEF SemaphoreInv, WaitersBlocked, Waiters, Kept
<1> QED
  BY <1>2, <1>4, <1>5, <1>6 DEF SemaphoreInv, WakeupsMatchValue

(* Blocking: the caller joins the back of a list on which nobody is awake, *)
(* and is not awake itself.                                                *)
LEMMA JoinList ==
    ASSUME SemaphoreInv, SuspendCurrentFiber, activeFiber \notin Waiters,
           NEW list, list \in {downWaiterList, upWaiterList},
           FrontResumed(list, FALSE)
    PROVE  /\ Append(list, activeFiber) \in Seq(Fibers)
           /\ IsInjective(Append(list, activeFiber))
           /\ ToSet(Append(list, activeFiber)) = ToSet(list) \cup {activeFiber}
           /\ \A i \in DOMAIN Append(list, activeFiber) :
                 Append(list, activeFiber)[i] \notin Awake(readyFiberList)'
<1> DEFINE longer == Append(list, activeFiber)
<1>1. /\ list \in Seq(Fibers) /\ IsInjective(list) /\ ToSet(list) \subseteq Waiters
      /\ activeFiber \in Fibers
  BY DEF SemaphoreInv, SemaphoreTypeOK, WaitersBlocked, Waiters,
         SuspendCurrentFiber, SchedulerInv, SchedulerTypeOK
<1>2. /\ longer \in Seq(Fibers) /\ IsInjective(longer)
      /\ ToSet(longer) = ToSet(list) \cup {activeFiber}
  BY <1>1, ListInsertBack
<1> HIDE DEF longer
<1>3. activeFiber \notin Awake(readyFiberList)'
  BY SuspendCurrentFiber_Keeps DEF SemaphoreInv
<1>4. ASSUME NEW f \in ToSet(list) PROVE f \notin Awake(readyFiberList)'
  <2>1. Kept(f)
    BY <1>1, WaitersAreBlocked, SuspendCurrentFiber_Keeps DEF SemaphoreInv
  <2>2. f \notin Awake(readyFiberList)
    BY DEF FrontResumed, ToSet, Awake
  <2> QED
    BY <2>1, <2>2 DEF Kept
<1>5. \A i \in DOMAIN longer : longer[i] \in ToSet(longer)
  BY DEF ToSet
<1> QED
  BY <1>2, <1>3, <1>4, <1>5 DEF longer

(* Semaphore_Down that blocks.                                             *)
LEMMA DownWait_Inv == SemaphoreInv /\ DownWait => SemaphoreInv'
<1> SUFFICES ASSUME SemaphoreInv, DownWait PROVE SemaphoreInv'
  OBVIOUS
<1>1. /\ activeFiber \notin Waiters /\ value = minValue /\ SuspendCurrentFiber
      /\ downWaiterList' = Append(downWaiterList, activeFiber)
      /\ upWaiterList' = upWaiterList
      /\ value' = value /\ minValue' = minValue /\ maxValue' = maxValue
  BY DEF DownWait, InUserCode, boundVars
<1>2. /\ value \in Int /\ (value > minValue) = FALSE
      /\ FrontResumed(downWaiterList, FALSE)
      /\ FrontResumed(upWaiterList, value < maxValue)
  BY <1>1 DEF SemaphoreInv, SemaphoreTypeOK, WakeupsMatchValue, FrontResumed
<1>3. /\ downWaiterList' \in Seq(Fibers) /\ IsInjective(downWaiterList')
      /\ ToSet(downWaiterList') = ToSet(downWaiterList) \cup {activeFiber}
      /\ \A i \in DOMAIN downWaiterList' :
            downWaiterList'[i] \notin Awake(readyFiberList)'
  BY <1>1, <1>2, JoinList
<1>4. /\ \A f \in Waiters : Kept(f)
      /\ activeFiber \in Live' /\ context'[activeFiber] = "saved"
  BY <1>1, WaitersAreBlocked, SuspendCurrentFiber_Keeps DEF SemaphoreInv
<1>5. SchedulerInv'
  BY <1>1, SuspendCurrentFiber_Inv DEF SemaphoreInv
<1>6. SemaphoreTypeOK' /\ ValueInBounds'
  BY <1>1, <1>3 DEF SemaphoreInv, SemaphoreTypeOK, ValueInBounds
<1>7. WakeupsMatchValue'
  <2>1. FrontResumed(downWaiterList, value > minValue)'
    BY <1>1, <1>2, <1>3 DEF FrontResumed, Awake
  <2>2. \A i \in DOMAIN upWaiterList : Kept(upWaiterList[i])
    BY <1>4 DEF Waiters, ToSet
  <2>3. FrontResumed(upWaiterList, value < maxValue)'
    BY <1>1, <1>2, <2>2 DEF FrontResumed, Kept, Awake
  <2> QED
    BY <2>1, <2>3 DEF WakeupsMatchValue
<1>8. WaitersBlocked'
  BY <1>1, <1>3, <1>4 DEF SemaphoreInv, WaitersBlocked, Waiters, Kept
<1> QED
  BY <1>5, <1>6, <1>7, <1>8 DEF SemaphoreInv

(* Semaphore_Up that blocks.                                               *)
LEMMA UpWait_Inv == SemaphoreInv /\ UpWait => SemaphoreInv'
<1> SUFFICES ASSUME SemaphoreInv, UpWait PROVE SemaphoreInv'
  OBVIOUS
<1>1. /\ activeFiber \notin Waiters /\ value = maxValue /\ SuspendCurrentFiber
      /\ upWaiterList' = Append(upWaiterList, activeFiber)
      /\ downWaiterList' = downWaiterList
      /\ value' = value /\ minValue' = minValue /\ maxValue' = maxValue
  BY DEF UpWait, InUserCode, boundVars
<1>2. /\ value \in Int /\ (value < maxValue) = FALSE
      /\ FrontResumed(upWaiterList, FALSE)
      /\ FrontResumed(downWaiterList, value > minValue)
  BY <1>1 DEF SemaphoreInv, SemaphoreTypeOK, WakeupsMatchValue, FrontResumed
<1>3. /\ upWaiterList' \in Seq(Fibers) /\ IsInjective(upWaiterList')
      /\ ToSet(upWaiterList') = ToSet(upWaiterList) \cup {activeFiber}
      /\ \A i \in DOMAIN upWaiterList' :
            upWaiterList'[i] \notin Awake(readyFiberList)'
  BY <1>1, <1>2, JoinList
<1>4. /\ \A f \in Waiters : Kept(f)
      /\ activeFiber \in Live' /\ context'[activeFiber] = "saved"
  BY <1>1, WaitersAreBlocked, SuspendCurrentFiber_Keeps DEF SemaphoreInv
<1>5. SchedulerInv'
  BY <1>1, SuspendCurrentFiber_Inv DEF SemaphoreInv
<1>6. SemaphoreTypeOK' /\ ValueInBounds'
  BY <1>1, <1>3 DEF SemaphoreInv, SemaphoreTypeOK, ValueInBounds
<1>7. WakeupsMatchValue'
  <2>1. FrontResumed(upWaiterList, value < maxValue)'
    BY <1>1, <1>2, <1>3 DEF FrontResumed, Awake
  <2>2. \A i \in DOMAIN downWaiterList : Kept(downWaiterList[i])
    BY <1>4 DEF Waiters, ToSet
  <2>3. FrontResumed(downWaiterList, value > minValue)'
    BY <1>1, <1>2, <2>2 DEF FrontResumed, Kept, Awake
  <2> QED
    BY <2>1, <2>3 DEF WakeupsMatchValue
<1>8. WaitersBlocked'
  BY <1>1, <1>3, <1>4 DEF SemaphoreInv, WaitersBlocked, Waiters, Kept
<1> QED
  BY <1>5, <1>6, <1>7, <1>8 DEF SemaphoreInv

(* Everything else a fiber or the loop does.                               *)
LEMMA OtherCalls_Inv == SemaphoreInv /\ OtherCalls => SemaphoreInv'
<1> SUFFICES ASSUME SemaphoreInv, OtherCalls PROVE SemaphoreInv'
  OBVIOUS
<1>1. SchedulerInv /\ activeFiber \notin Waiters /\ UNCHANGED semaphoreVars
  BY DEF OtherCalls, InUserCode, SemaphoreInv
<1>2. \A f \in Waiters : Blocked(f)
  BY <1>1, WaitersAreBlocked
<1>3. CASE AddFiber
  BY <1>1, <1>2, <1>3, AddFiber_Keeps, AddFiber_Inv, KeptWaiters
<1>4. CASE AddAndRunFiber
  BY <1>1, <1>2, <1>4, AddAndRunFiber_Keeps, AddAndRunFiber_Inv, KeptWaiters
<1>5. CASE YieldCurrentFiber
  BY <1>1, <1>2, <1>5, YieldCurrentFiber_Keeps, YieldCurrentFiber_Inv, KeptWaiters
<1>6. CASE SuspendCurrentFiber
  BY <1>1, <1>2, <1>6, SuspendCurrentFiber_Keeps, SuspendCurrentFiber_Inv, KeptWaiters
<1>7. CASE ExitCurrentFiber
  BY <1>1, <1>2, <1>7, ExitCurrentFiber_Keeps, ExitCurrentFiber_Inv, KeptWaiters
<1> QED
  BY <1>3, <1>4, <1>5, <1>6, <1>7 DEF OtherCalls

(* The resumption of a fiber that waits for something else.                *)
LEMMA OtherResume_Inv == SemaphoreInv /\ OtherResume => SemaphoreInv'
<1> SUFFICES ASSUME SemaphoreInv, OtherResume PROVE SemaphoreInv'
  OBVIOUS
<1>1. SchedulerInv /\ UNCHANGED semaphoreVars
  BY DEF OtherResume, SemaphoreInv
<1>2. activeFiber \notin Waiters
  BY <1>1, PlacesAsSets DEF OtherResume, InUserCode, SemaphoreInv, WaitersBlocked
<1>3. PICK fiber \in Suspended \ Waiters : ResumeFiber(fiber)
  BY DEF OtherResume
<1>4. \A f \in Waiters : Kept(f)
  BY <1>1, <1>2, <1>3, WaitersAreBlocked, ResumeFiber_Keeps
<1>5. SchedulerInv'
  BY <1>1, <1>3, ResumeFiber_Inv
<1> QED
  BY <1>1, <1>4, <1>5, KeptWaiters

(* A tick of the loop.                                                     *)
LEMMA LoopTick_Inv == SemaphoreInv /\ LoopTick => SemaphoreInv'
<1> SUFFICES ASSUME SemaphoreInv, LoopTick PROVE SemaphoreInv'
  OBVIOUS
<1>1. SchedulerInv /\ Tick /\ UNCHANGED semaphoreVars
  BY DEF LoopTick, SemaphoreInv
<1>2. activeFiber \notin Waiters
  BY <1>1, PlacesAsSets DEF Tick, SemaphoreInv, WaitersBlocked
<1>3. \A f \in Waiters : Kept(f)
  BY <1>1, <1>2, WaitersAreBlocked, Tick_Keeps
<1>4. SchedulerInv'
  BY <1>1, Tick_Inv
<1> QED
  BY <1>1, <1>3, <1>4, KeptWaiters

-----------------------------------------------------------------------------
(* A semaphore just initialized has no waiters.                            *)
LEMMA Init_SemaphoreInv == Init => SemaphoreInv
<1> SUFFICES ASSUME Init PROVE SemaphoreInv
  OBVIOUS
<1>1. SchedulerInv
  BY SchedulerInit_Inv DEF Init
<1>2. /\ minValue \in Int /\ maxValue \in Int /\ value \in minValue .. maxValue
      /\ downWaiterList = <<>> /\ upWaiterList = <<>>
  BY BoundsAssumption DEF Init
<1>3. /\ <<>> \in Seq(Fibers) /\ ToSet(<<>>) = {} /\ IsInjective(<<>>)
      /\ DOMAIN <<>> = {}
  <2>1. <<>> \in Seq(Fibers) /\ DOMAIN <<>> = {}
    OBVIOUS
  <2> QED
    BY <2>1, ListEmpty
<1>4. SemaphoreTypeOK /\ ValueInBounds
  BY <1>2, <1>3 DEF SemaphoreTypeOK, ValueInBounds
<1>5. WakeupsMatchValue /\ WaitersBlocked
  BY <1>2, <1>3 DEF WakeupsMatchValue, FrontResumed, WaitersBlocked, Waiters
<1> QED
  BY <1>1, <1>4, <1>5 DEF SemaphoreInv

(* The invariant is inductive, so it holds of every run of any number of   *)
(* fibers that use the semaphore in any way.                               *)
THEOREM Semaphore_Inv == Spec => []SemaphoreInv
<1>1. ASSUME SemaphoreInv, [Next]_vars PROVE SemaphoreInv'
  <2>1. CASE DownWait
    BY <1>1, <2>1, DownWait_Inv
  <2>2. CASE DownTake
    BY <1>1, <2>2, DownTake_Inv
  <2>3. CASE DownWoken
    BY <1>1, <2>3, DownWoken_Inv
  <2>4. CASE UpWait
    BY <1>1, <2>4, UpWait_Inv
  <2>5. CASE UpTake
    BY <1>1, <2>5, UpTake_Inv
  <2>6. CASE UpWoken
    BY <1>1, <2>6, UpWoken_Inv
  <2>7. CASE OtherCalls
    BY <1>1, <2>7, OtherCalls_Inv
  <2>8. CASE OtherResume
    BY <1>1, <2>8, OtherResume_Inv
  <2>9. CASE LoopTick
    BY <1>1, <2>9, LoopTick_Inv
  <2>10. CASE UNCHANGED vars
    <3>1. UNCHANGED schedulerVars /\ UNCHANGED semaphoreVars
      BY <2>10 DEF vars
    <3>2. SchedulerInv'
      BY <1>1, <3>1, SchedulerNext_Inv DEF SemaphoreInv
    <3> QED
      BY <1>1, <3>1, <3>2
      DEF SemaphoreInv, semaphoreVars, schedulerVars, SemaphoreTypeOK, ValueInBounds,
          WakeupsMatchValue, FrontResumed, WaitersBlocked, Waiters, Live
  <2> QED
    BY <1>1, <2>1, <2>2, <2>3, <2>4, <2>5, <2>6, <2>7, <2>8, <2>9, <2>10 DEF Next
<1> QED
  BY <1>1, Init_SemaphoreInv, PTL DEF Spec

(* Type correctness.                                                       *)
THEOREM Semaphore_TypeOK == Spec => []SemaphoreTypeOK
<1>1. SemaphoreInv => SemaphoreTypeOK
  BY DEF SemaphoreInv
<1> QED
  BY <1>1, Semaphore_Inv, PTL

(* The value stays in its bounds, although woken waiters change it without *)
(* looking.                                                                *)
THEOREM Semaphore_ValueInBounds == Spec => []ValueInBounds
<1>1. SemaphoreInv => ValueInBounds
  BY DEF SemaphoreInv
<1> QED
  BY <1>1, Semaphore_Inv, PTL

(* No wakeup is lost, and none is given to two waiters.                    *)
THEOREM Semaphore_WakeupsMatchValue == Spec => []WakeupsMatchValue
<1>1. SemaphoreInv => WakeupsMatchValue
  BY DEF SemaphoreInv
<1> QED
  BY <1>1, Semaphore_Inv, PTL

(* Every record on a waiter list is on the stack of a fiber that is still  *)
(* in its call.                                                            *)
THEOREM Semaphore_WaitersBlocked == Spec => []WaitersBlocked
<1>1. SemaphoreInv => WaitersBlocked
  BY DEF SemaphoreInv
<1> QED
  BY <1>1, Semaphore_Inv, PTL

(* The scheduler under the semaphore: it is never given a resumption that  *)
(* its calls do not check but rely on.                                     *)
THEOREM Semaphore_FiberInOnePlace == Spec => []FiberInOnePlace
<1>1. SemaphoreInv => FiberInOnePlace
  BY DEF SemaphoreInv, SchedulerInv
<1> QED
  BY <1>1, Semaphore_Inv, PTL

-----------------------------------------------------------------------------
(* A waiter that runs is the first of its list and has what it needs.      *)
LEMMA WokenIsFront ==
    ASSUME SemaphoreInv
    PROVE  /\ activeFiber \in ToSet(downWaiterList) =>
                /\ value > minValue /\ downWaiterList # <<>>
                /\ RemoveFirst(downWaiterList, activeFiber) = Tail(downWaiterList)
           /\ activeFiber \in ToSet(upWaiterList) =>
                /\ value < maxValue /\ upWaiterList # <<>>
                /\ RemoveFirst(upWaiterList, activeFiber) = Tail(upWaiterList)
<1>1. ASSUME NEW list \in Seq(Fibers), NEW canGo \in BOOLEAN,
             Matches(list, Awake(readyFiberList), canGo),
             activeFiber \in ToSet(list)
      PROVE  canGo /\ list # <<>> /\ RemoveFirst(list, activeFiber) = Tail(list)
  <2>1. canGo /\ FrontAwake(list, Awake(readyFiberList))
    BY <1>1 DEF Matches, AllAsleep, Awake
  <2>2. list # <<>>
    BY <1>1, ListEmpty
  <2>3. ToSet(list) = ToSet(Tail(list)) \cup {Head(list)}
    BY <2>2, ListTakeFront
  <2>4. Head(list) = activeFiber
    BY <1>1, <2>1, <2>2, <2>3 DEF FrontAwake, Awake
  <2> QED
    BY <2>1, <2>2, <2>4, ListRemoveFront
<1>2. /\ downWaiterList \in Seq(Fibers) /\ upWaiterList \in Seq(Fibers)
      /\ (value > minValue) \in BOOLEAN /\ (value < maxValue) \in BOOLEAN
      /\ Matches(downWaiterList, Awake(readyFiberList), value > minValue)
      /\ Matches(upWaiterList, Awake(readyFiberList), value < maxValue)
  BY InvMatches DEF SemaphoreInv, SemaphoreTypeOK
<1> QED
  BY <1>1, <1>2

(* The semaphore on top of the scheduler does, step by step, what the      *)
(* bounded semaphore allows: in particular whoever waits is served in the  *)
(* order of arrival.  (That somebody is served is liveness.)               *)
THEOREM Semaphore_Refines == Spec => Abstract!Spec
<1>1. Init => Abstract!Init
  <2> SUFFICES ASSUME Init PROVE Abstract!Init
    OBVIOUS
  <2>1. SemaphoreInv /\ downWaiterList = <<>> /\ upWaiterList = <<>>
    BY Init_SemaphoreInv DEF Init
  <2> QED
    BY <2>1 DEF Abstract!Init, SemaphoreInv, SemaphoreTypeOK, ValueInBounds
<1>2. ASSUME SemaphoreInv, [Next]_vars PROVE [Abstract!Next]_Abstract!vars
  <2>1. /\ value \in Int /\ minValue \in Int /\ maxValue \in Int
        /\ minValue <= value /\ value <= maxValue
    BY <1>2, InvMatches
  <2>2. InUserCode => activeFiber \in Fibers \ Waiters
    BY <1>2 DEF InUserCode, SemaphoreInv, SchedulerInv, SchedulerTypeOK
  <2>3. CASE DownWait
    <3>1. /\ value = minValue /\ downWaiterList' = Append(downWaiterList, activeFiber)
          /\ UNCHANGED <<value, minValue, maxValue, upWaiterList>>
          /\ activeFiber \in Fibers
                \ (ToSet(downWaiterList) \cup ToSet(upWaiterList))
      BY <2>2, <2>3 DEF DownWait, boundVars, Waiters
    <3>2. Abstract!WaitDown
      BY <3>1 DEF Abstract!WaitDown, Abstract!ToSet, ToSet
    <3> QED
      BY <3>2 DEF Abstract!Next
  <2>4. CASE DownTake
    <3>1. Abstract!Down
      BY <2>1, <2>4 DEF DownTake, FinishDown, Abstract!Down, boundVars
    <3> QED
      BY <3>1 DEF Abstract!Next
  <2>5. CASE DownWoken
    <3>1. Abstract!ServeDown
      BY <1>2, <2>5, WokenIsFront DEF DownWoken, FinishDown, Abstract!ServeDown, boundVars
    <3> QED
      BY <3>1 DEF Abstract!Next
  <2>6. CASE UpWait
    <3>1. /\ value = maxValue /\ upWaiterList' = Append(upWaiterList, activeFiber)
          /\ UNCHANGED <<value, minValue, maxValue, downWaiterList>>
          /\ activeFiber \in Fibers
                \ (ToSet(downWaiterList) \cup ToSet(upWaiterList))
      BY <2>2, <2>6 DEF UpWait, boundVars, Waiters
    <3>2. Abstract!WaitUp
      BY <3>1 DEF Abstract!WaitUp, Abstract!ToSet, ToSet
    <3> QED
      BY <3>2 DEF Abstract!Next
  <2>7. CASE UpTake
    <3>1. Abstract!Up
      BY <2>1, <2>7 DEF UpTake, FinishUp, Abstract!Up, boundVars
    <3> QED
      BY <3>1 DEF Abstract!Next
  <2>8. CASE UpWoken
    <3>1. Abstract!ServeUp
      BY <1>2, <2>8, WokenIsFront DEF UpWoken, FinishUp, Abstract!ServeUp, boundVars
    <3> QED
      BY <3>1 DEF Abstract!Next
  <2>9. CASE OtherCalls \/ OtherResume \/ LoopTick \/ UNCHANGED vars
    BY <2>9 DEF OtherCalls, OtherResume, LoopTick, vars, semaphoreVars, Abstract!vars
  <2> QED
    BY <1>2, <2>3, <2>4, <2>5, <2>6, <2>7, <2>8, <2>9 DEF Next
<1> QED
  BY <1>1, <1>2, Semaphore_Inv, PTL DEF Spec, Abstract!Spec
=============================================================================
