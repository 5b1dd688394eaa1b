--------------------------- MODULE ThreadPoolProofs ---------------------------
(***************************************************************************)
(* The safety of the thread pool for any number of fibers and workers and  *)
(* any size of the pipe and of a batch, and that what it does is what a    *)
(* work service may do.                                                    *)
(***************************************************************************)
EXTENDS ThreadPool, ListTheorems, FiniteSetTheorems, TLAPS

(* The stop signal is on the list only when the pool is being stopped.     *)
SignalOnlyToStop == mainState = "loop" => StopSignal \notin ToSet(workList)

(* The inductive invariant.                                                *)
PoolInv ==
    /\ ThreadPoolTypeOK
    /\ WorkInOnePlace
    /\ NoSleepBesideWork
    /\ StopFindsNoWork
    /\ SignalOnlyToStop

-----------------------------------------------------------------------------
(* What a signal does to the threads: it wakes one, if one waits, and      *)
(* touches no other.                                                       *)
OnlyWoken(s, t) ==
    \A w \in Workers : t[w] = s[w] \/ (s[w] = "waiting" /\ t[w] = "ready")

LEMMA SignalledWakes ==
    ASSUME NEW s \in [Workers -> WorkerStates], NEW t \in Signalled(s)
    PROVE  /\ t \in [Workers -> WorkerStates]
           /\ OnlyWoken(s, t)
           /\ (\E w \in Workers : t[w] = "waiting") => \E w \in Workers : t[w] = "ready"
<1> DEFINE asleep == {w \in Workers : s[w] = "waiting"}
<1>1. CASE asleep = {}
  <2>1. t = s
    BY <1>1 DEF Signalled
  <2> QED
    BY <1>1, <2>1 DEF OnlyWoken
<1>2. CASE asleep # {}
  <2>1. PICK w \in asleep : t = [s EXCEPT ![w] = "ready"]
    BY <1>2 DEF Signalled
  <2> QED
    BY <2>1 DEF OnlyWoken, WorkerStates
<1> QED
  BY <1>1, <1>2

(* InsertWorkListItem: the item is on the list, and if anyone sleeps,      *)
(* somebody is on the way to the list.                                     *)
LEMMA ItemInserted ==
    ASSUME PoolInv, NEW item \in Fibers \cup {StopSignal},
           item \notin ToSet(workList), InsertWorkListItem(item)
    PROVE  /\ workList' = Append(workList, item)
           /\ workList' \in Seq(Fibers \cup {StopSignal})
           /\ ToSet(workList') = ToSet(workList) \cup {item}
           /\ IsInjective(workList')
           /\ workerState' \in [Workers -> WorkerStates]
           /\ OnlyWoken(workerState, workerState')
           /\ NoSleepBesideWork'
<1>1. /\ workList \in Seq(Fibers \cup {StopSignal}) /\ IsInjective(workList)
      /\ workerState \in [Workers -> WorkerStates]
  BY DEF PoolInv, ThreadPoolTypeOK, WorkInOnePlace
<1>2. /\ workList' = Append(workList, item)
      /\ workerState' \in IF Len(workList') = 1 THEN Signalled(workerState)
                                               ELSE {workerState}
  BY DEF InsertWorkListItem
<1>3. /\ workList' \in Seq(Fibers \cup {StopSignal})
      /\ ToSet(workList') = ToSet(workList) \cup {item}
      /\ IsInjective(workList')
  BY <1>1, <1>2, ListInsertBack
<1>4. CASE Len(workList') = 1
  BY <1>1, <1>2, <1>3, <1>4, SignalledWakes DEF NoSleepBesideWork, In
<1>5. CASE Len(workList') # 1
  <2>1. workerState' = workerState
    BY <1>2, <1>5
  <2>2. workList # <<>>
    BY <1>1, <1>2, <1>5, AppendProperties, EmptySeq
  <2>3. NoSleepBesideWork'
    BY <2>1, <2>2 DEF PoolInv, NoSleepBesideWork, In
  <2> QED
    BY <1>1, <1>2, <1>3, <2>1, <2>3 DEF OnlyWoken
<1> QED
  BY <1>4, <1>5

(* The threads that hold works are those whose state says so.              *)
LEMMA WokenHold ==
    ASSUME NEW s \in [Workers -> WorkerStates], NEW t \in [Workers -> WorkerStates],
           OnlyWoken(s, t)
    PROVE  \A w \in Workers :
              /\ t[w] \in {"working", "writing"} <=> s[w] \in {"working", "writing"}
              /\ t[w] = "working" <=> s[w] = "working"
              /\ t[w] = "writing" <=> s[w] = "writing"
              /\ t[w] = "exited" <=> s[w] = "exited"
BY DEF OnlyWoken

-----------------------------------------------------------------------------
(* The main thread.                                                        *)
LEMMA PostWork_Inv ==
    ASSUME PoolInv, NEW fiber \in Fibers, PostWork(fiber) PROVE PoolInv'
<1>1. /\ mainState = "loop" /\ fiberState[fiber] = "running"
      /\ fiberState' = [fiberState EXCEPT ![fiber] = "waiting"]
      /\ InsertWorkListItem(fiber) /\ UNCHANGED <<hand, pipe, mainState>>
  BY DEF PostWork
<1>2. /\ fiber \notin Pending /\ fiber # StopSignal
      /\ fiber \notin ToSet(workList)
  <2>1. fiber \notin Pending
    BY <1>1 DEF Pending
  <2> QED
    BY <2>1, ThreadPoolAssumption DEF PoolInv, WorkInOnePlace, Listed
<1>3. /\ workList' \in Seq(Fibers \cup {StopSignal})
      /\ ToSet(workList') = ToSet(workList) \cup {fiber}
      /\ IsInjective(workList')
      /\ workerState' \in [Workers -> WorkerStates]
      /\ OnlyWoken(workerState, workerState')
      /\ NoSleepBesideWork'
  BY <1>1, <1>2, ItemInserted
<1>4. ThreadPoolTypeOK'
  BY <1>1, <1>3 DEF PoolInv, ThreadPoolTypeOK
<1>5. Pending' = Pending \cup {fiber}
  BY <1>1 DEF Pending, PoolInv, ThreadPoolTypeOK
<1>6. Listed' = Listed \cup {fiber} /\ Works' = Works /\ Held' = Held
  BY <1>1, <1>2, <1>3 DEF Listed, Works, Held
<1>7. In({"working", "writing"})' = In({"working", "writing"})
  BY <1>3, WokenHold DEF In, PoolInv, ThreadPoolTypeOK
<1>8. WorkInOnePlace'
  BY <1>1, <1>2, <1>3, <1>5, <1>6, <1>7 DEF PoolInv, WorkInOnePlace
<1> QED
  BY <1>1, <1>2, <1>3, <1>4, <1>8 DEF PoolInv, StopFindsNoWork, SignalOnlyToStop

LEMMA ExitFiber_Inv ==
    ASSUME PoolInv, NEW fiber \in Fibers, ExitFiber(fiber) PROVE PoolInv'
<1>1. /\ mainState = "loop" /\ fiberState[fiber] = "running"
      /\ fiberState' = [fiberState EXCEPT ![fiber] = "exited"]
      /\ UNCHANGED <<workList, workerState, hand, pipe, mainState>>
  BY DEF ExitFiber
<1>2. Pending' = Pending
  BY <1>1 DEF Pending, PoolInv, ThreadPoolTypeOK
<1>3. ThreadPoolTypeOK'
  BY <1>1 DEF PoolInv, ThreadPoolTypeOK
<1>4. WorkInOnePlace'
  BY <1>1, <1>2 DEF PoolInv, WorkInOnePlace, Listed, Works, Held, In
<1> QED
  BY <1>1, <1>3, <1>4
  DEF PoolInv, NoSleepBesideWork, StopFindsNoWork, SignalOnlyToStop, In

(* The works that are read leave the pipe, and their fibers wait no more.  *)
LEMMA WorkerCallback_Inv == ASSUME PoolInv, WorkerCallback PROVE PoolInv'
<1> DEFINE m == IF Len(pipe) < BatchSize THEN Len(pipe) ELSE BatchSize
<1>1. PICK n \in 0 .. Len(pipe) : n = m
  <2>1. Len(pipe) \in Nat
    BY LenProperties DEF PoolInv, ThreadPoolTypeOK
  <2> QED
    BY <2>1, ThreadPoolAssumption
<1> DEFINE works == {pipe[i] : i \in 1 .. n}
           rest == SubSeq(pipe, n + 1, Len(pipe))
<1>2. /\ mainState = "loop"
      /\ pipe' = rest
      /\ fiberState' = [fiber \in Fibers |->
             IF fiber \in works THEN "running" ELSE fiberState[fiber]]
      /\ UNCHANGED <<workList, workerState, hand, mainState>>
  BY <1>1 DEF WorkerCallback
<1>3. /\ rest \in Seq(Fibers) /\ Len(rest) = Len(pipe) - n
      /\ works \subseteq Fibers
      /\ ToSet(pipe) = works \cup ToSet(rest)
      /\ IsInjective(rest) /\ works \cap ToSet(rest) = {}
  BY ListTakeSome DEF PoolInv, ThreadPoolTypeOK, WorkInOnePlace
<1>4. Len(rest) <= PipeCapacity
  BY <1>3, LenProperties, ThreadPoolAssumption DEF PoolInv, ThreadPoolTypeOK
<1> HIDE DEF works, rest, m
<1>5. Pending' = Pending \ works
  BY <1>2 DEF Pending, PoolInv, ThreadPoolTypeOK
<1>6. ThreadPoolTypeOK'
  BY <1>2, <1>3, <1>4 DEF PoolInv, ThreadPoolTypeOK
<1>7. Listed' = Listed /\ Held' = Held /\ Works' = Works
  BY <1>2 DEF Listed, Held, Works
<1>8. WorkInOnePlace'
  BY <1>2, <1>3, <1>5, <1>7 DEF PoolInv, WorkInOnePlace, In
<1> QED
  BY <1>2, <1>6, <1>8
  DEF PoolInv, NoSleepBesideWork, StopFindsNoWork, SignalOnlyToStop, In

(* All fibers have exited: nobody waits, so no work is anywhere.           *)
LEMMA Stop_Inv == ASSUME PoolInv, Stop PROVE PoolInv'
<1>1. /\ mainState = "loop" /\ mainState' = "stop"
      /\ \A fiber \in Fibers : fiberState[fiber] = "exited"
      /\ InsertWorkListItem(StopSignal) /\ UNCHANGED <<hand, pipe, fiberState>>
  BY DEF Stop
<1>2. StopSignal \notin ToSet(workList)
  BY <1>1 DEF PoolInv, SignalOnlyToStop
<1>3. /\ workList' = Append(workList, StopSignal)
      /\ workList' \in Seq(Fibers \cup {StopSignal})
      /\ ToSet(workList') = ToSet(workList) \cup {StopSignal}
      /\ IsInjective(workList')
      /\ workerState' \in [Workers -> WorkerStates]
      /\ OnlyWoken(workerState, workerState')
      /\ NoSleepBesideWork'
  BY <1>1, <1>2, ItemInserted
<1>4. Pending = {} /\ Pending' = {}
  BY <1>1 DEF Pending
<1>5. ToSet(workList) = {} /\ ToSet(pipe) = {} /\ Works = {}
  BY <1>2, <1>4 DEF PoolInv, WorkInOnePlace, Listed, Held
<1>6. workList = <<>> /\ pipe = <<>>
  BY <1>5, ListEmpty DEF PoolInv, ThreadPoolTypeOK
<1>7. ThreadPoolTypeOK'
  BY <1>1, <1>3 DEF PoolInv, ThreadPoolTypeOK
<1>8. Listed' = {} /\ Works' = {} /\ Held' = {}
  BY <1>1, <1>3, <1>5 DEF Listed, Works, Held
<1>9. In({"working", "writing"})' = {}
  BY <1>3, <1>5, WokenHold DEF In, PoolInv, ThreadPoolTypeOK, WorkInOnePlace
<1>10. WorkInOnePlace'
  BY <1>1, <1>3, <1>4, <1>5, <1>8, <1>9 DEF PoolInv, WorkInOnePlace
<1>11. StopFindsNoWork'
  BY <1>1, <1>3, <1>6, <1>9 DEF StopFindsNoWork
<1> QED
  BY <1>1, <1>3, <1>7, <1>10, <1>11 DEF PoolInv, SignalOnlyToStop

LEMMA Joined_Inv == ASSUME PoolInv, Joined PROVE PoolInv'
<1>1. /\ mainState = "stop" /\ In({"exited"}) = Workers /\ mainState' = "done"
      /\ workList' = RemoveFirst(workList, StopSignal)
      /\ UNCHANGED <<workerState, hand, pipe, fiberState>>
  BY DEF Joined
<1>2. workList = <<StopSignal>> /\ pipe = <<>>
  BY <1>1 DEF PoolInv, StopFindsNoWork
<1>3. workList' = <<>>
  <2>1. RemoveFirst(workList, Head(workList)) = Tail(workList)
    BY <1>2, ListRemoveFront DEF PoolInv, ThreadPoolTypeOK
  <2> QED
    BY <1>1, <1>2, <2>1
<1>4. /\ ToSet(<<>>) = {} /\ IsInjective(<<>>) /\ ToSet(workList) = {StopSignal}
      /\ <<>> \in Seq(Fibers \cup {StopSignal})
  <2>1. ToSet(<<>>) = {} /\ IsInjective(<<>>)
    BY ListEmpty DEF PoolInv, ThreadPoolTypeOK
  <2>2. ToSet(<<StopSignal>>) = {StopSignal}
    BY DEF ToSet
  <2> QED
    BY <1>2, <2>1, <2>2
<1>5. ThreadPoolTypeOK'
  BY <1>1, <1>3, <1>4 DEF PoolInv, ThreadPoolTypeOK
<1>6. Listed' = Listed /\ Held' = Held /\ Works' = Works /\ Pending' = Pending
  BY <1>1, <1>3, <1>4 DEF Listed, Held, Works, Pending
<1>7. WorkInOnePlace'
  BY <1>1, <1>3, <1>4, <1>6 DEF PoolInv, WorkInOnePlace, In
<1>8. In({"working", "writing"})' = In({"working", "writing"}) /\ In({"exited"})' = Workers
  BY <1>1 DEF In
<1> QED
  BY <1>1, <1>2, <1>3, <1>5, <1>7, <1>8
  DEF PoolInv, NoSleepBesideWork, StopFindsNoWork, SignalOnlyToStop

-----------------------------------------------------------------------------
(* The workers.                                                            *)
LEMMA FindNothing_Inv ==
    ASSUME PoolInv, NEW worker \in Workers, FindNothing(worker) PROVE PoolInv'
<1>1. /\ workerState[worker] = "ready" /\ workList = <<>>
      /\ workerState' = [workerState EXCEPT ![worker] = "waiting"]
      /\ UNCHANGED <<workList, hand, pipe, fiberState, mainState>>
  BY DEF FindNothing
<1>2. ThreadPoolTypeOK'
  BY <1>1 DEF PoolInv, ThreadPoolTypeOK, WorkerStates
<1>3. In({"working", "writing"})' = In({"working", "writing"})
  BY <1>1 DEF In, PoolInv, ThreadPoolTypeOK
<1>4. WorkInOnePlace'
  BY <1>1, <1>3 DEF PoolInv, WorkInOnePlace, Listed, Held, Works, Pending
<1>5. mainState = "loop"
  BY <1>1 DEF PoolInv, ThreadPoolTypeOK, StopFindsNoWork, In
<1> QED
  BY <1>1, <1>2, <1>4, <1>5
  DEF PoolInv, NoSleepBesideWork, StopFindsNoWork, SignalOnlyToStop

(* Only while the pool is being stopped; the next sleeper is woken.        *)
LEMMA FindStopSignal_Inv ==
    ASSUME PoolInv, NEW worker \in Workers, FindStopSignal(worker) PROVE PoolInv'
<1> DEFINE states == [workerState EXCEPT ![worker] = "exited"]
<1>1. /\ workerState[worker] = "ready" /\ workList # <<>>
      /\ Head(workList) = StopSignal
      /\ workerState' \in Signalled(states)
      /\ UNCHANGED <<workList, hand, pipe, fiberState, mainState>>
  BY DEF FindStopSignal
<1>2. states \in [Workers -> WorkerStates]
  BY DEF PoolInv, ThreadPoolTypeOK, WorkerStates
<1>3. \A w \in Workers :
         states[w] \in {"working", "writing"} <=> workerState[w] \in {"working", "writing"}
  BY <1>1 DEF PoolInv, ThreadPoolTypeOK
<1> HIDE DEF states
<1>4. /\ workerState' \in [Workers -> WorkerStates]
      /\ OnlyWoken(states, workerState')
      /\ In({"waiting"})' # {} => In({"ready"})' # {}
  BY <1>1, <1>2, SignalledWakes DEF In
<1>5. In({"working", "writing"})' = In({"working", "writing"})
  BY <1>2, <1>3, <1>4, WokenHold DEF In
<1>6. ThreadPoolTypeOK'
  BY <1>1, <1>4 DEF PoolInv, ThreadPoolTypeOK
<1>7. WorkInOnePlace'
  BY <1>1, <1>5 DEF PoolInv, WorkInOnePlace, Listed, Held, Works, Pending
<1>8. NoSleepBesideWork'
  BY <1>4 DEF NoSleepBesideWork
<1>9. mainState = "stop"
  <2>1. StopSignal \in ToSet(workList)
    BY <1>1, ListTakeFront DEF PoolInv, ThreadPoolTypeOK
  <2> QED
    BY <1>1, <2>1 DEF PoolInv, ThreadPoolTypeOK, StopFindsNoWork, SignalOnlyToStop
<1> QED
  BY <1>1, <1>5, <1>6, <1>7, <1>8, <1>9
  DEF PoolInv, StopFindsNoWork, SignalOnlyToStop

(* What a worker that takes a work finds and does: shared by the invariant *)
(* and the refinement.                                                     *)
LEMMA WorkTaken ==
    ASSUME PoolInv, NEW worker \in Workers, TakeWork(worker)
    PROVE  /\ mainState = "loop" /\ worker \notin Works
           /\ Head(workList) \in Fibers /\ Head(workList) \in Listed
           /\ workList' \in Seq(Fibers \cup {StopSignal}) /\ IsInjective(workList')
           /\ ToSet(workList') = ToSet(workList) \ {Head(workList)}
           /\ workerState' \in [Workers -> WorkerStates]
           /\ In({"working"})' = In({"working"}) \cup {worker}
           /\ In({"writing"})' = In({"writing"})
           /\ workList' # <<>> /\ In({"waiting"})' # {} => In({"ready"})' # {}
<1> DEFINE states == [workerState EXCEPT ![worker] = "working"]
<1>1. /\ workerState[worker] = "ready" /\ workList # <<>>
      /\ Head(workList) # StopSignal
      /\ workList' = Tail(workList)
      /\ workerState' \in IF workList' # <<>> THEN Signalled(states) ELSE {states}
  BY DEF TakeWork
<1>2. /\ Head(workList) \in Fibers \cup {StopSignal}
      /\ Tail(workList) \in Seq(Fibers \cup {StopSignal})
      /\ ToSet(workList) = ToSet(Tail(workList)) \cup {Head(workList)}
      /\ IsInjective(Tail(workList)) /\ Head(workList) \notin ToSet(Tail(workList))
  BY <1>1, ListTakeFront DEF PoolInv, ThreadPoolTypeOK, WorkInOnePlace
<1>3. mainState = "loop"
  <2>1. ASSUME mainState = "stop" PROVE FALSE
    BY <1>1, <2>1 DEF PoolInv, StopFindsNoWork
  <2> QED
    BY <1>1, <2>1 DEF PoolInv, ThreadPoolTypeOK, StopFindsNoWork
<1>4. /\ states \in [Workers -> WorkerStates]
      /\ states[worker] = "working"
      /\ \A w \in Workers \ {worker} : states[w] = workerState[w]
  BY DEF PoolInv, ThreadPoolTypeOK, WorkerStates
<1> HIDE DEF states
<1>5. /\ workerState' \in [Workers -> WorkerStates]
      /\ OnlyWoken(states, workerState')
      /\ workList' # <<>> /\ In({"waiting"})' # {} => In({"ready"})' # {}
  <2>1. CASE workList' # <<>>
    BY <1>1, <1>4, <2>1, SignalledWakes DEF In
  <2>2. CASE workList' = <<>>
    BY <1>1, <1>4, <2>2 DEF OnlyWoken
  <2> QED
    BY <2>1, <2>2
<1>6. \A w \in Workers :
         /\ workerState'[w] = "working" <=> states[w] = "working"
         /\ workerState'[w] = "writing" <=> states[w] = "writing"
  BY <1>4, <1>5, WokenHold
<1>7. /\ In({"working"})' = In({"working"}) \cup {worker}
      /\ In({"writing"})' = In({"writing"})
  BY <1>1, <1>4, <1>6 DEF In
<1>8. worker \notin Works
  BY <1>1 DEF PoolInv, WorkInOnePlace, In
<1> QED
  BY <1>1, <1>2, <1>3, <1>5, <1>7, <1>8 DEF Listed

LEMMA TakeWork_Inv ==
    ASSUME PoolInv, NEW worker \in Workers, TakeWork(worker) PROVE PoolInv'
<1>1. /\ mainState = "loop" /\ worker \notin Works
      /\ Head(workList) \in Fibers /\ Head(workList) \in Listed
      /\ workList' \in Seq(Fibers \cup {StopSignal}) /\ IsInjective(workList')
      /\ ToSet(workList') = ToSet(workList) \ {Head(workList)}
      /\ workerState' \in [Workers -> WorkerStates]
      /\ In({"working"})' = In({"working"}) \cup {worker}
      /\ In({"writing"})' = In({"writing"})
      /\ workList' # <<>> /\ In({"waiting"})' # {} => In({"ready"})' # {}
  BY WorkTaken
<1>2. PICK g \in Fibers : g = Head(workList)
  BY <1>1
<1>3. /\ hand' = [hand EXCEPT ![worker] = g]
      /\ UNCHANGED <<pipe, fiberState, mainState>>
  BY <1>2 DEF TakeWork
<1>4. ThreadPoolTypeOK'
  BY <1>1, <1>3 DEF PoolInv, ThreadPoolTypeOK
<1>5. /\ hand'[worker] = g /\ g # NoWork
      /\ \A w \in Workers \ {worker} : hand'[w] = hand[w]
  BY <1>3, ThreadPoolAssumption DEF PoolInv, ThreadPoolTypeOK
<1>6. /\ Listed' = Listed \ {g} /\ Works' = Works \cup {worker}
      /\ Held' = Held \cup {g}
  <2>1. Listed' = Listed \ {g}
    BY <1>1, <1>2 DEF Listed
  <2>2. Works' = Works \cup {worker}
    BY <1>5 DEF Works
  <2>3. \A w \in Works : w \in Workers /\ w # worker
    BY <1>1 DEF Works
  <2> QED
    BY <1>5, <2>1, <2>2, <2>3 DEF Held
<1>7. \A w \in Works : hand[w] \in Held /\ w \in Workers /\ w # worker
  BY <1>1 DEF Held, Works
<1>8. In({"working", "writing"})' = In({"working", "writing"}) \cup {worker}
  BY <1>1 DEF In
<1>9. WorkInOnePlace'
  <2>1. g \in Listed /\ g \notin Held /\ g \notin ToSet(pipe)
    BY <1>1, <1>2 DEF PoolInv, WorkInOnePlace
  <2>2. \A v, w \in Works' : hand'[v] = hand'[w] => v = w
    BY <1>5, <1>6, <1>7, <2>1 DEF PoolInv, WorkInOnePlace
  <2>3. Pending' = Pending
    BY <1>3 DEF Pending
  <2> QED
    BY <1>1, <1>3, <1>6, <1>8, <2>1, <2>2, <2>3 DEF PoolInv, WorkInOnePlace
<1>10. NoSleepBesideWork'
  BY <1>1 DEF NoSleepBesideWork
<1> QED
  BY <1>1, <1>3, <1>4, <1>9, <1>10 DEF PoolInv, StopFindsNoWork, SignalOnlyToStop

LEMMA FinishWork_Inv ==
    ASSUME PoolInv, NEW worker \in Workers, FinishWork(worker) PROVE PoolInv'
<1>1. /\ workerState[worker] = "working"
      /\ workerState' = [workerState EXCEPT ![worker] = "writing"]
      /\ UNCHANGED <<workList, hand, pipe, fiberState, mainState>>
  BY DEF FinishWork
<1>2. ThreadPoolTypeOK'
  BY <1>1 DEF PoolInv, ThreadPoolTypeOK, WorkerStates
<1>3. /\ In({"working", "writing"})' = In({"working", "writing"})
      /\ In({"waiting"})' = In({"waiting"}) /\ In({"ready"})' = In({"ready"})
      /\ In({"exited"})' = In({"exited"})
  BY <1>1 DEF In, PoolInv, ThreadPoolTypeOK
<1>4. WorkInOnePlace'
  BY <1>1, <1>3 DEF PoolInv, WorkInOnePlace, Listed, Held, Works, Pending
<1> QED
  BY <1>1, <1>2, <1>3, <1>4
  DEF PoolInv, NoSleepBesideWork, StopFindsNoWork, SignalOnlyToStop

LEMMA WriteWork_Inv ==
    ASSUME PoolInv, NEW worker \in Workers, WriteWork(worker) PROVE PoolInv'
<1>1. /\ workerState[worker] = "writing"
      /\ Len(pipe) < PipeCapacity
      /\ pipe' = Append(pipe, hand[worker])
      /\ hand' = [hand EXCEPT ![worker] = NoWork]
      /\ workerState' = [workerState EXCEPT ![worker] = "ready"]
      /\ UNCHANGED <<workList, fiberState, mainState>>
  BY DEF WriteWork
<1>2. worker \in Works
  BY <1>1 DEF PoolInv, WorkInOnePlace, In
<1>3. hand[worker] \in Fibers /\ hand[worker] \in Held
  BY <1>2 DEF PoolInv, ThreadPoolTypeOK, Works, Held
<1>4. PICK g \in Fibers : g = hand[worker]
  BY <1>3
<1>5. /\ pipe' \in Seq(Fibers) /\ IsInjective(pipe')
      /\ ToSet(pipe') = ToSet(pipe) \cup {g}
      /\ Len(pipe') = Len(pipe) + 1
  <2>1. pipe \in Seq(Fibers) /\ IsInjective(pipe) /\ g \notin ToSet(pipe)
    BY <1>3, <1>4 DEF PoolInv, ThreadPoolTypeOK, WorkInOnePlace
  <2> QED
    BY <1>1, <1>4, <2>1, ListInsertBack, AppendProperties
<1>6. Len(pipe') <= PipeCapacity
  <2>1. Len(pipe) \in Nat
    BY LenProperties DEF PoolInv, ThreadPoolTypeOK
  <2> QED
    BY <1>1, <1>5, <2>1, ThreadPoolAssumption
<1>7. ThreadPoolTypeOK'
  BY <1>1, <1>5, <1>6 DEF PoolInv, ThreadPoolTypeOK, WorkerStates
<1>8. /\ hand'[worker] = NoWork
      /\ \A w \in Workers \ {worker} : hand'[w] = hand[w]
  BY <1>1 DEF PoolInv, ThreadPoolTypeOK
<1>9. Works' = Works \ {worker} /\ \A w \in Works : w \in Workers
  BY <1>8 DEF Works
<1>10. \A w \in Works : hand[w] \in Held /\ hand[w] = g => w = worker
  BY <1>2, <1>4 DEF Held, PoolInv, WorkInOnePlace
<1>11. Held' = Held \ {g}
  BY <1>2, <1>4, <1>8, <1>9, <1>10 DEF Held
<1>12. /\ In({"working", "writing"})' = In({"working", "writing"}) \ {worker}
       /\ In({"ready"})' # {}
  BY <1>1 DEF In, PoolInv, ThreadPoolTypeOK
<1>13. WorkInOnePlace'
  <2>1. Listed' = Listed /\ Pending' = Pending /\ g \in Held
    BY <1>1, <1>3, <1>4 DEF Listed, Pending
  <2>2. \A v, w \in Works' : hand'[v] = hand'[w] => v = w
    BY <1>8, <1>9 DEF PoolInv, WorkInOnePlace
  <2> QED
    BY <1>1, <1>5, <1>9, <1>11, <1>12, <2>1, <2>2 DEF PoolInv, WorkInOnePlace
<1>14. mainState = "loop"
  BY <1>1 DEF PoolInv, StopFindsNoWork, In
<1> QED
  BY <1>1, <1>7, <1>12, <1>13, <1>14
  DEF PoolInv, NoSleepBesideWork, StopFindsNoWork, SignalOnlyToStop

LEMMA SpuriousWakeup_Inv ==
    ASSUME PoolInv, NEW worker \in Workers, SpuriousWakeup(worker) PROVE PoolInv'
<1>1. /\ workerState[worker] = "waiting"
      /\ workerState' = [workerState EXCEPT ![worker] = "ready"]
      /\ UNCHANGED <<workList, hand, pipe, fiberState, mainState>>
  BY DEF SpuriousWakeup
<1>2. ThreadPoolTypeOK'
  BY <1>1 DEF PoolInv, ThreadPoolTypeOK, WorkerStates
<1>3. /\ In({"working", "writing"})' = In({"working", "writing"})
      /\ In({"ready"})' # {} /\ In({"exited"})' = In({"exited"})
  BY <1>1 DEF In, PoolInv, ThreadPoolTypeOK
<1>4. WorkInOnePlace'
  BY <1>1, <1>3 DEF PoolInv, WorkInOnePlace, Listed, Held, Works, Pending
<1> QED
  BY <1>1, <1>2, <1>3, <1>4
  DEF PoolInv, NoSleepBesideWork, StopFindsNoWork, SignalOnlyToStop

-----------------------------------------------------------------------------
LEMMA Init_PoolInv == Init => PoolInv
<1> SUFFICES ASSUME Init PROVE PoolInv
  OBVIOUS
<1>1. /\ workList = <<>> /\ pipe = <<>> /\ mainState = "loop"
      /\ workerState = [worker \in Workers |-> "ready"]
      /\ hand = [worker \in Workers |-> NoWork]
      /\ fiberState = [fiber \in Fibers |-> "running"]
  BY DEF Init
<1>2. /\ ToSet(workList) = {} /\ IsInjective(workList)
      /\ ToSet(pipe) = {} /\ IsInjective(pipe)
      /\ workList \in Seq(Fibers \cup {StopSignal})
      /\ pipe \in Seq(Fibers) /\ Len(pipe) = 0
  <2>1. /\ <<>> \in Seq(Fibers \cup {StopSignal}) /\ <<>> \in Seq(Fibers)
        /\ Len(<<>>) = 0
    OBVIOUS
  <2>2. ToSet(<<>>) = {} /\ IsInjective(<<>>)
    BY <2>1, ListEmpty
  <2> QED
    BY <1>1, <2>1, <2>2
<1>3. ThreadPoolTypeOK
  BY <1>1, <1>2, ThreadPoolAssumption DEF ThreadPoolTypeOK, WorkerStates
<1>4. /\ Works = {} /\ Held = {} /\ Listed = {} /\ Pending = {}
      /\ In({"working", "writing"}) = {}
  BY <1>1, <1>2 DEF Works, Held, Listed, Pending, In
<1> QED
  BY <1>1, <1>2, <1>3, <1>4
  DEF PoolInv, WorkInOnePlace, NoSleepBesideWork, StopFindsNoWork, SignalOnlyToStop

(* Every step of the main thread, of a fiber and of a worker thread keeps  *)
(* the invariant.                                                          *)
THEOREM PoolNext_Inv == PoolInv /\ [Next]_vars => PoolInv'
<1> SUFFICES ASSUME PoolInv, [Next]_vars PROVE PoolInv'
  OBVIOUS
<1>1. ASSUME NEW fiber \in Fibers, PostWork(fiber) \/ ExitFiber(fiber) PROVE PoolInv'
  BY <1>1, PostWork_Inv, ExitFiber_Inv
<1>2. CASE WorkerCallback
  BY <1>2, WorkerCallback_Inv
<1>3. CASE Stop
  BY <1>3, Stop_Inv
<1>4. CASE Joined
  BY <1>4, Joined_Inv
<1>5. ASSUME NEW worker \in Workers, Worker(worker) \/ SpuriousWakeup(worker)
      PROVE  PoolInv'
  BY <1>5, FindNothing_Inv, FindStopSignal_Inv, TakeWork_Inv, FinishWork_Inv,
     WriteWork_Inv, SpuriousWakeup_Inv DEF Worker
<1>6. CASE UNCHANGED vars
  BY <1>6 DEF vars, PoolInv, ThreadPoolTypeOK, WorkInOnePlace, NoSleepBesideWork,
              StopFindsNoWork, SignalOnlyToStop, Listed, Held, Works, Pending, In
<1> QED
  BY <1>1, <1>2, <1>3, <1>4, <1>5, <1>6 DEF Next

THEOREM Pool_Inv == Spec => []PoolInv
  BY Init_PoolInv, PoolNext_Inv, PTL DEF Spec

(* Type correctness, the bound of the pipe included.                       *)
THEOREM ThreadPool_TypeOK == Spec => []ThreadPoolTypeOK
<1>1. PoolInv => ThreadPoolTypeOK
  BY DEF PoolInv
<1> QED
  BY <1>1, Pool_Inv, PTL

(* A work is on the list, in one worker's hand or in the pipe exactly as   *)
(* long as its fiber waits: no pointer to a dead struct Work is anywhere.  *)
THEOREM ThreadPool_WorkInOnePlace == Spec => []WorkInOnePlace
<1>1. PoolInv => WorkInOnePlace
  BY DEF PoolInv
<1> QED
  BY <1>1, Pool_Inv, PTL

(* The signal sent for an empty list only, passed on by each worker that   *)
(* leaves something behind, loses no wakeup.                               *)
THEOREM ThreadPool_NoSleepBesideWork == Spec => []NoSleepBesideWork
<1>1. PoolInv => NoSleepBesideWork
  BY DEF PoolInv
<1> QED
  BY <1>1, Pool_Inv, PTL

(* ThreadPool_Stop finds the pool idle, and after the join nothing uses    *)
(* the list or the pipe any more.                                          *)
THEOREM ThreadPool_StopFindsNoWork == Spec => []StopFindsNoWork
<1>1. PoolInv => StopFindsNoWork
  BY DEF PoolInv
<1> QED
  BY <1>1, Pool_Inv, PTL

-----------------------------------------------------------------------------
(* The refinement.  The works that run are as many as the workers that do  *)
(* them; whoever is about to take one does none.                           *)
Running == {hand[worker] : worker \in In({"working"})}
Done == ToSet(pipe) \cup {hand[worker] : worker \in In({"writing"})}
Posted == IF mainState = "loop" THEN workList ELSE <<>>

LEMMA RoomToRun ==
    ASSUME NEW worker \in Workers, workerState[worker] = "ready"
    PROVE  /\ Cardinality(Running) \in Nat
           /\ Cardinality(Running) < Cardinality(Workers)
<1> DEFINE W == In({"working"})
           f == [w \in W |-> hand[w]]
<1>1. IsFiniteSet(Workers) /\ W \subseteq Workers \ {worker}
  BY ThreadPoolAssumption DEF In
<1>2. IsFiniteSet(Workers \ {worker}) /\ IsFiniteSet(W)
  BY <1>1, FS_Subset
<1>3. f \in Surjection(W, Running)
  BY DEF Surjection, Running
<1>4. IsFiniteSet(Running) /\ Cardinality(Running) <= Cardinality(W)
  BY <1>2, <1>3, FS_Surjection
<1>5. Cardinality(W) <= Cardinality(Workers \ {worker})
  BY <1>1, <1>2, FS_Subset
<1>6. Cardinality(Workers \ {worker}) = Cardinality(Workers) - 1
  BY <1>1, FS_RemoveElement
<1>7. /\ Cardinality(Running) \in Nat /\ Cardinality(W) \in Nat
      /\ Cardinality(Workers) \in Nat
  BY <1>1, <1>2, <1>4, FS_CardinalityType
<1> QED
  BY <1>4, <1>5, <1>6, <1>7

(* Whose work is where, seen by the service.                               *)
LEMMA ServiceSees ==
    ASSUME PoolInv
    PROVE  Held = Running \cup {hand[worker] : worker \in In({"writing"})}
BY DEF PoolInv, WorkInOnePlace, Held, Running, In

(* What each kind of step does to what the fibers see.                     *)
LEMMA PostWork_Seen ==
    ASSUME PoolInv, NEW fiber \in Fibers, PostWork(fiber)
    PROVE  /\ fiber \notin ToSet(Posted) \cup Running \cup Done
           /\ Posted' = Append(Posted, fiber)
           /\ Running' = Running /\ Done' = Done
<1>1. /\ mainState = "loop" /\ fiberState[fiber] = "running"
      /\ InsertWorkListItem(fiber) /\ UNCHANGED <<hand, pipe, mainState>>
  BY DEF PostWork
<1>2. fiber \notin Pending /\ fiber # StopSignal
  BY <1>1, ThreadPoolAssumption DEF Pending
<1>3. fiber \notin ToSet(workList) /\ fiber \notin Held /\ fiber \notin ToSet(pipe)
  BY <1>2 DEF PoolInv, WorkInOnePlace, Listed
<1>4. /\ workList' = Append(workList, fiber)
      /\ workerState' \in [Workers -> WorkerStates]
      /\ OnlyWoken(workerState, workerState')
  BY <1>1, <1>3, ItemInserted
<1>5. In({"working"})' = In({"working"}) /\ In({"writing"})' = In({"writing"})
  BY <1>4, WokenHold DEF In, PoolInv, ThreadPoolTypeOK
<1>6. fiber \notin Running \cup Done
  BY <1>3, ServiceSees DEF Done
<1>7. Running' = Running /\ Done' = Done
  BY <1>1, <1>5 DEF Running, Done
<1> QED
  BY <1>1, <1>3, <1>4, <1>6, <1>7 DEF Posted

LEMMA WorkerCallback_Seen ==
    ASSUME PoolInv, WorkerCallback
    PROVE  /\ UNCHANGED <<Posted, Running>>
           /\ \E fiber \in Fibers : \E batch \in SUBSET Done :
                 fiber \in batch /\ Done' = Done \ batch
<1> DEFINE m == IF Len(pipe) < BatchSize THEN Len(pipe) ELSE BatchSize
<1>1. PICK n \in 1 .. Len(pipe) : n = m
  <2>1. Len(pipe) \in Nat \ {0}
    BY LenProperties, EmptySeq DEF PoolInv, ThreadPoolTypeOK, WorkerCallback
  <2> QED
    BY <2>1, ThreadPoolAssumption
<1> DEFINE works == {pipe[i] : i \in 1 .. n}
           rest == SubSeq(pipe, n + 1, Len(pipe))
<1>2. /\ mainState = "loop" /\ pipe' = rest
      /\ UNCHANGED <<workList, workerState, hand, mainState>>
  BY <1>1 DEF WorkerCallback
<1>3. /\ works \subseteq Fibers /\ pipe[1] \in works
      /\ ToSet(pipe) = works \cup ToSet(rest)
      /\ works \cap ToSet(rest) = {}
  <2>1. n \in 0 .. Len(pipe) /\ 1 \in 1 .. n
    BY <1>1
  <2> QED
    BY <2>1, ListTakeSome DEF PoolInv, ThreadPoolTypeOK, WorkInOnePlace
<1> HIDE DEF works, rest, m
<1>4. UNCHANGED <<Posted, Running>>
  BY <1>2 DEF Posted, Running, In
<1>5. works \subseteq Done
  BY <1>3 DEF Done
<1>6. Done' = Done \ works
  <2> DEFINE written == {hand[worker] : worker \in In({"writing"})}
  <2>1. written \cap works = {}
    BY <1>3, ServiceSees DEF PoolInv, WorkInOnePlace
  <2>2. written' = written
    BY <1>2 DEF In
  <2> QED
    BY <1>2, <1>3, <2>1, <2>2 DEF Done
<1> QED
  BY <1>3, <1>4, <1>5, <1>6

LEMMA Stop_Seen ==
    ASSUME PoolInv, Stop PROVE UNCHANGED <<Posted, Running, Done>>
<1>1. /\ mainState = "loop" /\ mainState' = "stop"
      /\ \A fiber \in Fibers : fiberState[fiber] = "exited"
      /\ InsertWorkListItem(StopSignal) /\ UNCHANGED <<hand, pipe, fiberState>>
  BY DEF Stop
<1>2. StopSignal \notin ToSet(workList)
  BY <1>1 DEF PoolInv, SignalOnlyToStop
<1>3. /\ workerState' \in [Workers -> WorkerStates]
      /\ OnlyWoken(workerState, workerState')
  BY <1>1, <1>2, ItemInserted
<1>4. In({"working"})' = In({"working"}) /\ In({"writing"})' = In({"writing"})
  BY <1>3, WokenHold DEF In, PoolInv, ThreadPoolTypeOK
<1>5. workList = <<>>
  <2>1. Pending = {}
    BY <1>1 DEF Pending
  <2>2. ToSet(workList) = {}
    BY <1>2, <2>1 DEF PoolInv, WorkInOnePlace, Listed
  <2> QED
    BY <2>2, ListEmpty DEF PoolInv, ThreadPoolTypeOK
<1> QED
  BY <1>1, <1>4, <1>5 DEF Posted, Running, Done

LEMMA TakeWork_Seen ==
    ASSUME PoolInv, NEW worker \in Workers, TakeWork(worker)
    PROVE  /\ Posted # <<>> /\ Posted' = Tail(Posted)
           /\ Running' = Running \cup {Head(Posted)}
           /\ Done' = Done
<1>1. /\ workList # <<>> /\ workList' = Tail(workList)
      /\ hand' = [hand EXCEPT ![worker] = Head(workList)]
      /\ UNCHANGED <<pipe, mainState>>
  BY DEF TakeWork
<1>2. /\ mainState = "loop" /\ worker \notin Works
      /\ In({"working"})' = In({"working"}) \cup {worker}
      /\ In({"writing"})' = In({"writing"})
  BY WorkTaken
<1>3. worker \notin In({"working"}) /\ worker \notin In({"writing"})
  BY <1>2 DEF PoolInv, WorkInOnePlace, In
<1>4. /\ hand'[worker] = Head(workList)
      /\ \A w \in In({"working"}) : hand'[w] = hand[w]
      /\ \A w \in In({"writing"}) : hand'[w] = hand[w]
  BY <1>1, <1>3 DEF PoolInv, ThreadPoolTypeOK, In
<1>5. Running' = Running \cup {Head(workList)}
  BY <1>2, <1>4 DEF Running
<1>6. Done' = Done
  BY <1>1, <1>2, <1>4 DEF Done
<1> QED
  BY <1>1, <1>2, <1>5, <1>6 DEF Posted

LEMMA FinishWork_Seen ==
    ASSUME PoolInv, NEW worker \in Workers, FinishWork(worker)
    PROVE  /\ hand[worker] \in Fibers /\ hand[worker] \in Running
           /\ Running' = Running \ {hand[worker]}
           /\ Done' = Done \cup {hand[worker]}
           /\ Posted' = Posted
<1>1. /\ workerState[worker] = "working"
      /\ workerState' = [workerState EXCEPT ![worker] = "writing"]
      /\ UNCHANGED <<workList, hand, pipe, mainState>>
  BY DEF FinishWork
<1>2. /\ In({"working"})' = In({"working"}) \ {worker}
      /\ In({"writing"})' = In({"writing"}) \cup {worker}
      /\ worker \in In({"working"})
  BY <1>1 DEF In, PoolInv, ThreadPoolTypeOK
<1>3. \A w \in In({"working"}) : w \in Works /\ (hand[w] = hand[worker] => w = worker)
  BY <1>2 DEF PoolInv, WorkInOnePlace, In
<1>4. hand[worker] \in Fibers
  BY <1>2, <1>3 DEF PoolInv, ThreadPoolTypeOK, Works
<1>5. hand[worker] \in Running /\ Running' = Running \ {hand[worker]}
  BY <1>1, <1>2, <1>3 DEF Running
<1>6. Done' = Done \cup {hand[worker]}
  BY <1>1, <1>2 DEF Done
<1> QED
  BY <1>1, <1>4, <1>5, <1>6 DEF Posted

(* A work on its way through the pipe is done and not yet delivered.       *)
LEMMA WriteWork_Seen ==
    ASSUME PoolInv, NEW worker \in Workers, WriteWork(worker)
    PROVE  UNCHANGED <<Posted, Running, Done>>
<1>1. /\ workerState[worker] = "writing"
      /\ pipe' = Append(pipe, hand[worker])
      /\ hand' = [hand EXCEPT ![worker] = NoWork]
      /\ workerState' = [workerState EXCEPT ![worker] = "ready"]
      /\ UNCHANGED <<workList, mainState>>
  BY DEF WriteWork
<1>2. /\ In({"working"})' = In({"working"})
      /\ In({"writing"})' = In({"writing"}) \ {worker}
      /\ worker \in In({"writing"}) /\ worker \notin In({"working"})
  BY <1>1 DEF In, PoolInv, ThreadPoolTypeOK
<1>3. \A w \in Workers \ {worker} : hand'[w] = hand[w]
  BY <1>1 DEF PoolInv, ThreadPoolTypeOK
<1>4. \A states : In(states) \subseteq Workers
  BY DEF In
<1>5. hand[worker] \in Fibers
  BY <1>2 DEF PoolInv, ThreadPoolTypeOK, WorkInOnePlace, Works, In
<1>6. ToSet(pipe') = ToSet(pipe) \cup {hand[worker]}
  BY <1>1, <1>5, ListInsertBack DEF PoolInv, ThreadPoolTypeOK
<1>7. Running' = Running
  BY <1>2, <1>3, <1>4 DEF Running
<1>8. Done' = Done
  BY <1>2, <1>3, <1>4, <1>6 DEF Done
<1> QED
  BY <1>1, <1>7, <1>8 DEF Posted

(* Steps that move no work.                                                *)
LEMMA OtherSteps_Seen ==
    ASSUME PoolInv,
           \/ \E fiber \in Fibers : ExitFiber(fiber)
           \/ Joined
           \/ \E worker \in Workers :
                 FindNothing(worker) \/ FindStopSignal(worker) \/ SpuriousWakeup(worker)
           \/ UNCHANGED vars
    PROVE  UNCHANGED <<Posted, Running, Done>>
<1>1. ASSUME NEW fiber \in Fibers, ExitFiber(fiber) PROVE UNCHANGED <<Posted, Running, Done>>
  BY <1>1 DEF ExitFiber, Posted, Running, Done, In
<1>2. CASE Joined
  BY <1>2 DEF Joined, Posted, Running, Done, In
<1>3. ASSUME NEW worker \in Workers, FindNothing(worker) \/ SpuriousWakeup(worker)
      PROVE  UNCHANGED <<Posted, Running, Done>>
  <2>1. In({"working"})' = In({"working"}) /\ In({"writing"})' = In({"writing"})
    BY <1>3 DEF FindNothing, SpuriousWakeup, In, PoolInv, ThreadPoolTypeOK
  <2> QED
    BY <1>3, <2>1 DEF FindNothing, SpuriousWakeup, Posted, Running, Done
<1>4. ASSUME NEW worker \in Workers, FindStopSignal(worker)
      PROVE  UNCHANGED <<Posted, Running, Done>>
  <2> DEFINE states == [workerState EXCEPT ![worker] = "exited"]
  <2>1. /\ workerState' \in Signalled(states) /\ workerState[worker] = "ready"
        /\ UNCHANGED <<workList, hand, pipe, mainState>>
    BY <1>4 DEF FindStopSignal
  <2>2. /\ states \in [Workers -> WorkerStates]
        /\ \A w \in Workers :
              /\ states[w] = "working" <=> workerState[w] = "working"
              /\ states[w] = "writing" <=> workerState[w] = "writing"
    BY <2>1 DEF PoolInv, ThreadPoolTypeOK, WorkerStates
  <2> HIDE DEF states
  <2>3. workerState' \in [Workers -> WorkerStates] /\ OnlyWoken(states, workerState')
    BY <2>1, <2>2, SignalledWakes
  <2>4. In({"working"})' = In({"working"}) /\ In({"writing"})' = In({"writing"})
    BY <2>2, <2>3, WokenHold DEF In
  <2> QED
    BY <2>1, <2>4 DEF Posted, Running, Done
<1>5. CASE UNCHANGED vars
  BY <1>5 DEF vars, Posted, Running, Done, In
<1> QED
  BY <1>1, <1>2, <1>3, <1>4, <1>5

(* What the fibers see of the pool is a work service: works begin in the   *)
(* order they were posted, no more of them run than there are threads, and *)
(* each result is delivered once, after its work was done.                 *)
THEOREM ThreadPool_Refines == Spec => Abstract!Spec
<1>1. Init => Abstract!Init
  <2> SUFFICES ASSUME Init PROVE Abstract!Init
    OBVIOUS
  <2>1. In({"working"}) = {} /\ In({"writing"}) = {} /\ workList = <<>> /\ pipe = <<>>
    BY DEF Init, In
  <2>2. ToSet(<<>>) = {}
    BY <2>1, ListEmpty, Init_PoolInv DEF PoolInv, ThreadPoolTypeOK
  <2> QED
    BY <2>1, <2>2 DEF Abstract!Init, Init
<1>2. ASSUME PoolInv, [Next]_vars PROVE [Abstract!Next]_Abstract!vars
  <2>1. ASSUME NEW fiber \in Fibers, PostWork(fiber) PROVE Abstract!Post(fiber)
    BY <1>2, <2>1, PostWork_Seen
    DEF Abstract!Post, Abstract!ToSet, ToSet, Posted, Running, Done
  <2>2. ASSUME WorkerCallback PROVE \E fiber \in Fibers : Abstract!Deliver(fiber)
    BY <1>2, <2>2, WorkerCallback_Seen DEF Abstract!Deliver, Posted, Running, Done
  <2>3. ASSUME NEW worker \in Workers, TakeWork(worker) PROVE Abstract!Start
    <3>1. Cardinality(Running) < Cardinality(Workers)
      BY <2>3, RoomToRun DEF TakeWork
    <3>2. Abstract!Cardinality(Running) = Cardinality(Running)
      BY DEF Abstract!Cardinality, Cardinality
    <3> QED
      BY <1>2, <2>3, <3>1, <3>2, TakeWork_Seen DEF Abstract!Start, Posted, Running, Done
  <2>4. ASSUME NEW worker \in Workers, FinishWork(worker)
        PROVE  \E fiber \in Fibers : Abstract!Finish(fiber)
    BY <1>2, <2>4, FinishWork_Seen DEF Abstract!Finish, Posted, Running, Done
  <2>5. ASSUME UNCHANGED <<Posted, Running, Done>> PROVE UNCHANGED Abstract!vars
    BY <2>5 DEF Abstract!vars, Posted, Running, Done
  <2>6. CASE Stop
    BY <1>2, <2>5, <2>6, Stop_Seen
  <2>7. ASSUME NEW worker \in Workers, WriteWork(worker) PROVE UNCHANGED Abstract!vars
    BY <1>2, <2>5, <2>7, WriteWork_Seen
  <2>8. CASE \/ \E fiber \in Fibers : ExitFiber(fiber)
             \/ Joined
             \/ \E worker \in Workers :
                   FindNothing(worker) \/ FindStopSignal(worker) \/ SpuriousWakeup(worker)
             \/ UNCHANGED vars
    BY <1>2, <2>5, <2>8, OtherSteps_Seen
  <2> QED
    BY <1>2, <2>1, <2>2, <2>3, <2>4, <2>6, <2>7, <2>8
    DEF Next, Worker, Abstract!Next
<1> QED
  BY <1>1, <1>2, Pool_Inv, PTL DEF Spec, Abstract!Spec
=============================================================================
