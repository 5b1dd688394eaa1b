--------------------------- MODULE SchedulerProofs ---------------------------
(***************************************************************************)
(* The safety of the scheduler for any set of fibers.  The four invariants *)
(* of Scheduler.tla need each other: a context stays valid only as long as *)
(* a fiber is in one place, and the counter stays right only as long as    *)
(* the dead list holds no live fiber.  Their conjunction, with the fact    *)
(* that finitely many regions are allocated, is inductive.                 *)
(***************************************************************************)
EXTENDS Scheduler, ListTheorems, FiniteSetTheorems, TLAPS

(* The inductive invariant.                                                *)
SchedulerInv ==
    /\ SchedulerTypeOK
    /\ FiberInOnePlace
    /\ ContextValid
    /\ CountMatches
    /\ IsFiniteSet(allocated)

(* The lists and the active fiber, seen as sets.                           *)
LEMMA PlacesAsSets ==
    ASSUME SchedulerInv
    PROVE  /\ ToSet(readyFiberList) \subseteq Live
           /\ Live \subseteq Fibers
           /\ IsFiniteSet(Live)
           /\ NoFiber \notin Live
           /\ activeFiber # NoFiber => activeFiber \in Live
           /\ activeFiber \notin ToSet(readyFiberList)
           /\ Live \cap ToSet(deadFiberList) = {}
<1>1. IsFiniteSet(Live)
  BY FS_Difference DEF SchedulerInv, Live
<1> QED
  BY <1>1, NoFiberAssumption
  DEF SchedulerInv, SchedulerTypeOK, FiberInOnePlace, Live

(* A new fiber's region is not a live fiber's, and becomes one.            *)
LEMMA RegionTaken ==
    ASSUME SchedulerInv, NEW fiber \in Fibers, TakeRegion(fiber)
    PROVE  /\ deadFiberList' \in Seq(Fibers)
           /\ allocated' \in SUBSET Fibers
           /\ IsFiniteSet(allocated')
           /\ IsInjective(deadFiberList')
           /\ ToSet(deadFiberList') \subseteq allocated'
           /\ fiber \notin Live
           /\ Live' = Live \cup {fiber}
           /\ Cardinality(Live') = fiberCount + 1
           /\ Live' \cap ToSet(deadFiberList') = {}
<1>1. /\ deadFiberList' \in Seq(Fibers)
      /\ allocated' \in SUBSET Fibers
      /\ IsFiniteSet(allocated')
      /\ IsInjective(deadFiberList')
      /\ ToSet(deadFiberList') \subseteq allocated'
      /\ fiber \notin Live
      /\ Live' = Live \cup {fiber}
  <2>1. CASE deadFiberList = <<>>
    <3>1. /\ deadFiberList' = <<>> /\ ToSet(<<>>) = {}
          /\ IsInjective(<<>>)
          /\ allocated' = allocated \cup {fiber}
          /\ fiber \notin allocated
          /\ deadFiberList' \in Seq(Fibers)
      BY <2>1, ListEmpty DEF TakeRegion, SchedulerInv, SchedulerTypeOK
    <3>2. IsFiniteSet(allocated')
      BY <3>1, FS_AddElement DEF SchedulerInv
    <3> QED
      BY <3>1, <3>2, <2>1 DEF Live, SchedulerInv, SchedulerTypeOK
  <2>2. CASE deadFiberList # <<>>
    <3>1. /\ deadFiberList' = Front(deadFiberList)
          /\ fiber = Last(deadFiberList)
          /\ allocated' = allocated
      BY <2>2 DEF TakeRegion
    <3>2. /\ Front(deadFiberList) \in Seq(Fibers)
          /\ ToSet(deadFiberList) = ToSet(Front(deadFiberList)) \cup {fiber}
          /\ IsInjective(Front(deadFiberList))
          /\ fiber \notin ToSet(Front(deadFiberList))
      BY <2>2, <3>1, ListTakeBack
      DEF SchedulerInv, SchedulerTypeOK, FiberInOnePlace
    <3>3. ToSet(deadFiberList) \subseteq allocated /\ allocated \subseteq Fibers
      BY DEF SchedulerInv, FiberInOnePlace, SchedulerTypeOK
    <3>4. IsFiniteSet(allocated)
      BY DEF SchedulerInv
    <3> QED
      BY <3>1, <3>2, <3>3, <3>4 DEF Live
  <2> QED
    BY <2>1, <2>2
<1>2. Cardinality(Live') = fiberCount + 1
  BY <1>1, PlacesAsSets, FS_AddElement DEF SchedulerInv, CountMatches
<1> QED
  BY <1>1, <1>2 DEF Live

(* The invariant holds when the loop starts, with the fiber of FiberMain   *)
(* ready and no other.                                                     *)
THEOREM SchedulerInit_Inv == SchedulerInit => SchedulerInv
<1> SUFFICES ASSUME SchedulerInit PROVE SchedulerInv
  OBVIOUS
<1>1. PICK fiber \in Fibers :
        /\ activeFiber = NoFiber
        /\ readyFiberList = <<fiber>>
        /\ deadFiberList = <<>>
        /\ fiberCount = 1
        /\ context = [f \in Fibers |-> IF f = fiber THEN "start" ELSE "stale"]
        /\ allocated = {fiber}
  BY DEF SchedulerInit
<1>2. /\ <<fiber>> \in Seq(Fibers) /\ <<>> \in Seq(Fibers)
      /\ ToSet(<<fiber>>) = {fiber} /\ IsInjective(<<fiber>>)
  BY DEF ToSet, IsInjective
<1>3. ToSet(<<>>) = {} /\ IsInjective(<<>>)
  BY <1>2, ListEmpty
<1>4. IsFiniteSet({fiber}) /\ Cardinality({fiber}) = 1
  BY FS_Singleton
<1>5. Live = {fiber}
  BY <1>1, <1>3 DEF Live
<1>6. SchedulerTypeOK
  BY <1>1, <1>2 DEF SchedulerTypeOK, Contexts
<1>7. FiberInOnePlace
  BY <1>1, <1>2, <1>3, NoFiberAssumption DEF FiberInOnePlace
<1>8. ContextValid
  BY <1>1, <1>2, <1>5 DEF ContextValid, Suspended
<1>9. CountMatches
  BY <1>1, <1>4, <1>5 DEF CountMatches
<1> QED
  BY <1>1, <1>4, <1>6, <1>7, <1>8, <1>9 DEF SchedulerInv

-----------------------------------------------------------------------------
(* One lemma per call.  A new fiber is made ready in a region that was not *)
(* a live fiber's.                                                         *)
LEMMA AddFiber_Inv == SchedulerInv /\ AddFiber => SchedulerInv'
<1> SUFFICES ASSUME SchedulerInv, AddFiber PROVE SchedulerInv'
  OBVIOUS
<1>1. PICK fiber \in Fibers :
        /\ TakeRegion(fiber)
        /\ context' = [context EXCEPT ![fiber] = "start"]
        /\ readyFiberList' = Append(readyFiberList, fiber)
  BY DEF AddFiber
<1>2. /\ activeFiber # NoFiber /\ activeFiber' = activeFiber
      /\ fiberCount' = fiberCount + 1
  BY DEF AddFiber
<1>3. /\ readyFiberList \in Seq(Fibers) /\ IsInjective(readyFiberList)
      /\ context \in [Fibers -> Contexts] /\ fiberCount \in Nat
  BY DEF SchedulerInv, SchedulerTypeOK, FiberInOnePlace
<1>4. /\ ToSet(readyFiberList) \subseteq Live /\ Live \subseteq Fibers
      /\ activeFiber \in Live /\ activeFiber \notin ToSet(readyFiberList)
  BY <1>2, PlacesAsSets
<1>5. /\ deadFiberList' \in Seq(Fibers)
      /\ allocated' \in SUBSET Fibers
      /\ IsFiniteSet(allocated')
      /\ IsInjective(deadFiberList')
      /\ ToSet(deadFiberList') \subseteq allocated'
      /\ fiber \notin Live
      /\ Live' = Live \cup {fiber}
      /\ Cardinality(Live') = fiberCount + 1
      /\ Live' \cap ToSet(deadFiberList') = {}
  BY <1>1, RegionTaken
<1>6. /\ readyFiberList' \in Seq(Fibers)
      /\ ToSet(readyFiberList') = ToSet(readyFiberList) \cup {fiber}
      /\ IsInjective(readyFiberList')
  BY <1>1, <1>3, <1>4, <1>5, ListInsertBack
<1>7. SchedulerTypeOK'
  BY <1>1, <1>2, <1>3, <1>5, <1>6 DEF SchedulerTypeOK, SchedulerInv, Contexts
<1>8. FiberInOnePlace'
  BY <1>2, <1>4, <1>5, <1>6 DEF FiberInOnePlace, Live
<1>9. ContextValid'
  <2>1. Suspended' = Suspended
    BY <1>2, <1>4, <1>5, <1>6 DEF Suspended
  <2>2. \A f \in ToSet(readyFiberList) : f # fiber /\ context'[f] = context[f]
    BY <1>1, <1>3, <1>4, <1>5
  <2>3. \A f \in Suspended : f # fiber /\ context'[f] = context[f]
    BY <1>1, <1>3, <1>4, <1>5 DEF Suspended
  <2>4. context'[fiber] = "start"
    BY <1>1, <1>3
  <2> QED
    BY <1>6, <2>1, <2>2, <2>3, <2>4 DEF ContextValid, SchedulerInv
<1>10. CountMatches'
  BY <1>2, <1>4, <1>5, NoFiberAssumption DEF CountMatches
<1> QED
  BY <1>5, <1>7, <1>8, <1>9, <1>10 DEF SchedulerInv

(* The new fiber runs in place of its creator, which is ready at the front.*)
LEMMA AddAndRunFiber_Inv == SchedulerInv /\ AddAndRunFiber => SchedulerInv'
<1> SUFFICES ASSUME SchedulerInv, AddAndRunFiber PROVE SchedulerInv'
  OBVIOUS
<1>1. PICK fiber \in Fibers :
        /\ TakeRegion(fiber)
        /\ activeFiber' = fiber
        /\ readyFiberList' = Cons(activeFiber, readyFiberList)
        /\ context' = [Saved EXCEPT ![fiber] = "stale"]
  BY DEF AddAndRunFiber, SwitchToFiber
<1>2. activeFiber # NoFiber /\ fiberCount' = fiberCount + 1
  BY DEF AddAndRunFiber
<1>3. /\ readyFiberList \in Seq(Fibers) /\ IsInjective(readyFiberList)
      /\ context \in [Fibers -> Contexts] /\ fiberCount \in Nat
  BY DEF SchedulerInv, SchedulerTypeOK, FiberInOnePlace
<1>4. /\ ToSet(readyFiberList) \subseteq Live /\ Live \subseteq Fibers
      /\ activeFiber \in Live /\ activeFiber \notin ToSet(readyFiberList)
  BY <1>2, PlacesAsSets
<1>5. /\ deadFiberList' \in Seq(Fibers)
      /\ allocated' \in SUBSET Fibers
      /\ IsFiniteSet(allocated')
      /\ IsInjective(deadFiberList')
      /\ ToSet(deadFiberList') \subseteq allocated'
      /\ fiber \notin Live
      /\ Live' = Live \cup {fiber}
      /\ Cardinality(Live') = fiberCount + 1
      /\ Live' \cap ToSet(deadFiberList') = {}
  BY <1>1, RegionTaken
<1>6. /\ readyFiberList' \in Seq(Fibers)
      /\ ToSet(readyFiberList') = ToSet(readyFiberList) \cup {activeFiber}
      /\ IsInjective(readyFiberList')
  <2>1. activeFiber \in Fibers /\ activeFiber \notin ToSet(readyFiberList)
    BY <1>4
  <2>2. /\ Cons(activeFiber, readyFiberList) \in Seq(Fibers)
        /\ ToSet(Cons(activeFiber, readyFiberList))
             = ToSet(readyFiberList) \cup {activeFiber}
        /\ IsInjective(Cons(activeFiber, readyFiberList))
    BY <1>3, <2>1, ListInsertFront
  <2> QED
    BY <1>1, <2>2
<1>7. SchedulerTypeOK'
  BY <1>1, <1>2, <1>3, <1>4, <1>5, <1>6
  DEF SchedulerTypeOK, SchedulerInv, Contexts, Saved
<1>8. FiberInOnePlace'
  BY <1>1, <1>4, <1>5, <1>6 DEF FiberInOnePlace, Live
<1>9. ContextValid'
  <2>1. Suspended' = Suspended
    BY <1>1, <1>4, <1>5, <1>6 DEF Suspended
  <2>2. \A f \in ToSet(readyFiberList) \cup Suspended :
           f # fiber /\ f # activeFiber /\ context'[f] = context[f]
    BY <1>1, <1>3, <1>4, <1>5 DEF Suspended, Saved
  <2>3. context'[activeFiber] = "saved"
    BY <1>1, <1>3, <1>4, <1>5 DEF Saved
  <2> QED
    BY <1>6, <2>1, <2>2, <2>3 DEF ContextValid, SchedulerInv
<1>10. CountMatches'
  BY <1>1, <1>2, <1>5, NoFiberAssumption DEF CountMatches
<1> QED
  BY <1>5, <1>7, <1>8, <1>9, <1>10 DEF SchedulerInv

(* The first ready fiber runs in place of the caller, which is ready last. *)
LEMMA YieldCurrentFiber_Inv ==
    SchedulerInv /\ YieldCurrentFiber => SchedulerInv'
<1> SUFFICES ASSUME SchedulerInv, YieldCurrentFiber PROVE SchedulerInv'
  OBVIOUS
<1> DEFINE fiber == Head(readyFiberList)
           rest == Tail(readyFiberList)
<1>1. /\ activeFiber # NoFiber /\ readyFiberList # <<>>
      /\ activeFiber' = fiber
      /\ readyFiberList' = Append(rest, activeFiber)
      /\ context' = [Saved EXCEPT ![fiber] = "stale"]
      /\ UNCHANGED <<deadFiberList, fiberCount, allocated>>
  BY DEF YieldCurrentFiber, SwitchToFiber
<1>2. /\ readyFiberList \in Seq(Fibers) /\ IsInjective(readyFiberList)
      /\ context \in [Fibers -> Contexts]
  BY DEF SchedulerInv, SchedulerTypeOK, FiberInOnePlace
<1>3. /\ ToSet(readyFiberList) \subseteq Live /\ Live \subseteq Fibers
      /\ activeFiber \in Live /\ activeFiber \notin ToSet(readyFiberList)
  BY <1>1, PlacesAsSets
<1>4. /\ fiber \in Fibers /\ rest \in Seq(Fibers)
      /\ ToSet(readyFiberList) = ToSet(rest) \cup {fiber}
      /\ IsInjective(rest) /\ fiber \notin ToSet(rest)
  BY <1>1, <1>2, ListTakeFront
<1> HIDE DEF fiber, rest
<1>5. /\ readyFiberList' \in Seq(Fibers)
      /\ ToSet(readyFiberList') = ToSet(rest) \cup {activeFiber}
      /\ IsInjective(readyFiberList')
  BY <1>1, <1>3, <1>4, ListInsertBack
<1>6. Live' = Live
  BY <1>1 DEF Live
<1>7. SchedulerTypeOK'
  BY <1>1, <1>2, <1>3, <1>4, <1>5
  DEF SchedulerTypeOK, SchedulerInv, Contexts, Saved
<1>8. FiberInOnePlace'
  BY <1>1, <1>3, <1>4, <1>5 DEF FiberInOnePlace, SchedulerInv, Live
<1>9. ContextValid'
  <2>1. Suspended' = Suspended
    BY <1>1, <1>3, <1>4, <1>5, <1>6 DEF Suspended
  <2>2. \A f \in ToSet(rest) \cup Suspended :
           f # fiber /\ f # activeFiber /\ context'[f] = context[f]
    BY <1>1, <1>2, <1>3, <1>4 DEF Suspended, Saved
  <2>3. context'[activeFiber] = "saved"
    BY <1>1, <1>2, <1>3, <1>4 DEF Saved
  <2> QED
    BY <1>4, <1>5, <2>1, <2>2, <2>3 DEF ContextValid, SchedulerInv
<1>10. CountMatches'
  BY <1>1, <1>4, <1>6, NoFiberAssumption DEF CountMatches, SchedulerInv
<1> QED
  BY <1>1, <1>7, <1>8, <1>9, <1>10 DEF SchedulerInv

(* The end of a call that gives the processor away.  The calling fiber     *)
(* has left the live fibers or saved its context.                          *)
LEMMA SwitchAway_Inv ==
    ASSUME SchedulerInv, activeFiber # NoFiber,
           NEW dead \in Seq(Fibers), NEW ctx \in [Fibers -> Contexts],
           SwitchAway(dead, ctx),
           IsInjective(dead),
           ToSet(dead) \subseteq allocated,
           ToSet(dead) \cap ToSet(readyFiberList) = {},
           fiberCount' = Cardinality(allocated \ ToSet(dead)),
           \A f \in ToSet(readyFiberList) : ctx[f] # "stale",
           \A f \in (allocated \ ToSet(dead)) \ ToSet(readyFiberList) : ctx[f] = "saved"
    PROVE  SchedulerInv'
<1>1. /\ readyFiberList \in Seq(Fibers) /\ IsInjective(readyFiberList)
      /\ allocated \in SUBSET Fibers /\ IsFiniteSet(allocated)
      /\ ToSet(readyFiberList) \subseteq allocated
  BY DEF SchedulerInv, SchedulerTypeOK, FiberInOnePlace
<1>2. fiberCount' \in Nat
  <2>1. IsFiniteSet(allocated \ ToSet(dead))
    BY <1>1, FS_Difference
  <2> QED
    BY <2>1, FS_CardinalityType
<1>3. CASE readyFiberList # <<>>
  <2> DEFINE fiber == Head(readyFiberList)
             rest == Tail(readyFiberList)
  <2>1. /\ activeFiber' = fiber /\ readyFiberList' = rest
        /\ context' = [ctx EXCEPT ![fiber] = "stale"]
        /\ deadFiberList' = dead /\ allocated' = allocated
    BY <1>3 DEF SwitchAway, SwitchToFiber
  <2>2. /\ fiber \in Fibers /\ rest \in Seq(Fibers)
        /\ ToSet(readyFiberList) = ToSet(rest) \cup {fiber}
        /\ IsInjective(rest) /\ fiber \notin ToSet(rest)
    BY <1>1, <1>3, ListTakeFront
  <2> HIDE DEF fiber, rest
  <2>3. Live' = allocated \ ToSet(dead)
    BY <2>1 DEF Live
  <2>4. SchedulerTypeOK'
    BY <1>1, <1>2, <2>1, <2>2 DEF SchedulerTypeOK, Contexts
  <2>5. FiberInOnePlace'
    BY <1>1, <2>1, <2>2 DEF FiberInOnePlace
  <2>6. ContextValid'
    <3>1. Suspended' = (allocated \ ToSet(dead)) \ ToSet(readyFiberList)
      BY <2>1, <2>2, <2>3 DEF Suspended
    <3>2. \A f \in Fibers : f # fiber => context'[f] = ctx[f]
      BY <2>1
    <3> QED
      BY <1>1, <2>1, <2>2, <3>1, <3>2 DEF ContextValid
  <2>7. CountMatches'
    BY <2>1, <2>2, <2>3, NoFiberAssumption DEF CountMatches
  <2> QED
    BY <1>1, <2>1, <2>4, <2>5, <2>6, <2>7 DEF SchedulerInv
<1>4. CASE readyFiberList = <<>>
  <2>1. /\ activeFiber' = NoFiber /\ readyFiberList' = <<>>
        /\ deadFiberList' = <<>> /\ context' = ctx
        /\ allocated' = allocated \ ToSet(dead)
    BY <1>4 DEF SwitchAway, SwitchTo
  <2>2. /\ ToSet(<<>>) = {} /\ IsInjective(<<>>) /\ <<>> \in Seq(Fibers)
    BY <1>1, <1>4, ListEmpty
  <2>3. Live' = allocated \ ToSet(dead)
    BY <2>1, <2>2 DEF Live
  <2>4. SchedulerTypeOK'
    BY <1>1, <1>2, <2>1, <2>2 DEF SchedulerTypeOK
  <2>5. FiberInOnePlace'
    BY <1>1, <2>1, <2>2 DEF FiberInOnePlace
  <2>6. ContextValid'
    BY <1>4, <2>1, <2>2, <2>3 DEF ContextValid, Suspended
  <2>7. CountMatches'
    BY <2>1, <2>3 DEF CountMatches
  <2>8. IsFiniteSet(allocated')
    BY <1>1, <2>1, FS_Difference
  <2> QED
    BY <2>4, <2>5, <2>6, <2>7, <2>8 DEF SchedulerInv
<1> QED
  BY <1>3, <1>4

(* The caller has saved its context before it joins the suspended fibers.  *)
LEMMA SuspendCurrentFiber_Inv ==
    SchedulerInv /\ SuspendCurrentFiber => SchedulerInv'
<1> SUFFICES ASSUME SchedulerInv, SuspendCurrentFiber PROVE SchedulerInv'
  OBVIOUS
<1>1. /\ activeFiber # NoFiber /\ SwitchAway(deadFiberList, Saved)
      /\ fiberCount' = fiberCount
  BY DEF SuspendCurrentFiber
<1>2. /\ deadFiberList \in Seq(Fibers) /\ IsInjective(deadFiberList)
      /\ ToSet(deadFiberList) \subseteq allocated
      /\ ToSet(deadFiberList) \cap ToSet(readyFiberList) = {}
      /\ fiberCount = Cardinality(allocated \ ToSet(deadFiberList))
      /\ context \in [Fibers -> Contexts]
      /\ allocated \in SUBSET Fibers
  BY DEF SchedulerInv, SchedulerTypeOK, FiberInOnePlace, CountMatches, Live
<1>3. activeFiber \in Fibers
  BY <1>1, PlacesAsSets
<1>4. /\ Saved \in [Fibers -> Contexts]
      /\ Saved[activeFiber] = "saved"
      /\ \A f \in Fibers : f # activeFiber => Saved[f] = context[f]
  BY <1>2, <1>3 DEF Saved, Contexts
<1>5. ToSet(readyFiberList) \subseteq Fibers /\ activeFiber \notin ToSet(readyFiberList)
  BY PlacesAsSets
<1>6. \A f \in ToSet(readyFiberList) : Saved[f] # "stale"
  BY <1>4, <1>5 DEF ContextValid, SchedulerInv
<1>7. \A f \in (allocated \ ToSet(deadFiberList)) \ ToSet(readyFiberList) :
          Saved[f] = "saved"
  BY <1>2, <1>4 DEF ContextValid, SchedulerInv, Suspended, Live
<1> QED
  BY <1>1, <1>2, <1>4, <1>6, <1>7, SwitchAway_Inv

(* The caller moves from the live fibers to the dead list, or is freed with*)
(* the list when the processor goes back to the loop.                      *)
LEMMA ExitCurrentFiber_Inv ==
    SchedulerInv /\ ExitCurrentFiber => SchedulerInv'
<1> SUFFICES ASSUME SchedulerInv, ExitCurrentFiber PROVE SchedulerInv'
  OBVIOUS
<1> DEFINE dead == Append(deadFiberList, activeFiber)
<1>1. /\ activeFiber # NoFiber /\ SwitchAway(dead, context)
      /\ fiberCount' = fiberCount - 1
  BY DEF ExitCurrentFiber
<1>2. /\ deadFiberList \in Seq(Fibers) /\ IsInjective(deadFiberList)
      /\ ToSet(deadFiberList) \subseteq allocated
      /\ ToSet(deadFiberList) \cap ToSet(readyFiberList) = {}
      /\ fiberCount = Cardinality(Live)
      /\ context \in [Fibers -> Contexts]
      /\ activeFiber \notin ToSet(readyFiberList) \cup ToSet(deadFiberList)
  BY DEF SchedulerInv, SchedulerTypeOK, FiberInOnePlace, CountMatches
<1>3. activeFiber \in Live /\ activeFiber \in Fibers /\ IsFiniteSet(Live)
  BY <1>1, PlacesAsSets
<1>4. /\ dead \in Seq(Fibers) /\ IsInjective(dead)
      /\ ToSet(dead) = ToSet(deadFiberList) \cup {activeFiber}
  BY <1>2, <1>3, ListInsertBack
<1> HIDE DEF dead
<1>5. allocated \ ToSet(dead) = Live \ {activeFiber}
  BY <1>4 DEF Live
<1>6. fiberCount' = Cardinality(allocated \ ToSet(dead))
  BY <1>1, <1>2, <1>3, <1>5, FS_RemoveElement
<1>7. ToSet(dead) \subseteq allocated /\ ToSet(dead) \cap ToSet(readyFiberList) = {}
  BY <1>2, <1>3, <1>4 DEF Live
<1>8. \A f \in ToSet(readyFiberList) : context[f] # "stale"
  BY DEF ContextValid, SchedulerInv
<1>9. \A f \in (allocated \ ToSet(dead)) \ ToSet(readyFiberList) :
          context[f] = "saved"
  BY <1>5 DEF ContextValid, SchedulerInv, Suspended
<1> QED
  BY <1>1, <1>2, <1>4, <1>6, <1>7, <1>8, <1>9, SwitchAway_Inv

(* The precondition on the caller: the fiber is suspended.                 *)
LEMMA ResumeFiber_Inv ==
    ASSUME SchedulerInv, NEW fiber \in Suspended, ResumeFiber(fiber)
    PROVE  SchedulerInv'
<1>1. /\ activeFiber # fiber /\ activeFiber' = activeFiber
      /\ readyFiberList' = Append(readyFiberList, fiber)
      /\ UNCHANGED <<deadFiberList, fiberCount, context, allocated>>
  BY DEF ResumeFiber
<1>2. /\ readyFiberList \in Seq(Fibers) /\ IsInjective(readyFiberList)
      /\ fiber \in Live /\ fiber \in Fibers /\ fiber \notin ToSet(readyFiberList)
  BY PlacesAsSets
  DEF SchedulerInv, SchedulerTypeOK, FiberInOnePlace, Suspended
<1>3. /\ readyFiberList' \in Seq(Fibers)
      /\ ToSet(readyFiberList') = ToSet(readyFiberList) \cup {fiber}
      /\ IsInjective(readyFiberList')
  BY <1>1, <1>2, ListInsertBack
<1>4. Live' = Live
  BY <1>1 DEF Live
<1>5. SchedulerTypeOK'
  BY <1>1, <1>3 DEF SchedulerTypeOK, SchedulerInv
<1>6. FiberInOnePlace'
  BY <1>1, <1>2, <1>3 DEF FiberInOnePlace, SchedulerInv, Live
<1>7. ContextValid'
  <2>1. Suspended' = Suspended \ {fiber}
    BY <1>1, <1>3, <1>4 DEF Suspended
  <2> QED
    BY <1>1, <1>3, <2>1 DEF ContextValid, SchedulerInv
<1>8. CountMatches'
  BY <1>1, <1>4 DEF CountMatches, SchedulerInv
<1> QED
  BY <1>1, <1>5, <1>6, <1>7, <1>8 DEF SchedulerInv

(* The precondition on the caller: the fiber has been resumed and has not  *)
(* run since.                                                              *)
LEMMA UnresumeFiber_Inv ==
    ASSUME SchedulerInv, NEW fiber \in Resumed, UnresumeFiber(fiber)
    PROVE  SchedulerInv'
<1>1. /\ activeFiber # fiber /\ activeFiber' = activeFiber
      /\ readyFiberList' = RemoveFirst(readyFiberList, fiber)
      /\ UNCHANGED <<deadFiberList, fiberCount, context, allocated>>
  BY DEF UnresumeFiber
<1>2. /\ readyFiberList \in Seq(Fibers) /\ IsInjective(readyFiberList)
      /\ fiber \in ToSet(readyFiberList) /\ context[fiber] = "saved"
  BY DEF SchedulerInv, SchedulerTypeOK, FiberInOnePlace, Resumed
<1>3. /\ readyFiberList' \in Seq(Fibers)
      /\ ToSet(readyFiberList') = ToSet(readyFiberList) \ {fiber}
      /\ IsInjective(readyFiberList')
  BY <1>1, <1>2, ListRemove
<1>4. Live' = Live
  BY <1>1 DEF Live
<1>5. SchedulerTypeOK'
  BY <1>1, <1>3 DEF SchedulerTypeOK, SchedulerInv
<1>6. FiberInOnePlace'
  BY <1>1, <1>3 DEF FiberInOnePlace, SchedulerInv
<1>7. ContextValid'
  <2>1. Suspended' \subseteq Suspended \cup {fiber}
    BY <1>1, <1>3, <1>4 DEF Suspended
  <2> QED
    BY <1>1, <1>2, <1>3, <2>1 DEF ContextValid, SchedulerInv
<1>8. CountMatches'
  BY <1>1, <1>4 DEF CountMatches, SchedulerInv
<1> QED
  BY <1>1, <1>5, <1>6, <1>7, <1>8 DEF SchedulerInv

(* The loop finds no dead fiber, and runs the first ready one.             *)
LEMMA Tick_Inv == SchedulerInv /\ Tick => SchedulerInv'
<1> SUFFICES ASSUME SchedulerInv, Tick PROVE SchedulerInv'
  OBVIOUS
<1> DEFINE fiber == Head(readyFiberList)
           rest == Tail(readyFiberList)
<1>1. /\ activeFiber = NoFiber /\ readyFiberList # <<>>
      /\ activeFiber' = fiber /\ readyFiberList' = rest
      /\ context' = [context EXCEPT ![fiber] = "stale"]
      /\ UNCHANGED <<deadFiberList, fiberCount, allocated>>
  BY DEF Tick, SwitchToFiber
<1>2. /\ readyFiberList \in Seq(Fibers) /\ IsInjective(readyFiberList)
      /\ context \in [Fibers -> Contexts]
  BY DEF SchedulerInv, SchedulerTypeOK, FiberInOnePlace
<1>3. /\ fiber \in Fibers /\ rest \in Seq(Fibers)
      /\ ToSet(readyFiberList) = ToSet(rest) \cup {fiber}
      /\ IsInjective(rest) /\ fiber \notin ToSet(rest)
  BY <1>1, <1>2, ListTakeFront
<1> HIDE DEF fiber, rest
<1>4. ToSet(readyFiberList) \subseteq Live /\ Live \subseteq Fibers /\ NoFiber \notin Live
  BY PlacesAsSets
<1>5. Live' = Live
  BY <1>1 DEF Live
<1>6. SchedulerTypeOK'
  BY <1>1, <1>2, <1>3 DEF SchedulerTypeOK, SchedulerInv, Contexts
<1>7. FiberInOnePlace'
  BY <1>1, <1>3, <1>4 DEF FiberInOnePlace, SchedulerInv, Live
<1>8. ContextValid'
  <2>1. Suspended' = Suspended
    BY <1>1, <1>3, <1>4, <1>5 DEF Suspended
  <2>2. \A f \in ToSet(rest) \cup Suspended : f # fiber /\ context'[f] = context[f]
    BY <1>1, <1>2, <1>3, <1>4 DEF Suspended
  <2> QED
    BY <1>1, <1>3, <2>1, <2>2 DEF ContextValid, SchedulerInv
<1>9. CountMatches'
  BY <1>1, <1>3, <1>5, NoFiberAssumption DEF CountMatches, SchedulerInv
<1> QED
  BY <1>1, <1>6, <1>7, <1>8, <1>9 DEF SchedulerInv

-----------------------------------------------------------------------------
(* The invariant is inductive for every call of the scheduler made within  *)
(* its preconditions.                                                      *)
THEOREM SchedulerNext_Inv ==
    SchedulerInv /\ [SchedulerNext]_schedulerVars => SchedulerInv'
<1> SUFFICES ASSUME SchedulerInv, [SchedulerNext]_schedulerVars
             PROVE  SchedulerInv'
  OBVIOUS
<1>1. CASE AddFiber
  BY <1>1, AddFiber_Inv
<1>2. CASE AddAndRunFiber
  BY <1>2, AddAndRunFiber_Inv
<1>3. CASE YieldCurrentFiber
  BY <1>3, YieldCurrentFiber_Inv
<1>4. CASE SuspendCurrentFiber
  BY <1>4, SuspendCurrentFiber_Inv
<1>5. CASE ExitCurrentFiber
  BY <1>5, ExitCurrentFiber_Inv
<1>6. CASE \E fiber \in Suspended : ResumeFiber(fiber)
  BY <1>6, ResumeFiber_Inv
<1>7. CASE \E fiber \in Resumed : activeFiber # NoFiber /\ UnresumeFiber(fiber)
  BY <1>7, UnresumeFiber_Inv
<1>8. CASE Tick
  BY <1>8, Tick_Inv
<1>9. CASE UNCHANGED schedulerVars
  BY <1>9
  DEF schedulerVars, SchedulerInv, SchedulerTypeOK, FiberInOnePlace,
      ContextValid, CountMatches, Live, Suspended
<1> QED
  BY <1>1, <1>2, <1>3, <1>4, <1>5, <1>6, <1>7, <1>8, <1>9 DEF SchedulerNext

(* The inductive invariant holds in every behaviour of the scheduler, for  *)
(* any set of regions.                                                     *)
THEOREM Scheduler_Inv == SchedulerSpec => []SchedulerInv
<1>1. SchedulerInit => SchedulerInv
  BY SchedulerInit_Inv
<1>2. SchedulerInv /\ [SchedulerNext]_schedulerVars => SchedulerInv'
  BY SchedulerNext_Inv
<1> QED
  BY <1>1, <1>2, PTL DEF SchedulerSpec

(* Type correctness: the counter of fibers never runs below zero, and      *)
(* nothing but a fiber's region is ever linked or run.                     *)
THEOREM Scheduler_TypeOK == SchedulerSpec => []SchedulerTypeOK
<1>1. SchedulerInv => SchedulerTypeOK
  BY DEF SchedulerInv
<1> QED
  BY <1>1, Scheduler_Inv, PTL

(* A fiber is in at most one list, once, and not while it runs, and no     *)
(* freed region is linked or runs.                                         *)
THEOREM Scheduler_FiberInOnePlace == SchedulerSpec => []FiberInOnePlace
<1>1. SchedulerInv => FiberInOnePlace
  BY DEF SchedulerInv
<1> QED
  BY <1>1, Scheduler_Inv, PTL

(* No switch lands in a stack frame that is gone, although regions are     *)
(* reused with the contexts that were left in them.                        *)
THEOREM Scheduler_ContextValid == SchedulerSpec => []ContextValid
<1>1. SchedulerInv => ContextValid
  BY DEF SchedulerInv
<1> QED
  BY <1>1, Scheduler_Inv, PTL

(* The counter that ends the event loop is the number of live fibers, and  *)
(* the loop never runs with dead fibers left allocated.                    *)
THEOREM Scheduler_CountMatches == SchedulerSpec => []CountMatches
<1>1. SchedulerInv => CountMatches
  BY DEF SchedulerInv
<1> QED
  BY <1>1, Scheduler_Inv, PTL

-----------------------------------------------------------------------------
(* What the calls of others do to a fiber that is blocked in a call, for   *)
(* the proofs about the modules whose calls block.                         *)

(* Who is awake when "ready" is the ready list.                            *)
Awake(ready) == ToSet(ready) \cup {activeFiber}

(* A fiber that is in a call and does not run.                             *)
Blocked(fiber) ==
    fiber \in Live /\ fiber # activeFiber /\ context[fiber] = "saved"

(* The fiber is as awake as it was, and its context still good.            *)
Kept(fiber) ==
    /\ fiber \in Live'
    /\ fiber # activeFiber' => context'[fiber] = "saved"
    /\ fiber \in Awake(readyFiberList)' <=> fiber \in Awake(readyFiberList)

(* Adding a fiber.                                                         *)
LEMMA AddFiber_Keeps ==
    ASSUME SchedulerInv, AddFiber, NEW f, Blocked(f)
    PROVE  Kept(f)
<1>1. PICK fiber \in Fibers :
        /\ TakeRegion(fiber)
        /\ context' = [context EXCEPT ![fiber] = "start"]
        /\ readyFiberList' = Append(readyFiberList, fiber)
  BY DEF AddFiber
<1>2. activeFiber' = activeFiber /\ f \in Live /\ f # activeFiber
  BY DEF AddFiber, Blocked
<1>3. f # fiber /\ f \in Live' /\ f \in Fibers
  BY <1>1, <1>2, RegionTaken, PlacesAsSets
<1>4. ToSet(readyFiberList') = ToSet(readyFiberList) \cup {fiber}
  BY <1>1, ListInsertBack DEF SchedulerInv, SchedulerTypeOK
<1>5. context'[f] = "saved"
  BY <1>1, <1>3 DEF SchedulerInv, SchedulerTypeOK, Blocked
<1> QED
  BY <1>2, <1>3, <1>4, <1>5 DEF Kept, Awake

(* Adding a fiber and running it.                                          *)
LEMMA AddAndRunFiber_Keeps ==
    ASSUME SchedulerInv, AddAndRunFiber, NEW f, Blocked(f)
    PROVE  Kept(f)
<1>1. PICK fiber \in Fibers :
        /\ TakeRegion(fiber)
        /\ activeFiber' = fiber
        /\ readyFiberList' = Cons(activeFiber, readyFiberList)
        /\ context' = [Saved EXCEPT ![fiber] = "stale"]
  BY DEF AddAndRunFiber, SwitchToFiber
<1>2. /\ activeFiber \in Fibers /\ f \in Live /\ f # activeFiber
      /\ readyFiberList \in Seq(Fibers)
  BY DEF AddAndRunFiber, Blocked, SchedulerInv, SchedulerTypeOK
<1>3. f # fiber /\ f \in Live' /\ f \in Fibers
  BY <1>1, <1>2, RegionTaken, PlacesAsSets
<1>4. ToSet(readyFiberList') = ToSet(readyFiberList) \cup {activeFiber}
  BY <1>1, <1>2, ListInsertFront
<1>5. context'[f] = "saved"
  BY <1>1, <1>2, <1>3 DEF SchedulerInv, SchedulerTypeOK, Blocked, Saved
<1> QED
  BY <1>1, <1>2, <1>3, <1>4, <1>5 DEF Kept, Awake

(* Yielding.                                                               *)
LEMMA YieldCurrentFiber_Keeps ==
    ASSUME SchedulerInv, YieldCurrentFiber, NEW f, Blocked(f)
    PROVE  Kept(f)
<1> DEFINE front == Head(readyFiberList)
           rest == Tail(readyFiberList)
<1>1. /\ readyFiberList # <<>> /\ activeFiber' = front
      /\ readyFiberList' = Append(rest, activeFiber)
      /\ context' = [Saved EXCEPT ![front] = "stale"]
      /\ UNCHANGED <<deadFiberList, allocated>>
  BY DEF YieldCurrentFiber, SwitchToFiber
<1>2. activeFiber \in Fibers /\ f \in Live /\ f # activeFiber /\ f \in Fibers
  BY PlacesAsSets DEF YieldCurrentFiber, Blocked, SchedulerInv, SchedulerTypeOK
<1>3. /\ rest \in Seq(Fibers) /\ front \in Fibers
      /\ ToSet(readyFiberList) = ToSet(rest) \cup {front}
  BY <1>1, ListTakeFront DEF SchedulerInv, SchedulerTypeOK
<1> HIDE DEF front, rest
<1>4. ToSet(readyFiberList') = ToSet(rest) \cup {activeFiber}
  BY <1>1, <1>2, <1>3, ListInsertBack
<1>5. f # activeFiber' => context'[f] = "saved"
  BY <1>1, <1>2 DEF SchedulerInv, SchedulerTypeOK, Blocked, Saved
<1>6. f \in Live'
  BY <1>1, <1>2 DEF Live
<1> QED
  BY <1>1, <1>2, <1>3, <1>4, <1>5, <1>6 DEF Kept, Awake

(* Leaving the processor for the front of the ready list or for the loop:  *)
(* of the fibers that stay, those are awake that were ready.               *)
LEMMA SwitchAway_Keeps ==
    ASSUME SchedulerInv,
           NEW dead \in Seq(Fibers), NEW ctx \in [Fibers -> Contexts],
           SwitchAway(dead, ctx),
           NEW f \in allocated \ ToSet(dead), ctx[f] = "saved"
    PROVE  /\ f \in Live'
           /\ f # activeFiber' => context'[f] = "saved"
           /\ f \in Awake(readyFiberList)' <=> f \in ToSet(readyFiberList)
<1>1. readyFiberList \in Seq(Fibers) /\ f \in Fibers /\ f # NoFiber
  BY NoFiberAssumption DEF SchedulerInv, SchedulerTypeOK
<1>2. CASE readyFiberList # <<>>
  <2> DEFINE front == Head(readyFiberList)
             rest == Tail(readyFiberList)
  <2>1. /\ activeFiber' = front /\ readyFiberList' = rest
        /\ context' = [ctx EXCEPT ![front] = "stale"]
        /\ deadFiberList' = dead /\ UNCHANGED allocated
    BY <1>2 DEF SwitchAway, SwitchToFiber
  <2>2. ToSet(readyFiberList) = ToSet(rest) \cup {front}
    BY <1>1, <1>2, ListTakeFront
  <2> HIDE DEF front, rest
  <2> QED
    BY <1>1, <2>1, <2>2 DEF Live, Awake
<1>3. CASE readyFiberList = <<>>
  <2>1. /\ activeFiber' = NoFiber /\ readyFiberList' = <<>>
        /\ deadFiberList' = <<>> /\ allocated' = allocated \ ToSet(dead)
        /\ context' = ctx
    BY <1>3 DEF SwitchAway, SwitchTo
  <2>2. ToSet(<<>>) = {}
    BY <1>1, ListEmpty
  <2> QED
    BY <1>1, <1>3, <2>1, <2>2 DEF Live, Awake
<1> QED
  BY <1>2, <1>3

(* Suspending, for the others and for the caller itself.                   *)
LEMMA SuspendCurrentFiber_Keeps ==
    ASSUME SchedulerInv, SuspendCurrentFiber
    PROVE  /\ \A f : Blocked(f) => Kept(f)
           /\ activeFiber \in Live'
           /\ activeFiber \notin Awake(readyFiberList)'
           /\ context'[activeFiber] = "saved"
<1>1. /\ activeFiber # NoFiber /\ SwitchAway(deadFiberList, Saved)
      /\ activeFiber \in Fibers /\ activeFiber \in Live
      /\ activeFiber \notin ToSet(readyFiberList)
      /\ deadFiberList \in Seq(Fibers) /\ context \in [Fibers -> Contexts]
  BY PlacesAsSets DEF SuspendCurrentFiber, SchedulerInv, SchedulerTypeOK
<1>2. Saved \in [Fibers -> Contexts] /\ Saved[activeFiber] = "saved"
  BY <1>1 DEF Saved, Contexts
<1>3. ASSUME NEW f, Blocked(f) PROVE Kept(f)
  <2>1. f \in Fibers /\ f \in Live /\ f # activeFiber /\ context[f] = "saved"
    BY <1>3, PlacesAsSets DEF Blocked
  <2>2. f \in allocated \ ToSet(deadFiberList) /\ Saved[f] = "saved"
    BY <1>1, <2>1 DEF Live, Saved
  <2>3. /\ f \in Live'
        /\ f # activeFiber' => context'[f] = "saved"
        /\ f \in Awake(readyFiberList)' <=> f \in ToSet(readyFiberList)
    BY <1>1, <1>2, <2>2, SwitchAway_Keeps
  <2> QED
    BY <2>1, <2>3 DEF Kept, Awake
<1>4. activeFiber \in allocated \ ToSet(deadFiberList)
  BY <1>1 DEF Live
<1>5. /\ activeFiber \in Live'
      /\ activeFiber # activeFiber' => context'[activeFiber] = "saved"
      /\ activeFiber \in Awake(readyFiberList)' <=> activeFiber \in ToSet(readyFiberList)
  BY <1>1, <1>2, <1>4, SwitchAway_Keeps
<1>6. activeFiber # activeFiber'
  BY <1>1, <1>5 DEF Awake
<1> QED
  BY <1>1, <1>3, <1>5, <1>6

(* Exiting.                                                                *)
LEMMA ExitCurrentFiber_Keeps ==
    ASSUME SchedulerInv, ExitCurrentFiber, NEW f, Blocked(f)
    PROVE  Kept(f)
<1> DEFINE dead == Append(deadFiberList, activeFiber)
<1>1. /\ SwitchAway(dead, context) /\ activeFiber \in Fibers
      /\ deadFiberList \in Seq(Fibers) /\ context \in [Fibers -> Contexts]
  BY DEF ExitCurrentFiber, SchedulerInv, SchedulerTypeOK
<1>2. f \in Live /\ f # activeFiber /\ context[f] = "saved"
  BY DEF Blocked
<1>3. /\ dead \in Seq(Fibers)
      /\ ToSet(dead) = ToSet(deadFiberList) \cup {activeFiber}
  BY <1>1, ListInsertBack
<1> HIDE DEF dead
<1>4. f \in allocated \ ToSet(dead)
  BY <1>2, <1>3 DEF Live
<1>5. /\ f \in Live'
      /\ f # activeFiber' => context'[f] = "saved"
      /\ f \in Awake(readyFiberList)' <=> f \in ToSet(readyFiberList)
  BY <1>1, <1>2, <1>3, <1>4, SwitchAway_Keeps
<1> QED
  BY <1>2, <1>5 DEF Kept, Awake

(* A tick of the loop.                                                     *)
LEMMA Tick_Keeps ==
    ASSUME SchedulerInv, Tick, NEW f, Blocked(f)
    PROVE  Kept(f)
<1> DEFINE front == Head(readyFiberList)
           rest == Tail(readyFiberList)
<1>1. /\ readyFiberList # <<>> /\ activeFiber' = front
      /\ readyFiberList' = rest
      /\ context' = [context EXCEPT ![front] = "stale"]
      /\ UNCHANGED <<deadFiberList, allocated>>
  BY DEF Tick, SwitchToFiber
<1>2. f \in Live /\ f # activeFiber /\ f \in Fibers /\ context[f] = "saved"
  BY PlacesAsSets DEF Blocked
<1>3. ToSet(readyFiberList) = ToSet(rest) \cup {front}
  BY <1>1, ListTakeFront DEF SchedulerInv, SchedulerTypeOK
<1> HIDE DEF front, rest
<1>4. f # activeFiber' => context'[f] = "saved"
  BY <1>1, <1>2 DEF SchedulerInv, SchedulerTypeOK
<1>5. f \in Live'
  BY <1>1, <1>2 DEF Live
<1> QED
  BY <1>1, <1>2, <1>3, <1>4, <1>5 DEF Kept, Awake

(* Resuming another fiber.                                                 *)
LEMMA ResumeFiber_Keeps ==
    ASSUME SchedulerInv, NEW fiber \in Suspended, ResumeFiber(fiber),
           NEW f, Blocked(f), f # fiber
    PROVE  Kept(f)
<1>1. /\ readyFiberList' = Append(readyFiberList, fiber)
      /\ UNCHANGED <<activeFiber, deadFiberList, context, allocated>>
  BY DEF ResumeFiber
<1>2. fiber \in Fibers
  BY PlacesAsSets DEF Suspended
<1>3. ToSet(readyFiberList') = ToSet(readyFiberList) \cup {fiber}
  BY <1>1, <1>2, ListInsertBack DEF SchedulerInv, SchedulerTypeOK
<1>4. f \in Live'
  BY <1>1 DEF Blocked, Live
<1> QED
  BY <1>1, <1>3, <1>4 DEF Kept, Awake, Blocked
=============================================================================
