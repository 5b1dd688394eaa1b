---------------------------- MODULE IOPollerProofs ----------------------------
(***************************************************************************)
(* The safety of the I/O poller for any number of descriptors and watches, *)
(* and that what it does is what a watch service may do; of the memory     *)
(* pool its events come from, for any number of chunks and of slots in a   *)
(* chunk; and of the lists both are made of, for any number of heads and   *)
(* items: the pointers make rings, and each function, List_Sort included,  *)
(* does to the sequence of items what its name says.                       *)
(***************************************************************************)
EXTENDS IOPoller, MemoryPool, List, ListTheorems

(* An event links exactly the watches set for its descriptor, each once,   *)
(* and ought to be told to epoll for what there is a watch for.            *)
WatchesLinked ==
    \A fd \in FDs, condition \in Conditions :
        /\ IsInjective(watchList[fd][condition])
        /\ ToSet(watchList[fd][condition]) =
              {watch \in Watches : target[watch] = <<fd, condition>>}
        /\ condition \in pendingFlags[fd] <=> watchList[fd][condition] # <<>>

(* A descriptor somebody watches is open and has an event.                 *)
WatchedExists ==
    \A watch \in Watches :
        target[watch] # NotSet => target[watch][1] \in open \cap eventVector

(* What epoll_wait relies on: the dirty events have been looked at.        *)
ToldBeforeWait == phase = "epoll" => dirtyEventList = <<>>

(* The watch of a queued callback is still set, and its callback is queued *)
(* once.                                                                   *)
QueuedStillSet ==
    /\ calls # <<>> => phase = "calls"
    /\ IsInjective(calls)
    /\ \A watch \in ToSet(calls) : target[watch] # NotSet

(* The part of the inductive invariant that is about watches, events and   *)
(* epoll, and the whole of it.                                             *)
EventTypeOK ==
    /\ target \in [Watches -> (FDs \X Conditions) \cup {NotSet}]
    /\ eventVector \subseteq FDs /\ open \subseteq FDs
    /\ flags \in [FDs -> SUBSET Conditions]
    /\ pendingFlags \in [FDs -> SUBSET Conditions]
    /\ interest \in [FDs -> SUBSET Conditions]
    /\ ready \in [FDs -> SUBSET Conditions]
    /\ watchList \in [FDs -> [Conditions -> Seq(Watches)]]
    /\ dirtyEventList \in Seq(FDs)

EventInv ==
    /\ EventTypeOK
    /\ EpollAgrees
    /\ DirtyWhenChanged
    /\ WatchesLinked
    /\ WatchedExists

PollerInv ==
    /\ EventInv
    /\ phase \in {"fibers", "epoll", "calls"}
    /\ calls \in Seq(Watches)
    /\ ToldBeforeWait
    /\ QueuedStillSet

-----------------------------------------------------------------------------
LEMMA InvTypeOK == PollerInv => IOPollerTypeOK
BY DEF PollerInv, EventInv, EventTypeOK, IOPollerTypeOK

(* A target is a descriptor and a condition, or none.                      *)
LEMMA TargetSet ==
    \A fd \in FDs, condition \in Conditions :
        /\ <<fd, condition>> # NotSet
        /\ <<fd, condition>>[1] = fd /\ <<fd, condition>>[2] = condition
BY IOPollerAssumption

(* An event without watches ought to be told nothing.                      *)
LEMMA NoWatchNoFlags ==
    ASSUME EventInv, NEW fd \in FDs, \A watch \in Watches :
               target[watch] # NotSet => target[watch][1] # fd
    PROVE  pendingFlags[fd] = {} /\ watchList[fd] = Unwatched
<1>1. ASSUME NEW condition \in Conditions PROVE watchList[fd][condition] = <<>>
  <2>1. ToSet(watchList[fd][condition]) = {}
    <3>1. \A watch \in Watches : target[watch] # <<fd, condition>>
      BY TargetSet
    <3> QED
      BY <3>1 DEF EventInv, WatchesLinked
  <2>2. watchList[fd][condition] \in Seq(Watches)
    BY DEF EventInv, EventTypeOK
  <2> QED
    BY <2>1, <2>2, ListEmpty
<1>2. pendingFlags[fd] = {}
  BY <1>1 DEF EventInv, EventTypeOK, WatchesLinked
<1>3. watchList[fd] = Unwatched
  BY <1>1 DEF EventInv, EventTypeOK, Unwatched
<1> QED
  BY <1>2, <1>3

LEMMA NoEventNoFlags ==
    ASSUME EventInv, NEW fd \in FDs, fd \notin eventVector
    PROVE  /\ pendingFlags[fd] = {} /\ watchList[fd] = Unwatched
           /\ \A watch \in Watches : target[watch] # NotSet => target[watch][1] # fd
<1>1. \A watch \in Watches : target[watch] # NotSet => target[watch][1] # fd
  BY DEF EventInv, WatchedExists
<1> QED
  BY <1>1, NoWatchNoFlags

(* The dirty list after an event has been marked.                          *)
LEMMA DirtyMarked ==
    ASSUME EventInv, NEW fd \in FDs, MarkDirty(fd)
    PROVE  /\ dirtyEventList' \in Seq(FDs) /\ IsInjective(dirtyEventList')
           /\ ToSet(dirtyEventList') = ToSet(dirtyEventList) \cup {fd}
<1>1. dirtyEventList \in Seq(FDs) /\ IsInjective(dirtyEventList)
  BY DEF EventInv, EventTypeOK, DirtyWhenChanged
<1>2. CASE fd \in ToSet(dirtyEventList)
  BY <1>1, <1>2 DEF MarkDirty
<1>3. CASE fd \notin ToSet(dirtyEventList)
  BY <1>1, <1>3, ListInsertBack DEF MarkDirty
<1> QED
  BY <1>2, <1>3

-----------------------------------------------------------------------------
(* IOPoller_SetWatch.  What it starts from, with an old event or a new     *)
(* one, is what the invariant says of the event.                           *)
LEMMA SetWatch_EventInv ==
    ASSUME EventInv, NEW watch \in Watches, NEW fd \in FDs,
           NEW condition \in Conditions, SetWatch(watch, fd, condition)
    PROVE  EventInv'
<1> DEFINE old == fd \in eventVector
           pending == IF old THEN pendingFlags[fd] ELSE {}
           lists == IF old THEN watchList[fd] ELSE Unwatched
<1>1. pending = pendingFlags[fd] /\ lists = watchList[fd]
  BY NoEventNoFlags
<1>2. /\ target[watch] = NotSet /\ fd \in open
      /\ target' = [target EXCEPT ![watch] = <<fd, condition>>]
      /\ eventVector' = eventVector \cup {fd}
      /\ flags' = [flags EXCEPT ![fd] = IF old THEN flags[fd] ELSE {}]
      /\ pendingFlags' = [pendingFlags EXCEPT ![fd] = pending \cup {condition}]
      /\ watchList' = [watchList EXCEPT
            ![fd] = [lists EXCEPT ![condition] = Append(lists[condition], watch)]]
      /\ IF condition \in pending THEN UNCHANGED dirtyEventList ELSE MarkDirty(fd)
      /\ UNCHANGED <<interest, ready, open>>
  BY DEF SetWatch, kernelVars
<1> HIDE DEF pending, lists
<1>3. EventTypeOK
  BY DEF EventInv
<1>4. PICK list \in Seq(Watches) : list = watchList[fd][condition]
  BY <1>3 DEF EventTypeOK
<1>5. /\ Append(list, watch) \in Seq(Watches) /\ IsInjective(Append(list, watch))
      /\ ToSet(Append(list, watch)) = ToSet(list) \cup {watch}
      /\ Append(list, watch) # <<>>
  <2>1. watch \notin ToSet(list) /\ IsInjective(list)
    <3>1. target[watch] # <<fd, condition>>
      BY <1>2, TargetSet
    <3> QED
      BY <1>4, <3>1 DEF EventInv, WatchesLinked
  <2> QED
    BY <2>1, ListInsertBack
<1>6. /\ watchList' \in [FDs -> [Conditions -> Seq(Watches)]]
      /\ watchList'[fd][condition] = Append(list, watch)
      /\ \A g \in FDs, c \in Conditions :
            g # fd \/ c # condition => watchList'[g][c] = watchList[g][c]
  BY <1>1, <1>2, <1>3, <1>4, <1>5 DEF EventTypeOK
<1>7. /\ pendingFlags' \in [FDs -> SUBSET Conditions]
      /\ pendingFlags'[fd] = pendingFlags[fd] \cup {condition}
      /\ \A g \in FDs : g # fd => pendingFlags'[g] = pendingFlags[g]
  BY <1>1, <1>2, <1>3 DEF EventTypeOK
<1>8. /\ flags' \in [FDs -> SUBSET Conditions]
      /\ flags'[fd] = IF old THEN flags[fd] ELSE {}
      /\ \A g \in FDs : g # fd => flags'[g] = flags[g]
  BY <1>2, <1>3 DEF EventTypeOK
<1>9. /\ target' \in [Watches -> (FDs \X Conditions) \cup {NotSet}]
      /\ target'[watch] = <<fd, condition>>
      /\ \A w \in Watches : w # watch => target'[w] = target[w]
  BY <1>2, <1>3 DEF EventTypeOK
<1>10. /\ dirtyEventList' \in Seq(FDs) /\ IsInjective(dirtyEventList')
       /\ ToSet(dirtyEventList') = ToSet(dirtyEventList)
              \cup (IF condition \in pendingFlags[fd] THEN {} ELSE {fd})
  BY <1>1, <1>2, <1>3, DirtyMarked DEF EventTypeOK, EventInv, DirtyWhenChanged
<1>11. EventTypeOK'
  BY <1>2, <1>3, <1>6, <1>7, <1>8, <1>9, <1>10 DEF EventTypeOK
<1>12. EpollAgrees'
  BY <1>2, <1>3, <1>7, <1>8 DEF EpollAgrees, EventInv, EventTypeOK
<1>13. DirtyWhenChanged'
  <2>1. CASE condition \in pendingFlags[fd]
    <3>1. old /\ pendingFlags'[fd] = pendingFlags[fd] /\ flags'[fd] = flags[fd]
      BY <1>7, <1>8, <2>1, NoEventNoFlags
    <3> QED
      BY <1>2, <1>7, <1>8, <1>10, <2>1, <3>1 DEF DirtyWhenChanged, EventInv
  <2>2. CASE condition \notin pendingFlags[fd]
    BY <1>2, <1>7, <1>8, <1>10, <2>2 DEF DirtyWhenChanged, EventInv
  <2> QED
    BY <2>1, <2>2
<1>14. WatchesLinked'
  <2> SUFFICES ASSUME NEW g \in FDs, NEW c \in Conditions
               PROVE  /\ IsInjective(watchList'[g][c])
                      /\ ToSet(watchList'[g][c]) =
                            {w \in Watches : target'[w] = <<g, c>>}
                      /\ c \in pendingFlags'[g] <=> watchList'[g][c] # <<>>
    BY DEF WatchesLinked
  <2>1. CASE g = fd /\ c = condition
    <3>1. {w \in Watches : target'[w] = <<g, c>>} =
             {w \in Watches : target[w] = <<g, c>>} \cup {watch}
      BY <1>9, <2>1
    <3> QED
      BY <1>4, <1>5, <1>6, <1>7, <2>1, <3>1 DEF EventInv, WatchesLinked
  <2>2. CASE g # fd \/ c # condition
    <3>1. {w \in Watches : target'[w] = <<g, c>>} =
             {w \in Watches : target[w] = <<g, c>>}
      BY <1>2, <1>9, <2>2, TargetSet
    <3>2. c \in pendingFlags'[g] <=> c \in pendingFlags[g]
      BY <1>7, <2>2
    <3>3. watchList'[g][c] = watchList[g][c]
      BY <1>6, <2>2
    <3>4. /\ IsInjective(watchList[g][c])
          /\ ToSet(watchList[g][c]) = {w \in Watches : target[w] = <<g, c>>}
          /\ c \in pendingFlags[g] <=> watchList[g][c] # <<>>
      BY DEF EventInv, WatchesLinked
    <3> QED
      BY <3>1, <3>2, <3>3, <3>4
  <2> QED
    BY <2>1, <2>2
<1>15. WatchedExists'
  BY <1>2, <1>9, TargetSet DEF WatchedExists, EventInv
<1> QED
  BY <1>11, <1>12, <1>13, <1>14, <1>15 DEF EventInv

(* IOPoller_ClearWatch.                                                    *)
LEMMA ClearWatch_EventInv ==
    ASSUME EventInv, NEW watch \in Watches, ClearWatch(watch), UNCHANGED kernelVars
    PROVE  EventInv'
<1>1. EventTypeOK
  BY DEF EventInv
<1>2. PICK fd \in FDs, condition \in Conditions : target[watch] = <<fd, condition>>
  BY <1>1 DEF EventTypeOK, ClearWatch
<1> DEFINE rest == RemoveFirst(watchList[fd][condition], watch)
<1>3. /\ target' = [target EXCEPT ![watch] = NotSet]
      /\ watchList' = [watchList EXCEPT ![fd][condition] = rest]
      /\ \/ /\ rest = <<>>
            /\ pendingFlags' = [pendingFlags EXCEPT ![fd] = pendingFlags[fd] \ {condition}]
            /\ MarkDirty(fd)
         \/ /\ rest # <<>>
            /\ UNCHANGED <<pendingFlags, dirtyEventList>>
      /\ UNCHANGED <<eventVector, flags, interest, ready, open>>
  BY <1>2, TargetSet DEF ClearWatch, kernelVars
<1> HIDE DEF rest
<1>4. /\ rest \in Seq(Watches) /\ IsInjective(rest)
      /\ ToSet(rest) = ToSet(watchList[fd][condition]) \ {watch}
  <2>1. /\ watchList[fd][condition] \in Seq(Watches)
        /\ IsInjective(watchList[fd][condition])
        /\ watch \in ToSet(watchList[fd][condition])
    <3>1. watchList[fd] \in [Conditions -> Seq(Watches)]
      BY <1>1 DEF EventTypeOK
    <3>2. /\ IsInjective(watchList[fd][condition])
          /\ ToSet(watchList[fd][condition])
                = {w \in Watches : target[w] = <<fd, condition>>}
      BY DEF EventInv, WatchesLinked
    <3> QED
      BY <1>2, <3>1, <3>2
  <2> QED
    BY <2>1, ListRemove DEF rest
<1>5. /\ watchList' \in [FDs -> [Conditions -> Seq(Watches)]]
      /\ watchList'[fd][condition] = rest
      /\ \A g \in FDs, c \in Conditions :
            g # fd \/ c # condition => watchList'[g][c] = watchList[g][c]
  <2>1. watchList \in [FDs -> [Conditions -> Seq(Watches)]]
    BY <1>1 DEF EventTypeOK
  <2>2. watchList' = [watchList EXCEPT ![fd][condition] = rest]
    BY <1>3
  <2>3. /\ watchList'[fd] = [watchList[fd] EXCEPT ![condition] = rest]
        /\ \A g \in FDs : g # fd => watchList'[g] = watchList[g]
    BY <2>1, <2>2
  <2> QED
    BY <1>4, <2>1, <2>2, <2>3
<1>6. condition \in pendingFlags[fd]
  <2>1. ToSet(watchList[fd][condition]) # {}
    BY <1>2 DEF EventInv, WatchesLinked
  <2>2. watchList[fd][condition] # <<>>
    BY <1>1, <2>1, ListEmpty DEF EventTypeOK
  <2> QED
    BY <2>2 DEF EventInv, WatchesLinked
<1>7. /\ pendingFlags' \in [FDs -> SUBSET Conditions]
      /\ pendingFlags'[fd] = IF rest = <<>> THEN pendingFlags[fd] \ {condition}
                                            ELSE pendingFlags[fd]
      /\ \A g \in FDs : g # fd => pendingFlags'[g] = pendingFlags[g]
  BY <1>1, <1>3 DEF EventTypeOK
<1>8. /\ target' \in [Watches -> (FDs \X Conditions) \cup {NotSet}]
      /\ target'[watch] = NotSet
      /\ \A w \in Watches : w # watch => target'[w] = target[w]
  BY <1>1, <1>3 DEF EventTypeOK
<1>9. /\ dirtyEventList' \in Seq(FDs) /\ IsInjective(dirtyEventList')
      /\ ToSet(dirtyEventList') = ToSet(dirtyEventList)
              \cup (IF rest = <<>> THEN {fd} ELSE {})
  BY <1>1, <1>3, DirtyMarked DEF EventTypeOK, EventInv, DirtyWhenChanged
<1>10. EventTypeOK'
  BY <1>1, <1>3, <1>5, <1>7, <1>8, <1>9 DEF EventTypeOK
<1>11. EpollAgrees'
  BY <1>1, <1>3, <1>7 DEF EpollAgrees, EventInv, EventTypeOK
<1>12. fd \in eventVector
  BY <1>2, TargetSet DEF EventInv, WatchedExists
<1>13. DirtyWhenChanged'
  <2>1. \A g \in eventVector : g # fd => pendingFlags'[g] = pendingFlags[g]
    BY <1>1, <1>7 DEF EventTypeOK
  <2>2. rest # <<>> => pendingFlags'[fd] = pendingFlags[fd]
    BY <1>7
  <2> QED
    BY <1>3, <1>9, <1>12, <2>1, <2>2 DEF DirtyWhenChanged, EventInv
<1>14. WatchesLinked'
  <2> SUFFICES ASSUME NEW g \in FDs, NEW c \in Conditions
               PROVE  /\ IsInjective(watchList'[g][c])
                      /\ ToSet(watchList'[g][c]) =
                            {w \in Watches : target'[w] = <<g, c>>}
                      /\ c \in pendingFlags'[g] <=> watchList'[g][c] # <<>>
    BY DEF WatchesLinked
  <2>1. CASE g = fd /\ c = condition
    <3>1. {w \in Watches : target'[w] = <<g, c>>} =
             {w \in Watches : target[w] = <<g, c>>} \ {watch}
      BY <1>8, <2>1, TargetSet
    <3> QED
      BY <1>4, <1>5, <1>6, <1>7, <2>1, <3>1 DEF EventInv, WatchesLinked
  <2>2. CASE g # fd \/ c # condition
    <3>1. {w \in Watches : target'[w] = <<g, c>>} =
             {w \in Watches : target[w] = <<g, c>>}
      BY <1>2, <1>8, <2>2, TargetSet
    <3>2. c \in pendingFlags'[g] <=> c \in pendingFlags[g]
      BY <1>7, <2>2
    <3>3. watchList'[g][c] = watchList[g][c]
      BY <1>5, <2>2
    <3>4. /\ IsInjective(watchList[g][c])
          /\ ToSet(watchList[g][c]) = {w \in Watches : target[w] = <<g, c>>}
          /\ c \in pendingFlags[g] <=> watchList[g][c] # <<>>
      BY DEF EventInv, WatchesLinked
    <3> QED
      BY <3>1, <3>2, <3>3, <3>4
  <2> QED
    BY <2>1, <2>2
<1>15. WatchedExists'
  BY <1>3, <1>8 DEF WatchedExists, EventInv
<1> QED
  BY <1>10, <1>11, <1>13, <1>14, <1>15 DEF EventInv

(* IOPoller_ClearWatches, and the kernel closing the descriptor.           *)
LEMMA Close_EventInv ==
    ASSUME EventInv, NEW fd \in FDs, Close(fd) PROVE EventInv'
<1>1. EventTypeOK
  BY DEF EventInv
<1>2. /\ target' = [watch \in Watches |->
              IF target[watch] # NotSet /\ target[watch][1] = fd
              THEN NotSet ELSE target[watch]]
      /\ eventVector' = eventVector /\ open' = open \ {fd}
      /\ ready' = [ready EXCEPT ![fd] = {}]
  BY DEF Close, ClearWatches
<1>3. /\ target' \in [Watches -> (FDs \X Conditions) \cup {NotSet}]
      /\ \A watch \in Watches :
            /\ target'[watch] # NotSet => target'[watch][1] # fd
            /\ target'[watch] # NotSet => target'[watch] = target[watch]
            /\ target[watch] # NotSet /\ target[watch][1] # fd
                 => target'[watch] = target[watch]
  BY <1>1, <1>2 DEF EventTypeOK
<1>4. /\ watchList' \in [FDs -> [Conditions -> Seq(Watches)]]
      /\ watchList'[fd] = Unwatched
      /\ pendingFlags' \in [FDs -> SUBSET Conditions] /\ pendingFlags'[fd] = {}
      /\ interest' \in [FDs -> SUBSET Conditions]
      /\ flags' \in [FDs -> SUBSET Conditions]
      /\ interest'[fd] = IF fd \in eventVector THEN flags'[fd] ELSE {}
      /\ fd \in eventVector => flags'[fd] = {}
      /\ \A g \in FDs : g # fd =>
            /\ watchList'[g] = watchList[g] /\ pendingFlags'[g] = pendingFlags[g]
            /\ interest'[g] = interest[g] /\ flags'[g] = flags[g]
      /\ dirtyEventList' \in Seq(FDs) /\ IsInjective(dirtyEventList')
      /\ ToSet(dirtyEventList') = ToSet(dirtyEventList)
              \cup (IF fd \in eventVector THEN {fd} ELSE {})
  <2>1. CASE fd \in eventVector
    <3>1. /\ watchList' = [watchList EXCEPT ![fd] = Unwatched]
          /\ pendingFlags' = [pendingFlags EXCEPT ![fd] = {}]
          /\ MarkDirty(fd)
          /\ interest' = IF flags[fd] = {} THEN interest
                                           ELSE [interest EXCEPT ![fd] = {}]
          /\ flags' = [flags EXCEPT ![fd] = {}]
      BY <2>1 DEF Close, ClearWatches
    <3>2. Unwatched \in [Conditions -> Seq(Watches)]
      BY DEF Unwatched
    <3>3. interest[fd] = flags[fd]
      BY <2>1 DEF EventInv, EpollAgrees
    <3>4. /\ dirtyEventList' \in Seq(FDs) /\ IsInjective(dirtyEventList')
          /\ ToSet(dirtyEventList') = ToSet(dirtyEventList) \cup {fd}
      BY <3>1, DirtyMarked
    <3> QED
      BY <1>1, <2>1, <3>1, <3>2, <3>3, <3>4 DEF EventTypeOK
  <2>2. CASE fd \notin eventVector
    <3>1. UNCHANGED <<watchList, pendingFlags, dirtyEventList, interest, flags>>
      BY <2>2 DEF Close, ClearWatches
    <3>2. interest[fd] = {}
      BY <2>2 DEF EventInv, EpollAgrees
    <3> QED
      BY <1>1, <2>2, <3>1, <3>2, NoEventNoFlags
      DEF EventTypeOK, EventInv, DirtyWhenChanged
  <2> QED
    BY <2>1, <2>2
<1>5. EventTypeOK'
  BY <1>1, <1>2, <1>3, <1>4 DEF EventTypeOK
<1>6. EpollAgrees'
  BY <1>1, <1>2, <1>4 DEF EpollAgrees, EventInv, EventTypeOK
<1>7. DirtyWhenChanged'
  BY <1>1, <1>2, <1>4 DEF DirtyWhenChanged, EventInv, EventTypeOK
<1>8. WatchesLinked'
  <2> SUFFICES ASSUME NEW g \in FDs, NEW c \in Conditions
               PROVE  /\ IsInjective(watchList'[g][c])
                      /\ ToSet(watchList'[g][c]) =
                            {w \in Watches : target'[w] = <<g, c>>}
                      /\ c \in pendingFlags'[g] <=> watchList'[g][c] # <<>>
    BY DEF WatchesLinked
  <2>1. CASE g = fd
    <3>1. watchList'[g][c] = <<>> /\ c \notin pendingFlags'[g]
      BY <1>4, <2>1 DEF Unwatched
    <3>2. \A w \in Watches : target'[w] # <<g, c>>
      BY <1>3, <2>1, TargetSet
    <3>3. <<>> \in Seq(Watches)
      OBVIOUS
    <3>4. ToSet(<<>>) = {} /\ IsInjective(<<>>)
      BY <3>3, ListEmpty
    <3> QED
      BY <3>1, <3>2, <3>4
  <2>2. CASE g # fd
    <3>1. {w \in Watches : target'[w] = <<g, c>>} =
             {w \in Watches : target[w] = <<g, c>>}
      <4> DEFINE aim == <<g, c>>
      <4>1. aim # NotSet /\ aim[1] = g
        BY TargetSet
      <4> HIDE DEF aim
      <4>2. \A w \in Watches : target'[w] = aim <=> target[w] = aim
        BY <1>3, <2>2, <4>1
      <4> QED
        BY <4>2 DEF aim
    <3>2. watchList'[g] = watchList[g] /\ pendingFlags'[g] = pendingFlags[g]
      BY <1>4, <2>2
    <3>3. /\ IsInjective(watchList[g][c])
          /\ ToSet(watchList[g][c]) = {w \in Watches : target[w] = <<g, c>>}
          /\ c \in pendingFlags[g] <=> watchList[g][c] # <<>>
      BY DEF EventInv, WatchesLinked
    <3> QED
      BY <3>1, <3>2, <3>3
  <2> QED
    BY <2>1, <2>2
<1>9. WatchedExists'
  BY <1>2, <1>3 DEF WatchedExists, EventInv
<1> QED
  BY <1>5, <1>6, <1>7, <1>8, <1>9 DEF EventInv

LEMMA Open_EventInv ==
    ASSUME EventInv, NEW fd \in FDs, Open(fd) PROVE EventInv'
<1>1. /\ open' = open \cup {fd}
      /\ UNCHANGED <<target, eventVector, flags, pendingFlags, watchList,
                     dirtyEventList, interest, ready>>
  BY DEF Open, eventVars
<1>2. EventTypeOK'
  BY <1>1 DEF EventInv, EventTypeOK
<1>3. EpollAgrees' /\ WatchedExists'
  BY <1>1 DEF EventInv, EpollAgrees, WatchedExists
<1>4. DirtyWhenChanged' /\ WatchesLinked'
  BY <1>1 DEF EventInv, DirtyWhenChanged, WatchesLinked
<1> QED
  BY <1>2, <1>3, <1>4 DEF EventInv

LEMMA ReadinessChanges_EventInv ==
    ASSUME EventInv, ReadinessChanges PROVE EventInv'
<1>1. /\ ready' \in [FDs -> SUBSET Conditions]
      /\ UNCHANGED <<target, eventVector, flags, pendingFlags, watchList,
                     dirtyEventList, interest, open>>
  BY DEF ReadinessChanges, eventVars, EventInv, EventTypeOK
<1>2. EventTypeOK'
  BY <1>1 DEF EventInv, EventTypeOK
<1>3. EpollAgrees' /\ WatchedExists'
  BY <1>1 DEF EventInv, EpollAgrees, WatchedExists
<1>4. DirtyWhenChanged' /\ WatchesLinked'
  BY <1>1 DEF EventInv, DirtyWhenChanged, WatchesLinked
<1> QED
  BY <1>2, <1>3, <1>4 DEF EventInv

(* The events are brought up to date and those without a watch freed.      *)
LEMMA TellEpoll_EventInv ==
    ASSUME EventInv, TellEpoll PROVE EventInv'
<1> DEFINE dirty == ToSet(dirtyEventList)
           unused == {fd \in dirty : pendingFlags[fd] = {}}
           stale == {fd \in dirty : flags[fd] # pendingFlags[fd]}
<1>1. /\ interest' = [fd \in FDs |->
             IF fd \in stale THEN pendingFlags[fd] ELSE interest[fd]]
      /\ flags' = [fd \in FDs |->
             IF fd \in stale THEN pendingFlags[fd] ELSE flags[fd]]
      /\ eventVector' = eventVector \ unused
      /\ dirtyEventList' = <<>>
      /\ UNCHANGED <<target, pendingFlags, watchList, ready, open>>
  BY DEF TellEpoll
<1>2. EventTypeOK /\ dirty \subseteq eventVector
  BY DEF EventInv, DirtyWhenChanged
<1> HIDE DEF dirty
<1>3. <<>> \in Seq(FDs)
  OBVIOUS
<1>4. ToSet(<<>>) = {} /\ IsInjective(<<>>)
  BY <1>3, ListEmpty
<1>5. /\ interest' \in [FDs -> SUBSET Conditions] /\ flags' \in [FDs -> SUBSET Conditions]
      /\ \A fd \in FDs : fd \in dirty => flags'[fd] = pendingFlags[fd]
      /\ \A fd \in FDs : fd \notin dirty =>
            flags'[fd] = flags[fd] /\ interest'[fd] = interest[fd]
      /\ \A fd \in FDs : fd \in dirty /\ interest[fd] = flags[fd] =>
            interest'[fd] = flags'[fd]
  BY <1>1, <1>2 DEF EventTypeOK
<1>6. EventTypeOK'
  BY <1>1, <1>2, <1>3, <1>5 DEF EventTypeOK
<1>7. EpollAgrees'
  <2>1. ASSUME NEW fd \in FDs
        PROVE  interest'[fd] = IF fd \in eventVector' THEN flags'[fd] ELSE {}
    <3>1. interest[fd] = IF fd \in eventVector THEN flags[fd] ELSE {}
      BY DEF EventInv, EpollAgrees
    <3>2. CASE fd \in dirty
      BY <1>1, <1>2, <1>5, <3>1, <3>2
    <3>3. CASE fd \notin dirty
      BY <1>1, <1>5, <3>1, <3>3
    <3> QED
      BY <3>2, <3>3
  <2>2. ASSUME NEW fd \in eventVector' \ open'
        PROVE  flags'[fd] = {} /\ pendingFlags'[fd] = {}
    <3>1. fd \in FDs /\ flags[fd] = {} /\ pendingFlags[fd] = {}
      BY <1>1, <1>2, <2>2 DEF EventInv, EpollAgrees, EventTypeOK
    <3> QED
      BY <1>1, <1>5, <3>1
  <2> QED
    BY <2>1, <2>2 DEF EpollAgrees
<1>8. DirtyWhenChanged'
  <2>1. ASSUME NEW fd \in eventVector'
        PROVE  flags'[fd] = pendingFlags'[fd] /\ pendingFlags'[fd] # {}
    <3>1. fd \in FDs /\ fd \in eventVector
      BY <1>1, <1>2, <2>1 DEF EventTypeOK
    <3>2. CASE fd \in dirty
      BY <1>1, <1>5, <2>1, <3>1, <3>2
    <3>3. CASE fd \notin dirty
      <4>1. flags[fd] = pendingFlags[fd] /\ pendingFlags[fd] # {}
        BY <3>1, <3>3 DEF EventInv, DirtyWhenChanged, dirty
      <4> QED
        BY <1>1, <1>5, <3>1, <3>3, <4>1
    <3> QED
      BY <3>2, <3>3
  <2> QED
    BY <1>1, <1>4, <2>1 DEF DirtyWhenChanged
<1>9. WatchesLinked'
  BY <1>1 DEF EventInv, WatchesLinked
<1>10. WatchedExists'
  <2> SUFFICES ASSUME NEW watch \in Watches, target[watch] # NotSet
               PROVE  target[watch][1] \in open \cap eventVector'
    BY <1>1 DEF WatchedExists
  <2>1. PICK fd \in FDs, condition \in Conditions : target[watch] = <<fd, condition>>
    BY <1>2 DEF EventTypeOK
  <2>2. pendingFlags[fd] # {}
    <3>1. watch \in ToSet(watchList[fd][condition])
      BY <2>1 DEF EventInv, WatchesLinked
    <3>2. watchList[fd][condition] # <<>>
      BY <1>2, <3>1, ListEmpty DEF EventTypeOK
    <3> QED
      BY <3>2 DEF EventInv, WatchesLinked
  <2>3. fd \in open /\ fd \in eventVector
    BY <2>1, TargetSet DEF EventInv, WatchedExists
  <2> QED
    BY <1>1, <2>1, <2>2, <2>3, TargetSet
<1> QED
  BY <1>6, <1>7, <1>8, <1>9, <1>10 DEF EventInv

-----------------------------------------------------------------------------
(* epoll_wait comes back: what IOPoller_Tick queues are the callbacks of   *)
(* the watches whose descriptor is ready for what they were set for.       *)
LEMMA InvEpollKnows == PollerInv => EpollKnowsTheWatches
<1> SUFFICES ASSUME PollerInv, phase = "epoll", NEW fd \in FDs
             PROVE  /\ interest[fd] = {condition \in Conditions :
                          \E watch \in Watches : target[watch] = <<fd, condition>>}
                    /\ interest[fd] # {} => fd \in eventVector /\ fd \in open
  BY DEF EpollKnowsTheWatches
<1>1. EventInv /\ EventTypeOK /\ dirtyEventList = <<>>
  BY DEF PollerInv, EventInv, ToldBeforeWait
<1>2. ToSet(dirtyEventList) = {}
  BY <1>1, ListEmpty DEF EventTypeOK
<1>3. interest[fd] = pendingFlags[fd]
  <2>1. CASE fd \in eventVector
    BY <1>1, <1>2, <2>1 DEF EventInv, EpollAgrees, DirtyWhenChanged
  <2>2. CASE fd \notin eventVector
    BY <1>1, <2>2, NoEventNoFlags DEF EventInv, EpollAgrees
  <2> QED
    BY <2>1, <2>2
<1>4. ASSUME NEW c \in Conditions
      PROVE  c \in pendingFlags[fd] <=> \E w \in Watches : target[w] = <<fd, c>>
  <2>1. /\ watchList[fd][c] \in Seq(Watches)
        /\ ToSet(watchList[fd][c]) = {w \in Watches : target[w] = <<fd, c>>}
        /\ c \in pendingFlags[fd] <=> watchList[fd][c] # <<>>
    BY <1>1 DEF EventTypeOK, EventInv, WatchesLinked
  <2>2. watchList[fd][c] # <<>> <=> ToSet(watchList[fd][c]) # {}
    BY <2>1, ListEmpty
  <2> QED
    BY <2>1, <2>2
<1>5. interest[fd] = {condition \in Conditions :
             \E watch \in Watches : target[watch] = <<fd, condition>>}
  BY <1>1, <1>3, <1>4 DEF EventTypeOK
<1>6. ASSUME interest[fd] # {} PROVE fd \in eventVector /\ fd \in open
  <2>1. PICK c \in Conditions, w \in Watches : target[w] = <<fd, c>>
    BY <1>5, <1>6
  <2>2. target[w] # NotSet /\ target[w][1] = fd
    BY <2>1, TargetSet
  <2> QED
    BY <1>1, <2>2 DEF EventInv, WatchedExists
<1> QED
  BY <1>5, <1>6

(* epoll has the descriptors of the due watches, and no other, to return.  *)
LEMMA ReadyAreDue ==
    ASSUME PollerInv, phase = "epoll"
    PROVE  ReadyFDs = Abstract!DueFDs
<1>1. EventTypeOK /\ EpollKnowsTheWatches
  BY InvEpollKnows DEF PollerInv, EventInv
<1>2. ASSUME NEW fd \in ReadyFDs PROVE fd \in Abstract!DueFDs
  <2>1. fd \in FDs /\ ready[fd] \cap interest[fd] # {}
    BY DEF ReadyFDs
  <2>2. PICK condition \in Conditions, watch \in Watches :
           condition \in ready[fd] /\ target[watch] = <<fd, condition>>
    BY <1>1, <2>1 DEF EpollKnowsTheWatches
  <2>3. /\ target[watch] # NotSet
        /\ target[watch][1] = fd /\ target[watch][2] = condition
    BY <2>1, <2>2, TargetSet
  <2> QED
    BY <2>2, <2>3 DEF Abstract!DueFDs, Abstract!Due
<1>3. ASSUME NEW watch \in Abstract!Due PROVE target[watch][1] \in ReadyFDs
  <2>1. watch \in Watches /\ target[watch] # NotSet /\ target[watch][2] \in ready[target[watch][1]]
    BY DEF Abstract!Due
  <2>2. PICK fd \in FDs, condition \in Conditions : target[watch] = <<fd, condition>>
    BY <1>1, <2>1 DEF EventTypeOK
  <2>3. target[watch][1] = fd /\ condition \in ready[fd]
    BY <2>1, <2>2, TargetSet
  <2>4. condition \in interest[fd]
    BY <1>1, <2>1, <2>2 DEF EpollKnowsTheWatches
  <2> QED
    BY <2>2, <2>3, <2>4 DEF ReadyFDs
<1> QED
  BY <1>2, <1>3 DEF Abstract!DueFDs

(* Of each descriptor epoll_wait returned every due watch is queued, once. *)
LEMMA CallsQueued ==
    ASSUME PollerInv, NEW some \in SUBSET FDs, NEW fds \in SetToSeqs(some)
    PROVE  /\ CallsOf(fds) \in Seq(Watches) /\ IsInjective(CallsOf(fds))
           /\ ToSet(CallsOf(fds)) = Abstract!DueAt(some)
<1>1. EventInv /\ EventTypeOK
  BY DEF PollerInv, EventInv
<1> DEFINE listOf(fd, condition) ==
               IF condition \in ready[fd] THEN watchList[fd][condition] ELSE <<>>
           both(fd) == listOf(fd, "readable") \o listOf(fd, "writable")
<1>2. CallsOf(fds) = FlattenSeq([i \in DOMAIN fds |-> both(fds[i])])
  BY DEF CallsOf
<1>3. fds \in Seq(some) /\ IsInjective(fds) /\ ToSet(fds) = some
  <2>1. IsFiniteSet(some)
    BY IOPollerAssumption, FS_Subset
  <2> QED
    BY <2>1, ListOfSet
<1>4. \A fd \in FDs, condition \in Conditions :
         /\ listOf(fd, condition) \in Seq(Watches)
         /\ IsInjective(listOf(fd, condition))
         /\ ToSet(listOf(fd, condition)) =
               {w \in Watches : target[w] = <<fd, condition>> /\ condition \in ready[fd]}
  <2> SUFFICES ASSUME NEW fd \in FDs, NEW condition \in Conditions
               PROVE  /\ listOf(fd, condition) \in Seq(Watches)
                      /\ IsInjective(listOf(fd, condition))
                      /\ ToSet(listOf(fd, condition)) =
                            {w \in Watches : target[w] = <<fd, condition>>
                                              /\ condition \in ready[fd]}
    OBVIOUS
  <2>1. CASE condition \in ready[fd]
    BY <1>1, <2>1 DEF EventTypeOK, EventInv, WatchesLinked
  <2>2. CASE condition \notin ready[fd]
    <3>1. <<>> \in Seq(Watches)
      OBVIOUS
    <3>2. ToSet(<<>>) = {} /\ IsInjective(<<>>)
      BY <3>1, ListEmpty
    <3> QED
      BY <2>2, <3>1, <3>2
  <2> QED
    BY <2>1, <2>2
<1> HIDE DEF listOf
<1> DEFINE DueOf(fd) == {w \in Watches : \E condition \in ready[fd] :
                             condition \in Conditions /\ target[w] = <<fd, condition>>}
<1>5. \A fd \in FDs :
         both(fd) \in Seq(Watches) /\ IsInjective(both(fd)) /\ ToSet(both(fd)) = DueOf(fd)
  <2> SUFFICES ASSUME NEW fd \in FDs
               PROVE  /\ both(fd) \in Seq(Watches) /\ IsInjective(both(fd))
                      /\ ToSet(both(fd)) = DueOf(fd)
    OBVIOUS
  <2>1. "readable" \in Conditions /\ "writable" \in Conditions
        /\ <<fd, "readable">> # <<fd, "writable">>
    BY DEF Conditions
  <2>2. ToSet(listOf(fd, "readable")) \cap ToSet(listOf(fd, "writable")) = {}
    BY <1>4, <2>1
  <2>3. ToSet(listOf(fd, "readable")) \cup ToSet(listOf(fd, "writable")) = DueOf(fd)
    BY <1>4, <2>1 DEF Conditions
  <2> QED
    BY <1>4, <2>1, <2>2, <2>3, ListConcat
<1> HIDE DEF both, DueOf
<1> DEFINE n == Len(fds)
           ss == [i \in DOMAIN fds |-> both(fds[i])]
<1>6. /\ n \in Nat /\ DOMAIN fds = 1 .. n
      /\ \A i \in 1 .. n : fds[i] \in some /\ fds[i] \in FDs
      /\ \A fd \in some : \E i \in 1 .. n : fds[i] = fd
      /\ \A i, j \in 1 .. n : fds[i] = fds[j] => i = j
  BY <1>3, LenProperties, ElementOfSeq DEF ToSet, IsInjective
<1> HIDE DEF n
<1>7. ss \in Seq(Seq(Watches)) /\ Len(ss) = n /\ \A i \in 1 .. n : ss[i] = both(fds[i])
  <2>1. ss \in [1 .. n -> Seq(Watches)]
    BY <1>5, <1>6
  <2> QED
    BY <1>6, <2>1
<1> HIDE DEF ss
<1>8. \A i \in 1 .. n : IsInjective(ss[i]) /\ ToSet(ss[i]) = DueOf(fds[i])
  BY <1>5, <1>6, <1>7
<1>9. \A f, g \in FDs : f # g => DueOf(f) \cap DueOf(g) = {}
  BY DEF DueOf
<1>10. \A i, j \in 1 .. n : i # j => ToSet(ss[i]) \cap ToSet(ss[j]) = {}
  BY <1>6, <1>8, <1>9
<1>11. /\ CallsOf(fds) \in Seq(Watches) /\ IsInjective(CallsOf(fds))
       /\ ToSet(CallsOf(fds)) = UNION {ToSet(ss[i]) : i \in 1 .. n}
  <2>1. CallsOf(fds) = FlattenSeq(ss)
    BY <1>2 DEF ss
  <2>2. /\ FlattenSeq(ss) \in Seq(Watches) /\ IsInjective(FlattenSeq(ss))
        /\ ToSet(FlattenSeq(ss)) = UNION {ToSet(ss[i]) : i \in 1 .. n}
    BY <1>7, <1>8, <1>10, ListFlatten
  <2> QED
    BY <2>1, <2>2
<1>12. UNION {ToSet(ss[i]) : i \in 1 .. n} = UNION {DueOf(fd) : fd \in some}
  BY <1>6, <1>8
<1>13. UNION {DueOf(fd) : fd \in some} = Abstract!DueAt(some)
  <2>1. ASSUME NEW fd \in some, NEW w \in DueOf(fd) PROVE w \in Abstract!DueAt(some)
    <3>1. PICK condition \in Conditions :
             condition \in ready[fd] /\ target[w] = <<fd, condition>>
      BY DEF DueOf
    <3>2. target[w] # NotSet /\ target[w][1] = fd /\ target[w][2] = condition
      BY <3>1, TargetSet
    <3>3. w \in Watches
      BY DEF DueOf
    <3> QED
      BY <3>1, <3>2, <3>3 DEF Abstract!DueAt, Abstract!Due
  <2>2. ASSUME NEW w \in Abstract!DueAt(some)
        PROVE  \E fd \in some : w \in DueOf(fd)
    <3>1. /\ w \in Watches /\ target[w] # NotSet /\ target[w][2] \in ready[target[w][1]]
          /\ target[w][1] \in some
      BY <2>2 DEF Abstract!DueAt, Abstract!Due
    <3>2. PICK fd \in FDs, condition \in Conditions : target[w] = <<fd, condition>>
      BY <1>1, <3>1 DEF EventTypeOK
    <3>3. condition \in ready[fd] /\ fd \in some
      BY <3>1, <3>2, TargetSet
    <3> QED
      BY <3>1, <3>2, <3>3 DEF DueOf
  <2> QED
    BY <2>1, <2>2
<1> QED
  BY <1>11, <1>12, <1>13

-----------------------------------------------------------------------------
(* What is left of the invariant while the fibers run: nothing is queued.  *)
LEMMA FibersRun ==
    ASSUME PollerInv, phase = "fibers", EventInv', UNCHANGED <<phase, calls>>
    PROVE  PollerInv'
<1>1. calls = <<>> /\ calls \in Seq(Watches)
  BY DEF PollerInv, QueuedStillSet
<1>2. ToSet(calls) = {}
  BY <1>1, ListEmpty
<1> QED
  BY <1>1, <1>2 DEF PollerInv, QueuedStillSet, ToldBeforeWait

LEMMA SetWatch_Inv ==
    ASSUME PollerInv, NEW watch \in Watches, NEW fd \in FDs,
           NEW condition \in Conditions, SetWatch(watch, fd, condition)
    PROVE  PollerInv'
<1>1. EventInv'
  BY SetWatch_EventInv DEF PollerInv
<1> QED
  BY <1>1, FibersRun DEF SetWatch

LEMMA GiveUpWatch_Inv ==
    ASSUME PollerInv, NEW watch \in Watches, GiveUpWatch(watch) PROVE PollerInv'
<1>1. phase = "fibers" /\ ClearWatch(watch) /\ UNCHANGED <<phase, calls>>
  BY DEF GiveUpWatch
<1>2. UNCHANGED kernelVars
  BY <1>1 DEF ClearWatch
<1>3. EventInv'
  BY <1>1, <1>2, ClearWatch_EventInv DEF PollerInv
<1> QED
  BY <1>1, <1>3, FibersRun

LEMMA Descriptor_Inv ==
    ASSUME PollerInv, NEW fd \in FDs, Close(fd) \/ Open(fd) PROVE PollerInv'
<1>1. EventInv'
  BY Close_EventInv, Open_EventInv DEF PollerInv
<1>2. phase = "fibers" /\ UNCHANGED <<phase, calls>>
  BY DEF Close, Open
<1> QED
  BY <1>1, <1>2, FibersRun

LEMMA TellEpoll_Inv == ASSUME PollerInv, TellEpoll PROVE PollerInv'
<1>1. EventInv'
  BY TellEpoll_EventInv DEF PollerInv
<1>2. /\ phase = "fibers" /\ phase' = "epoll" /\ dirtyEventList' = <<>>
      /\ UNCHANGED calls
  BY DEF TellEpoll
<1>3. calls = <<>> /\ calls \in Seq(Watches)
  BY <1>2 DEF PollerInv, QueuedStillSet
<1>4. ToSet(calls) = {}
  BY <1>3, ListEmpty
<1> QED
  BY <1>1, <1>2, <1>3, <1>4 DEF PollerInv, QueuedStillSet, ToldBeforeWait

LEMMA EventsSame ==
    ASSUME EventInv, UNCHANGED <<target, eventVars, kernelVars>> PROVE EventInv'
<1>1. UNCHANGED <<target, eventVector, flags, pendingFlags, watchList,
                  dirtyEventList, interest, ready, open>>
  BY DEF eventVars, kernelVars
<1>2. EventTypeOK' /\ EpollAgrees' /\ WatchedExists'
  BY <1>1 DEF EventInv, EventTypeOK, EpollAgrees, WatchedExists
<1>3. DirtyWhenChanged' /\ WatchesLinked'
  BY <1>1 DEF EventInv, DirtyWhenChanged, WatchesLinked
<1> QED
  BY <1>2, <1>3 DEF EventInv

LEMMA Interrupted_Inv == ASSUME PollerInv, Interrupted PROVE PollerInv'
<1>1. EventInv'
  BY EventsSame DEF PollerInv, Interrupted
<1>2. phase = "epoll" /\ phase' = "fibers" /\ UNCHANGED calls
  BY DEF Interrupted
<1>3. calls = <<>> /\ calls \in Seq(Watches)
  BY <1>2 DEF PollerInv, QueuedStillSet
<1>4. ToSet(calls) = {}
  BY <1>3, ListEmpty
<1> QED
  BY <1>1, <1>2, <1>3, <1>4 DEF PollerInv, QueuedStillSet, ToldBeforeWait

LEMMA QueueCalls_Inv == ASSUME PollerInv, QueueCalls PROVE PollerInv'
<1>1. EventInv'
  BY EventsSame DEF PollerInv, QueueCalls
<1>2. PICK some \in SUBSET ReadyFDs : \E fds \in SetToSeqs(some) : calls' = CallsOf(fds)
  BY DEF QueueCalls
<1>3. some \in SUBSET FDs
  BY DEF ReadyFDs
<1>4. /\ calls' \in Seq(Watches) /\ IsInjective(calls')
      /\ ToSet(calls') = Abstract!DueAt(some)
  BY <1>2, <1>3, CallsQueued
<1>5. phase' = "calls" /\ target' = target
  BY DEF QueueCalls
<1>6. \A watch \in ToSet(calls') : target'[watch] # NotSet
  BY <1>4, <1>5 DEF Abstract!DueAt, Abstract!Due
<1> QED
  BY <1>1, <1>4, <1>5, <1>6 DEF PollerInv, QueuedStillSet, ToldBeforeWait

(* What Async_DispatchCalls finds at the head of its queue.                *)
LEMMA CallDispatched ==
    ASSUME PollerInv, DispatchCall
    PROVE  /\ Head(calls) \in Watches /\ Tail(calls) \in Seq(Watches)
           /\ IsInjective(Tail(calls))
           /\ ToSet(calls) = ToSet(Tail(calls)) \cup {Head(calls)}
           /\ Head(calls) \notin ToSet(Tail(calls))
           /\ target' = IF Head(calls) \in Lasting THEN target
                        ELSE [target EXCEPT ![Head(calls)] = NotSet]
           /\ UNCHANGED kernelVars
<1>1. calls \in Seq(Watches) /\ calls # <<>> /\ IsInjective(calls)
  BY DEF PollerInv, QueuedStillSet, DispatchCall
<1>2. /\ target' = IF Head(calls) \in Lasting THEN target
                   ELSE [target EXCEPT ![Head(calls)] = NotSet]
      /\ UNCHANGED kernelVars
  BY DEF DispatchCall, ClearWatch
<1> QED
  BY <1>1, <1>2, ListTakeFront

LEMMA DispatchCall_Inv == ASSUME PollerInv, DispatchCall PROVE PollerInv'
<1>1. /\ Head(calls) \in Watches /\ Tail(calls) \in Seq(Watches)
      /\ IsInjective(Tail(calls))
      /\ ToSet(calls) = ToSet(Tail(calls)) \cup {Head(calls)}
      /\ Head(calls) \notin ToSet(Tail(calls))
      /\ target' = IF Head(calls) \in Lasting THEN target
                   ELSE [target EXCEPT ![Head(calls)] = NotSet]
      /\ UNCHANGED kernelVars
  BY CallDispatched
<1>2. phase = "calls" /\ phase' = phase /\ calls' = Tail(calls)
  BY DEF DispatchCall
<1>3. EventInv'
  <2>1. CASE Head(calls) \in Lasting
    BY <2>1, EventsSame DEF DispatchCall, PollerInv
  <2>2. CASE Head(calls) \notin Lasting
    <3>1. ClearWatch(Head(calls))
      BY <2>2 DEF DispatchCall
    <3> QED
      BY <1>1, <3>1, ClearWatch_EventInv DEF PollerInv
  <2> QED
    BY <2>1, <2>2
<1>4. \A watch \in ToSet(calls') : target'[watch] # NotSet
  <2> SUFFICES ASSUME NEW watch \in ToSet(calls') PROVE target'[watch] # NotSet
    OBVIOUS
  <2>1. watch # Head(calls) /\ target[watch] # NotSet
    BY <1>1, <1>2 DEF PollerInv, QueuedStillSet
  <2> QED
    BY <1>1, <2>1 DEF PollerInv, EventInv, EventTypeOK
<1>5. calls' \in Seq(Watches) /\ IsInjective(calls')
  BY <1>1, <1>2
<1> QED
  BY <1>2, <1>3, <1>4, <1>5 DEF PollerInv, QueuedStillSet, ToldBeforeWait

LEMMA EndRound_Inv == ASSUME PollerInv, EndRound PROVE PollerInv'
<1>1. EventInv'
  BY EventsSame DEF PollerInv, EndRound
<1>2. /\ calls = <<>> /\ phase' = "fibers" /\ calls' = calls /\ target' = target
  BY DEF EndRound
<1> QED
  BY <1>1, <1>2 DEF PollerInv, QueuedStillSet, ToldBeforeWait

LEMMA ReadinessChanges_Inv == ASSUME PollerInv, ReadinessChanges PROVE PollerInv'
<1>1. EventInv'
  BY ReadinessChanges_EventInv DEF PollerInv
<1>2. UNCHANGED <<target, dirtyEventList, phase, calls>>
  BY DEF ReadinessChanges, eventVars
<1> QED
  BY <1>1, <1>2 DEF PollerInv, QueuedStillSet, ToldBeforeWait

LEMMA Init_PollerInv == Init => PollerInv
<1> SUFFICES ASSUME Init PROVE PollerInv
  OBVIOUS
<1>1. /\ <<>> \in Seq(FDs) /\ <<>> \in Seq(Watches)
  OBVIOUS
<1>2. ToSet(<<>>) = {} /\ IsInjective(<<>>)
  BY <1>1, ListEmpty
<1>3. Unwatched \in [Conditions -> Seq(Watches)]
      /\ \A condition \in Conditions : Unwatched[condition] = <<>>
  BY <1>1 DEF Unwatched
<1>4. EventTypeOK
  BY <1>1, <1>3 DEF Init, EventTypeOK
<1>5. EpollAgrees /\ WatchedExists
  BY DEF Init, EpollAgrees, WatchedExists
<1>6. DirtyWhenChanged
  BY <1>2 DEF Init, DirtyWhenChanged
<1>7. WatchesLinked
  <2>1. \A fd \in FDs, condition \in Conditions, watch \in Watches :
           target[watch] # <<fd, condition>>
    BY TargetSet DEF Init
  <2>2. \A fd \in FDs, condition \in Conditions :
           watchList[fd][condition] = <<>> /\ condition \notin pendingFlags[fd]
    BY <1>3 DEF Init
  <2> QED
    BY <1>2, <2>1, <2>2 DEF WatchesLinked
<1> QED
  BY <1>1, <1>2, <1>4, <1>5, <1>6, <1>7
  DEF Init, PollerInv, EventInv, QueuedStillSet, ToldBeforeWait

(* Whatever the fibers, the loop and the world do next, the invariant      *)
(* stays.                                                                  *)
THEOREM PollerNext_Inv == PollerInv /\ [Next]_vars => PollerInv'
<1> SUFFICES ASSUME PollerInv, [Next]_vars PROVE PollerInv'
  OBVIOUS
<1>1. ASSUME NEW watch \in Watches, GiveUpWatch(watch) PROVE PollerInv'
  BY <1>1, GiveUpWatch_Inv
<1>2. ASSUME NEW watch \in Watches, NEW fd \in FDs, NEW condition \in Conditions,
             SetWatch(watch, fd, condition)
      PROVE  PollerInv'
  BY <1>2, SetWatch_Inv
<1>3. ASSUME NEW fd \in FDs, Close(fd) \/ Open(fd) PROVE PollerInv'
  BY <1>3, Descriptor_Inv
<1>4. CASE TellEpoll
  BY <1>4, TellEpoll_Inv
<1>5. CASE Interrupted
  BY <1>5, Interrupted_Inv
<1>6. CASE QueueCalls
  BY <1>6, QueueCalls_Inv
<1>7. CASE DispatchCall
  BY <1>7, DispatchCall_Inv
<1>8. CASE EndRound
  BY <1>8, EndRound_Inv
<1>9. CASE ReadinessChanges
  BY <1>9, ReadinessChanges_Inv
<1>10. CASE UNCHANGED vars
  <2>1. UNCHANGED <<target, eventVars, kernelVars>> /\ UNCHANGED <<phase, calls>>
    BY <1>10 DEF vars
  <2>2. EventInv'
    BY <2>1, EventsSame DEF PollerInv
  <2> QED
    BY <2>1, <2>2 DEF PollerInv, QueuedStillSet, ToldBeforeWait, eventVars
<1> QED
  BY <1>1, <1>2, <1>3, <1>4, <1>5, <1>6, <1>7, <1>8, <1>9, <1>10 DEF Next

THEOREM Poller_Inv == Spec => []PollerInv
  BY Init_PollerInv, PollerNext_Inv, PTL DEF Spec

(* Type correctness of the poller.                                         *)
THEOREM IOPoller_TypeOK == Spec => []IOPollerTypeOK
  BY InvTypeOK, Poller_Inv, PTL

(* While the loop waits, epoll watches each descriptor for exactly what    *)
(* somebody waits for, and no descriptor without an event.                 *)
THEOREM IOPoller_EpollKnowsTheWatches == Spec => []EpollKnowsTheWatches
  BY InvEpollKnows, Poller_Inv, PTL

(* What the poller believes epoll knows is what epoll knows.               *)
THEOREM IOPoller_EpollAgrees == Spec => []EpollAgrees
<1>1. PollerInv => EpollAgrees
  BY DEF PollerInv, EventInv
<1> QED
  BY <1>1, Poller_Inv, PTL

(* An event epoll has to be told about, or to be freed, is on the dirty    *)
(* list, once.                                                             *)
THEOREM IOPoller_DirtyWhenChanged == Spec => []DirtyWhenChanged
<1>1. PollerInv => DirtyWhenChanged
  BY DEF PollerInv, EventInv
<1> QED
  BY <1>1, Poller_Inv, PTL

-----------------------------------------------------------------------------
LEMMA SameListings ==
    ASSUME NEW S
    PROVE  /\ Abstract!Cardinality(S) = Cardinality(S)
           /\ Abstract!SetToSeqs(S) = SetToSeqs(S)
<1>1. ASSUME NEW T PROVE Abstract!Cardinality(T) = Cardinality(T)
  BY DEF Abstract!Cardinality, Cardinality
<1> QED
  BY <1>1 DEF SetToSeqs, Abstract!SetToSeqs

(* What the fibers see of the poller is a watch service: a tick queues the *)
(* due watches of every descriptor, or of as many as epoll_wait returns at *)
(* most, no other and each once, and every one of them is still set when   *)
(* its callback is called.                                                 *)
THEOREM IOPoller_Refines == Spec => WatchServiceSpec
<1>1. Init => Abstract!Init
  BY DEF Init, Abstract!Init
<1>2. ASSUME PollerInv, [Next]_vars PROVE [Abstract!Next]_Abstract!vars
  <2>1. phase # "calls" => calls = <<>>
    BY <1>2 DEF PollerInv, QueuedStillSet
  <2>2. ASSUME NEW watch \in Watches, GiveUpWatch(watch)
        PROVE  calls = <<>> /\ Abstract!ClearWatch(watch)
    BY <2>1, <2>2 DEF GiveUpWatch, ClearWatch, kernelVars, Abstract!ClearWatch
  <2>3. ASSUME NEW watch \in Watches, NEW fd \in FDs, NEW condition \in Conditions,
               SetWatch(watch, fd, condition)
        PROVE  Abstract!SetWatch(watch, fd, condition)
    BY <2>1, <2>3 DEF SetWatch, kernelVars, Abstract!SetWatch
  <2>4. ASSUME NEW fd \in FDs, Close(fd) PROVE Abstract!Close(fd)
    <3>1. target' = [watch \in Watches |->
               IF watch \in Abstract!WatchesOf(fd) THEN NotSet ELSE target[watch]]
      BY <2>4 DEF Close, ClearWatches, Abstract!WatchesOf
    <3> QED
      BY <2>1, <2>4, <3>1 DEF Close, Abstract!Close
  <2>5. ASSUME NEW fd \in FDs, Open(fd) PROVE Abstract!Open(fd)
    BY <2>1, <2>5 DEF Open, Abstract!Open
  <2>6. CASE QueueCalls
    <3>1. PICK some \in SUBSET ReadyFDs :
             Returned(some) /\ \E fds \in SetToSeqs(some) : calls' = CallsOf(fds)
      BY <2>6 DEF QueueCalls
    <3>2. /\ calls' \in Seq(Watches) /\ IsInjective(calls')
          /\ ToSet(calls') = Abstract!DueAt(some)
      <4>1. some \in SUBSET FDs
        BY DEF ReadyFDs
      <4> QED
        BY <1>2, <3>1, <4>1, CallsQueued
    <3>3. calls' \in Seq(Abstract!DueAt(some))
      <4>1. calls' \in [1 .. Len(calls') -> Abstract!DueAt(some)] /\ Len(calls') \in Nat
        BY <3>2, LenProperties DEF ToSet
      <4> QED
        BY <4>1
    <3>4. calls' \in Abstract!SetToSeqs(Abstract!DueAt(some))
      BY <3>2, <3>3, SetOfList, SameListings
    <3>5. ReadyFDs = Abstract!DueFDs
      BY <1>2, <2>6, ReadyAreDue DEF QueueCalls
    <3>6. /\ some \in SUBSET Abstract!DueFDs
          /\ Abstract!Cardinality(some) <= MaxEvents
          /\ some # Abstract!DueFDs => Abstract!Cardinality(some) = MaxEvents
      BY <3>1, <3>5, SameListings DEF Returned
    <3>7. Abstract!Poll
      BY <2>1, <2>6, <3>4, <3>6 DEF QueueCalls, kernelVars, Abstract!Poll
    <3> QED
      BY <3>7 DEF Abstract!Next
  <2>7. CASE DispatchCall
    <3>1. Abstract!Dispatch
      BY <1>2, <2>7, CallDispatched DEF DispatchCall, kernelVars, Abstract!Dispatch
    <3> QED
      BY <3>1 DEF Abstract!Next
  <2>8. CASE ReadinessChanges
    <3>1. \E fd \in FDs : Abstract!ReadinessChanges(fd)
      BY <1>2, <2>8 DEF ReadinessChanges, Abstract!ReadinessChanges, Conditions,
                        Abstract!Conditions, PollerInv, EventInv, EventTypeOK
    <3> QED
      BY <3>1 DEF Abstract!Next
  <2>9. CASE TellEpoll \/ Interrupted \/ EndRound \/ UNCHANGED vars
    BY <2>9 DEF TellEpoll, Interrupted, EndRound, vars, kernelVars, Abstract!vars
  <2> QED
    BY <1>2, <2>2, <2>3, <2>4, <2>5, <2>6, <2>7, <2>8, <2>9
    DEF Next, Abstract!Next, Conditions, Abstract!Conditions
<1> QED
  BY <1>1, <1>2, Poller_Inv, PTL DEF Spec, WatchServiceSpec, Abstract!Spec

-----------------------------------------------------------------------------
(* The inductive invariant is stated of the two lists, the free slots and  *)
(* the blocks a step is given, since AllocateBlock may make a chunk before *)
(* it takes a block.                                                       *)
Free(free, chunk) == ToSet(free[chunk])
Used(taken, chunk) == {slot \in Slots : <<chunk, slot>> \in taken}

PoolTypeOK(usable, unusable, free, taken) ==
    /\ usable \in Seq(Chunks) /\ unusable \in Seq(Chunks)
    /\ free \in [Chunks -> Seq(Slots)]
    /\ taken \subseteq Chunks \X Slots

SlotsOK(usable, unusable, free, taken) ==
    \A chunk \in Chunks :
        /\ IsInjective(free[chunk])
        /\ chunk \in ToSet(usable) \cup ToSet(unusable)
              => Free(free, chunk) = Slots \ Used(taken, chunk)
        /\ chunk \notin ToSet(usable) \cup ToSet(unusable)
              => Free(free, chunk) = {} /\ Used(taken, chunk) = {}

ListsOK(usable, unusable, free) ==
    /\ IsInjective(usable) /\ IsInjective(unusable)
    /\ ToSet(usable) \cap ToSet(unusable) = {}
    /\ \A chunk \in ToSet(usable) : free[chunk] # <<>>
    /\ \A chunk \in ToSet(unusable) : free[chunk] = <<>>

(* No free chunk is behind one in use.                                     *)
FreeInFront(usable, free) ==
    \A i, j \in 1 .. Len(usable) :
        i < j /\ Full(free[usable[j]]) => Full(free[usable[i]])

PoolOK(usable, unusable, free, taken) ==
    /\ PoolTypeOK(usable, unusable, free, taken)
    /\ SlotsOK(usable, unusable, free, taken)
    /\ ListsOK(usable, unusable, free)
    /\ FreeInFront(usable, free)

MemoryPoolInv == PoolOK(usableChunkList, unusableChunkList, freeSlots, blocks)

-----------------------------------------------------------------------------
(* A slot of the chunk is one that begins behind the header.               *)
LEMMA SlotsCounted ==
    /\ SlotsPerChunk \in Nat \ {0} /\ SlotsPerChunk <= ChunkSize
    /\ \A slot \in Nat : Offset(slot) < HeaderSize <=> slot > SlotsPerChunk
<1> DEFINE p == ChunkSize - HeaderSize
           q == p \div BlockSize
<1>1. p \in Nat /\ BlockSize \in Nat \ {0} /\ BlockSize <= p /\ p <= ChunkSize
  BY MemoryPoolAssumption
<1>2. q \in Nat /\ q * BlockSize <= p /\ p < (q + 1) * BlockSize
  BY <1>1
<1>3. \A m, n \in Nat : m <= n <=> m * BlockSize <= n * BlockSize
  BY <1>1
<1>4. SlotsPerChunk = q
  BY DEF SlotsPerChunk
<1> HIDE DEF q
<1>5. q # 0
  BY <1>1, <1>2
<1>6. q <= ChunkSize
  <2>1. q <= q * BlockSize /\ q * BlockSize \in Nat
    BY <1>1, <1>2
  <2> HIDE DEF p
  <2> QED
    BY <1>1, <1>2, <2>1, MemoryPoolAssumption
<1>7. ASSUME NEW slot \in Nat PROVE Offset(slot) < HeaderSize <=> slot > q
  <2>1. Offset(slot) < HeaderSize <=> slot * BlockSize > p
    BY MemoryPoolAssumption DEF Offset
  <2>2. slot <= q => slot * BlockSize <= p
    BY <1>1, <1>2, <1>3
  <2>3. slot > q => slot * BlockSize > p
    <3>1. slot > q => (q + 1) * BlockSize <= slot * BlockSize
      BY <1>2, <1>3
    <3> QED
      BY <1>1, <1>2, <3>1
  <2>4. slot <= q \/ slot > q
    BY <1>2
  <2>5. ~(slot <= q /\ slot > q) /\ ~(slot * BlockSize <= p /\ slot * BlockSize > p)
    BY <1>1, <1>2
  <2> QED
    BY <2>1, <2>2, <2>3, <2>4, <2>5, Zenon
<1> HIDE DEF p
<1> QED
  BY <1>2, <1>4, <1>5, <1>6, <1>7

(* A new chunk has all its slots linked, from the end of the chunk to the  *)
(* header.                                                                 *)
LEMMA AllLinked == LinkedSlots = [i \in Slots |-> i]
<1> DEFINE body == [linked \in Seq(Nat) |-> LinkNext(linked)]
           reached(n) == IF n + 1 < SlotsPerChunk THEN n + 1 ELSE SlotsPerChunk
           upTo(m) == [i \in 1 .. m |-> i]
           P == [n \in 0 .. ChunkSize |-> {upTo(reached(n))}]
<1>1. /\ SlotsPerChunk \in Nat \ {0} /\ SlotsPerChunk <= ChunkSize /\ ChunkSize \in Nat
      /\ \A slot \in Nat : Offset(slot) < HeaderSize <=> slot > SlotsPerChunk
  BY SlotsCounted, MemoryPoolAssumption
<1>2. \A m \in Nat : upTo(m) \in Seq(Nat) /\ Len(upTo(m)) = m
  OBVIOUS
<1>3. \A m \in Nat : Append(upTo(m), m + 1) = upTo(m + 1)
  <2> SUFFICES ASSUME NEW m \in Nat PROVE Append(upTo(m), m + 1) = upTo(m + 1)
    OBVIOUS
  <2>1. Append(upTo(m), m + 1) = [i \in 1 .. m + 1 |-> IF i = m + 1 THEN m + 1 ELSE upTo(m)[i]]
    BY <1>2
  <2> QED
    BY <2>1
<1> HIDE DEF upTo
<1>4. <<1>> \in P[0]
  <2>1. reached(0) = 1 /\ 0 \in 0 .. ChunkSize
    BY <1>1
  <2>2. upTo(1) = <<1>>
    BY DEF upTo
  <2> QED
    BY <2>1, <2>2
<1>5. ASSUME NEW n \in 0 .. ChunkSize, n # ChunkSize, NEW s \in P[n]
      PROVE  body[s] \in P[n + 1]
  <2> DEFINE m == reached(n)
  <2>1. m \in Nat /\ s = upTo(m) /\ n + 1 \in 0 .. ChunkSize
    BY <1>1, <1>5
  <2>2. body[s] = IF m + 1 > SlotsPerChunk THEN s ELSE upTo(m + 1)
    <3>1. s \in Seq(Nat) /\ Len(s) = m /\ m + 1 \in Nat /\ Append(s, m + 1) = upTo(m + 1)
      <4> HIDE DEF m, P, body, reached
      <4>1. upTo(m) \in Seq(Nat) /\ Len(upTo(m)) = m
        BY <1>2, <2>1
      <4>2. Append(upTo(m), m + 1) = upTo(m + 1)
        BY <1>3, <2>1
      <4> QED
        BY <2>1, <4>1, <4>2
    <3>2. Offset(m + 1) < HeaderSize <=> m + 1 > SlotsPerChunk
      BY <1>1, <3>1
    <3> HIDE DEF m
    <3> QED
      BY <3>1, <3>2 DEF LinkNext
  <2>3. reached(n + 1) = IF m + 1 > SlotsPerChunk THEN m ELSE m + 1
    BY <1>1
  <2>4. P[n + 1] = {upTo(reached(n + 1))}
    BY <2>1
  <2> HIDE DEF m, P, reached, body
  <2> QED
    BY <2>1, <2>2, <2>3, <2>4
<1>6. reached(ChunkSize) = SlotsPerChunk /\ ChunkSize \in 0 .. ChunkSize
  BY <1>1
<1>7. P[ChunkSize] = {upTo(SlotsPerChunk)}
  BY <1>6
<1> HIDE DEF P, reached
<1>8. Repeated(body, <<1>>, ChunkSize) \in P[ChunkSize]
  <2> HIDE DEF body
  <2> QED
    BY <1>1, <1>4, <1>5, RepeatedKeeps
<1> QED
  BY <1>7, <1>8 DEF LinkedSlots, upTo, Slots

(* A chunk has at most as many free slots as it has slots, and with that   *)
(* many nobody has a block of it.                                          *)
LEMMA SlotsFit ==
    ASSUME NEW s \in Seq(Slots), IsInjective(s)
    PROVE  /\ Len(s) \in 0 .. SlotsPerChunk
           /\ Full(s) => ToSet(s) = Slots
BY ListFits, SlotsCounted DEF Slots, Full

LEMMA InvMeans ==
    ASSUME MemoryPoolInv
    PROVE  MemoryPoolTypeOK /\ SlotsAccountedFor /\ ChunkOnRightList
<1>1. /\ usableChunkList \in Seq(Chunks) /\ unusableChunkList \in Seq(Chunks)
      /\ freeSlots \in [Chunks -> Seq(Slots)] /\ blocks \subseteq Chunks \X Slots
  BY DEF MemoryPoolInv, PoolOK, PoolTypeOK
<1>2. MemoryPoolTypeOK
  BY <1>1 DEF MemoryPoolTypeOK
<1>3. SlotsAccountedFor
  BY DEF MemoryPoolInv, PoolOK, SlotsOK, SlotsAccountedFor, Held, Free, Used
<1>4. IsInjective(usableChunkList \o unusableChunkList)
  BY <1>1, ListConcat DEF MemoryPoolInv, PoolOK, ListsOK
<1>5. /\ ToSet(usableChunkList) \subseteq Chunks
      /\ ToSet(unusableChunkList) \subseteq Chunks
  BY <1>1, ListEmpty
<1>6. ASSUME NEW chunk \in Chunks
      PROVE  /\ freeSlots[chunk] # <<>> => Len(freeSlots[chunk]) > 0
             /\ freeSlots[chunk] = <<>> => Len(freeSlots[chunk]) = 0
  BY <1>1, EmptySeq
<1>7. ChunkOnRightList
  BY <1>4, <1>5, <1>6
  DEF MemoryPoolInv, PoolOK, ListsOK, ChunkOnRightList, numberOfFreeSlots
<1> QED
  BY <1>2, <1>3, <1>7

(* Taking the next free slot of the last usable chunk.                     *)
LEMMA TakeBlock_Inv ==
    ASSUME NEW usable, NEW free, usable # <<>>,
           PoolOK(usable, unusableChunkList, free, blocks),
           TakeBlock(usable, free)
    PROVE  MemoryPoolInv'
<1> DEFINE chunk == Last(usable)
           slot == Head(free[chunk])
           left == Tail(free[chunk])
<1>1. /\ usable \in Seq(Chunks) /\ unusableChunkList \in Seq(Chunks)
      /\ free \in [Chunks -> Seq(Slots)] /\ blocks \subseteq Chunks \X Slots
      /\ IsInjective(usable) /\ IsInjective(unusableChunkList)
      /\ ToSet(usable) \cap ToSet(unusableChunkList) = {}
  BY DEF PoolOK, PoolTypeOK, ListsOK
<1>2. /\ chunk \in Chunks /\ Front(usable) \in Seq(Chunks)
      /\ ToSet(usable) = ToSet(Front(usable)) \cup {chunk}
      /\ IsInjective(Front(usable)) /\ chunk \notin ToSet(Front(usable))
  BY <1>1, ListTakeBack
<1>3. PICK c \in Chunks : c = chunk
  BY <1>2
<1>4. /\ free[c] # <<>> /\ free[c] \in Seq(Slots) /\ IsInjective(free[c])
      /\ c \in ToSet(usable) /\ c \notin ToSet(unusableChunkList)
      /\ Free(free, c) = Slots \ Used(blocks, c)
  BY <1>1, <1>2, <1>3 DEF PoolOK, ListsOK, SlotsOK
<1>5. /\ slot \in Slots /\ left \in Seq(Slots)
      /\ Free(free, c) = ToSet(left) \cup {slot}
      /\ IsInjective(left) /\ slot \notin ToSet(left)
  BY <1>3, <1>4, ListTakeFront DEF Free
<1> HIDE DEF slot, left
<1>6. /\ Len(left) = Len(free[c]) - 1 /\ Len(free[c]) \in 1 .. SlotsPerChunk
      /\ left = <<>> <=> Len(free[c]) = 1
  <2>1. Len(free[c]) \in 0 .. SlotsPerChunk
    BY <1>4, SlotsFit
  <2>2. Len(free[c]) \in Nat \ {0}
    BY <1>4, EmptySeq
  <2>3. Len(left) = Len(free[c]) - 1
    BY <1>3, <1>4, HeadTailProperties DEF left
  <2>4. left = <<>> <=> Len(left) = 0
    BY <1>5, EmptySeq
  <2> QED
    BY <2>1, <2>2, <2>3, <2>4, SlotsCounted
<1>7. /\ blocks' = blocks \cup {<<c, slot>>}
      /\ freeSlots' = [free EXCEPT ![c] = left]
      /\ IF left = <<>>
         THEN /\ usableChunkList' = Front(usable)
              /\ unusableChunkList' = Append(unusableChunkList, c)
         ELSE /\ usableChunkList' = usable
              /\ unusableChunkList' = unusableChunkList
  BY <1>3, <1>6 DEF TakeBlock, slot, left
<1>8. /\ freeSlots' \in [Chunks -> Seq(Slots)] /\ freeSlots'[c] = left
      /\ \A d \in Chunks : d # c => freeSlots'[d] = free[d]
      /\ ~Full(freeSlots'[c])
  BY <1>1, <1>5, <1>6, <1>7, SlotsCounted DEF Full
<1>9. /\ Used(blocks', c) = Used(blocks, c) \cup {slot}
      /\ \A d \in Chunks : d # c => Used(blocks', d) = Used(blocks, d)
  BY <1>5, <1>7 DEF Used
<1>10. /\ usableChunkList' \in Seq(Chunks) /\ IsInjective(usableChunkList')
       /\ unusableChunkList' \in Seq(Chunks) /\ IsInjective(unusableChunkList')
       /\ ToSet(usableChunkList') = IF left = <<>> THEN ToSet(usable) \ {c}
                                                   ELSE ToSet(usable)
       /\ ToSet(unusableChunkList') = IF left = <<>> THEN ToSet(unusableChunkList) \cup {c}
                                                     ELSE ToSet(unusableChunkList)
  <2>1. CASE left = <<>>
    <3>1. /\ usableChunkList' = Front(usable)
          /\ unusableChunkList' = Append(unusableChunkList, c)
      BY <1>7, <2>1
    <3>2. /\ unusableChunkList' \in Seq(Chunks) /\ IsInjective(unusableChunkList')
          /\ ToSet(unusableChunkList') = ToSet(unusableChunkList) \cup {c}
      BY <1>1, <1>4, <3>1, ListInsertBack
    <3> QED
      BY <1>2, <1>3, <2>1, <3>1, <3>2
  <2>2. CASE left # <<>>
    BY <1>1, <1>7, <2>2
  <2> QED
    BY <2>1, <2>2
<1>11. PoolTypeOK(usableChunkList', unusableChunkList', freeSlots', blocks')
  <2>1. blocks' \subseteq Chunks \X Slots
    BY <1>1, <1>5, <1>7
  <2> QED
    BY <1>8, <1>10, <2>1 DEF PoolTypeOK
<1>12. SlotsOK(usableChunkList', unusableChunkList', freeSlots', blocks')
  <2>1. ToSet(usableChunkList') \cup ToSet(unusableChunkList')
           = ToSet(usable) \cup ToSet(unusableChunkList)
    BY <1>4, <1>10
  <2>2. ToSet(left) = Slots \ Used(blocks', c)
    BY <1>4, <1>5, <1>9
  <2> QED
    BY <1>4, <1>5, <1>8, <1>9, <2>1, <2>2 DEF PoolOK, SlotsOK, Free
<1>13. ListsOK(usableChunkList', unusableChunkList', freeSlots')
  <2>1. ToSet(usable) \subseteq Chunks /\ ToSet(unusableChunkList) \subseteq Chunks
    BY <1>1, ListEmpty
  <2> QED
    BY <1>1, <1>4, <1>8, <1>10, <2>1 DEF PoolOK, ListsOK
<1>14. FreeInFront(usableChunkList', freeSlots')
  <2>1. /\ Len(usable) \in Nat \ {0} /\ \A i \in 1 .. Len(usable) : usable[i] \in Chunks
        /\ c = usable[Len(usable)]
        /\ \A i, j \in 1 .. Len(usable) : usable[i] = usable[j] => i = j
    BY <1>1, <1>3, EmptySeq, LenProperties, ElementOfSeq DEF Last, IsInjective
  <2>2. /\ Len(usableChunkList') <= Len(usable) /\ Len(usableChunkList') \in Nat
        /\ \A i \in 1 .. Len(usableChunkList') : usableChunkList'[i] = usable[i]
    <3>1. CASE left = <<>>
      <4>1. /\ Len(Front(usable)) = Len(usable) - 1
            /\ \A i \in 1 .. Len(usable) - 1 : Front(usable)[i] = usable[i]
        BY <1>1, ListTakeBackItems
      <4> QED
        BY <1>7, <2>1, <3>1, <4>1
    <3>2. CASE left # <<>>
      BY <1>7, <2>1, <3>2
    <3> QED
      BY <3>1, <3>2
  <2> SUFFICES ASSUME NEW i \in 1 .. Len(usableChunkList'),
                      NEW j \in 1 .. Len(usableChunkList'),
                      i < j, Full(freeSlots'[usableChunkList'[j]])
               PROVE  Full(freeSlots'[usableChunkList'[i]])
    BY DEF FreeInFront
  <2>3. /\ i \in 1 .. Len(usable) /\ j \in 1 .. Len(usable) /\ i # Len(usable)
        /\ usableChunkList'[i] = usable[i] /\ usableChunkList'[j] = usable[j]
    BY <2>1, <2>2
  <2>4. usable[i] # c /\ usable[j] # c
    BY <1>8, <2>1, <2>3
  <2>5. Full(free[usable[j]])
    BY <1>8, <2>1, <2>3, <2>4
  <2>6. Full(free[usable[i]])
    BY <2>3, <2>5 DEF PoolOK, FreeInFront
  <2> QED
    BY <1>8, <2>1, <2>3, <2>4, <2>6
<1> QED
  BY <1>11, <1>12, <1>13, <1>14 DEF MemoryPoolInv, PoolOK

(* A block is taken from a usable chunk, or from a new one all of whose    *)
(* slots are free.                                                         *)
LEMMA AllocateBlock_Inv == ASSUME MemoryPoolInv, AllocateBlock PROVE MemoryPoolInv'
<1>1. CASE usableChunkList # <<>> /\ TakeBlock(usableChunkList, freeSlots)
  BY <1>1, TakeBlock_Inv DEF MemoryPoolInv
<1>2. ASSUME usableChunkList = <<>>, NEW chunk \in Chunks \ Held,
             TakeBlock(<<chunk>>, [freeSlots EXCEPT ![chunk] = LinkedSlots])
      PROVE  MemoryPoolInv'
  <2> DEFINE all == [i \in Slots |-> i]
             free == [freeSlots EXCEPT ![chunk] = all]
  <2>1. /\ unusableChunkList \in Seq(Chunks) /\ IsInjective(unusableChunkList)
        /\ freeSlots \in [Chunks -> Seq(Slots)] /\ blocks \subseteq Chunks \X Slots
        /\ ToSet(unusableChunkList) \subseteq Chunks
    BY ListEmpty DEF MemoryPoolInv, PoolOK, PoolTypeOK, ListsOK
  <2>2. chunk \notin ToSet(unusableChunkList) /\ ToSet(usableChunkList) = {}
    BY <1>2, ListEmpty DEF Held, MemoryPoolInv, PoolOK, PoolTypeOK
  <2>3. /\ all \in Seq(Slots) /\ IsInjective(all) /\ ToSet(all) = Slots /\ all # <<>>
    <3>1. all \in [1 .. SlotsPerChunk -> Slots] /\ DOMAIN all = 1 .. SlotsPerChunk
      BY SlotsCounted DEF Slots
    <3>2. all \in Seq(Slots)
      BY <3>1, SlotsCounted
    <3>3. IsInjective(all)
      BY <3>1, SlotsCounted DEF IsInjective, Slots
    <3>4. ASSUME NEW slot \in Slots PROVE slot \in ToSet(all)
      <4>1. all[slot] = slot
        OBVIOUS
      <4> QED
        BY <3>1, <4>1 DEF ToSet, Slots
    <3>5. ToSet(all) \subseteq Slots
      BY <3>2, ListEmpty
    <3>6. 1 \in Slots
      BY SlotsCounted DEF Slots
    <3>7. all # <<>>
      BY <3>4, <3>6, <3>2, ListEmpty
    <3> QED
      BY <3>2, <3>3, <3>4, <3>5, <3>7
  <2> HIDE DEF all
  <2>4. /\ free \in [Chunks -> Seq(Slots)] /\ free[chunk] = all
        /\ \A d \in Chunks : d # chunk => free[d] = freeSlots[d]
    BY <2>1, <2>3
  <2> HIDE DEF free
  <2>5. /\ <<chunk>> \in Seq(Chunks) /\ <<chunk>> # <<>> /\ Len(<<chunk>>) = 1
        /\ IsInjective(<<chunk>>) /\ ToSet(<<chunk>>) = {chunk}
    BY DEF IsInjective, ToSet
  <2>6. PoolTypeOK(<<chunk>>, unusableChunkList, free, blocks)
    BY <2>1, <2>4, <2>5 DEF PoolTypeOK
  <2>7. SlotsOK(<<chunk>>, unusableChunkList, free, blocks)
    <3>1. Used(blocks, chunk) = {}
      BY <2>2 DEF MemoryPoolInv, PoolOK, SlotsOK
    <3> QED
      BY <2>2, <2>3, <2>4, <2>5, <3>1 DEF MemoryPoolInv, PoolOK, SlotsOK, Free
  <2>8. ListsOK(<<chunk>>, unusableChunkList, free)
    BY <2>1, <2>2, <2>3, <2>4, <2>5 DEF MemoryPoolInv, PoolOK, ListsOK
  <2>9. FreeInFront(<<chunk>>, free)
    BY <2>5 DEF FreeInFront
  <2>10. TakeBlock(<<chunk>>, free)
    BY <1>2, AllLinked DEF free, all
  <2> QED
    BY <2>5, <2>6, <2>7, <2>8, <2>9, <2>10, TakeBlock_Inv DEF PoolOK
<1> QED
  BY <1>1, <1>2 DEF AllocateBlock

(* A freed slot is linked in front of its chunk's.  The chunk goes where   *)
(* no free chunk is behind one in use: at the back with its first free     *)
(* slot, since every usable chunk is free when chunks have one slot, and   *)
(* to the front with its last, unless the chunk before it is free.         *)
LEMMA FreeBlock_Inv ==
    ASSUME MemoryPoolInv, NEW block \in blocks, FreeBlock(block)
    PROVE  MemoryPoolInv'
<1> DEFINE usable == usableChunkList
           unusable == unusableChunkList
<1>1. /\ usable \in Seq(Chunks) /\ unusable \in Seq(Chunks)
      /\ freeSlots \in [Chunks -> Seq(Slots)] /\ blocks \subseteq Chunks \X Slots
      /\ IsInjective(usable) /\ IsInjective(unusable)
      /\ ToSet(usable) \cap ToSet(unusable) = {}
      /\ ToSet(usable) \subseteq Chunks /\ ToSet(unusable) \subseteq Chunks
  BY ListEmpty DEF MemoryPoolInv, PoolOK, PoolTypeOK, ListsOK
<1>2. PICK c \in Chunks, s \in Slots : block = <<c, s>>
  BY <1>1
<1> DEFINE free == freeSlots[c]
           more == Cons(s, free)
<1>3. /\ free \in Seq(Slots) /\ IsInjective(free)
      /\ s \in Used(blocks, c) /\ c \in ToSet(usable) \cup ToSet(unusable)
      /\ ToSet(free) = Slots \ Used(blocks, c)
  BY <1>1, <1>2 DEF MemoryPoolInv, PoolOK, SlotsOK, Free, Used
<1>4. /\ more \in Seq(Slots) /\ IsInjective(more) /\ Len(more) = Len(free) + 1
      /\ ToSet(more) = Slots \ (Used(blocks, c) \ {s})
  <2>1. s \notin ToSet(free)
    BY <1>3
  <2> HIDE DEF free
  <2>2. /\ more \in Seq(Slots) /\ IsInjective(more)
        /\ ToSet(more) = ToSet(free) \cup {s}
    BY <1>3, <2>1, ListInsertFront
  <2>3. Len(more) = Len(free) + 1
    BY <1>3, ListInsertFrontItems
  <2> QED
    BY <1>3, <2>2, <2>3
<1>5. /\ Len(more) \in 1 .. SlotsPerChunk /\ Len(free) \in Nat /\ ~Full(free)
      /\ more # <<>> /\ Len(more) = 1 <=> free = <<>>
  <2>1. Len(more) \in 0 .. SlotsPerChunk /\ Len(free) \in Nat
    BY <1>3, <1>4, SlotsFit, LenProperties
  <2>2. free = <<>> <=> Len(free) = 0
    BY <1>3, EmptySeq
  <2>3. Len(<<>>) = 0
    OBVIOUS
  <2> HIDE DEF free, more
  <2> QED
    BY <1>4, <2>1, <2>2, <2>3, SlotsCounted DEF Full
<1> HIDE DEF more
<1>6. /\ blocks' = blocks \ {block}
      /\ freeSlots' = [freeSlots EXCEPT ![c] = more]
  BY <1>2 DEF FreeBlock, more
<1>7. /\ freeSlots' \in [Chunks -> Seq(Slots)] /\ freeSlots'[c] = more
      /\ \A d \in Chunks : d # c => freeSlots'[d] = freeSlots[d]
  BY <1>1, <1>4, <1>6
<1>8. /\ blocks' \subseteq Chunks \X Slots
      /\ Used(blocks', c) = Used(blocks, c) \ {s}
      /\ \A d \in Chunks : d # c => Used(blocks', d) = Used(blocks, d)
  BY <1>1, <1>2, <1>6 DEF Used
<1>9. /\ free = <<>> => c \in ToSet(unusable) /\ c \notin ToSet(usable)
      /\ free # <<>> => c \in ToSet(usable) /\ c \notin ToSet(unusable)
  BY <1>1, <1>3 DEF MemoryPoolInv, PoolOK, ListsOK
<1>10. \A d \in Chunks : Full(freeSlots[d]) => d # c /\ Full(freeSlots'[d])
  BY <1>5, <1>7
<1>11. \A d \in Chunks : d # c /\ Full(freeSlots'[d]) => Full(freeSlots[d])
  BY <1>7
<1>12. /\ Len(usable) \in Nat /\ \A i \in 1 .. Len(usable) : usable[i] \in Chunks
       /\ \A i \in 1 .. Len(usable) : usable[i] \in ToSet(usable)
       /\ \A i, j \in 1 .. Len(usable) : usable[i] = usable[j] => i = j
  BY <1>1, LenProperties, ElementOfSeq DEF IsInjective, ToSet
<1>13. \A i, j \in 1 .. Len(usable) :
          i < j /\ Full(freeSlots[usable[j]]) => Full(freeSlots[usable[i]])
  BY DEF MemoryPoolInv, PoolOK, FreeInFront
<1> DEFINE InFront == \E i \in DOMAIN usable :
               usable[i] = c /\ (i > 1 => Full(freeSlots[usable[i - 1]]))
<1>14. \/ /\ free = <<>>
          /\ unusable' = RemoveFirst(unusable, c) /\ usable' = Append(usable, c)
       \/ /\ free # <<>> /\ (Full(more) => InFront)
          /\ usable' = usable /\ unusable' = unusable
       \/ /\ free # <<>> /\ Full(more)
          /\ usable' = Cons(c, RemoveFirst(usable, c)) /\ unusable' = unusable
  BY <1>2, <1>5 DEF FreeBlock, more
<1>15. /\ usable' \in Seq(Chunks) /\ IsInjective(usable')
       /\ unusable' \in Seq(Chunks) /\ IsInjective(unusable')
       /\ ToSet(usable') = ToSet(usable) \cup {c}
       /\ ToSet(unusable') = ToSet(unusable) \ {c}
       /\ FreeInFront(usable', freeSlots')
  <2> HIDE DEF free, InFront
  <2>1. CASE /\ free = <<>>
             /\ unusable' = RemoveFirst(unusable, c) /\ usable' = Append(usable, c)
    <3>1. /\ usable' \in Seq(Chunks) /\ IsInjective(usable')
          /\ ToSet(usable') = ToSet(usable) \cup {c}
      BY <1>1, <1>9, <2>1, ListInsertBack
    <3>2. /\ unusable' \in Seq(Chunks) /\ IsInjective(unusable')
          /\ ToSet(unusable') = ToSet(unusable) \ {c}
      BY <1>1, <1>9, <2>1, ListRemove
    <3>3. /\ Len(usable') = Len(usable) + 1 /\ usable'[Len(usable) + 1] = c
          /\ \A i \in 1 .. Len(usable) : usable'[i] = usable[i]
      BY <1>1, <2>1, AppendProperties
    <3>4. ASSUME NEW i \in 1 .. Len(usable'), NEW j \in 1 .. Len(usable'),
                 i < j, Full(freeSlots'[usable'[j]])
          PROVE  Full(freeSlots'[usable'[i]])
      <4>1. i \in 1 .. Len(usable) /\ usable'[i] = usable[i]
        BY <1>12, <3>3, <3>4
      <4>2. CASE j \in 1 .. Len(usable)
        <5>1. usable[j] # c /\ usable'[j] = usable[j]
          BY <1>9, <1>12, <2>1, <3>3, <4>2
        <5>2. Full(freeSlots[usable[j]])
          BY <1>11, <1>12, <3>4, <4>2, <5>1
        <5>3. Full(freeSlots[usable[i]])
          BY <1>13, <3>4, <4>1, <4>2, <5>2
        <5> QED
          BY <1>10, <1>12, <4>1, <5>3
      <4>3. CASE j = Len(usable) + 1
        <5>1. Full(more) /\ Len(more) = 1
          BY <1>5, <1>7, <2>1, <3>3, <3>4, <4>3
        <5>2. SlotsPerChunk = 1
          BY <5>1 DEF Full
        <5>3. PICK d \in Chunks : d = usable[i]
          BY <1>12, <4>1
        <5>4. d \in ToSet(usable) /\ freeSlots[d] # <<>> /\ freeSlots[d] \in Seq(Slots)
              /\ IsInjective(freeSlots[d])
          BY <1>1, <1>12, <4>1, <5>3 DEF MemoryPoolInv, PoolOK, ListsOK, SlotsOK
        <5>5. Len(freeSlots[d]) \in 0 .. SlotsPerChunk /\ Len(freeSlots[d]) # 0
          BY <5>4, SlotsFit, EmptySeq
        <5>6. Full(freeSlots[d])
          BY <5>2, <5>5 DEF Full
        <5> QED
          BY <1>10, <4>1, <5>3, <5>6
      <4> QED
        BY <1>12, <3>3, <4>2, <4>3
    <3> QED
      BY <3>1, <3>2, <3>4 DEF FreeInFront
  <2>2. CASE /\ free # <<>> /\ (Full(more) => InFront)
             /\ usable' = usable /\ unusable' = unusable
    <3>1. ASSUME NEW i \in 1 .. Len(usable), NEW j \in 1 .. Len(usable),
                 i < j, Full(freeSlots'[usable[j]])
          PROVE  Full(freeSlots'[usable[i]])
      <4>1. CASE usable[j] # c
        BY <1>10, <1>11, <1>12, <1>13, <3>1, <4>1
      <4>2. CASE usable[j] = c
        <5>1. PICK k \in 1 .. Len(usable) :
                 usable[k] = c /\ (k > 1 => Full(freeSlots[usable[k - 1]]))
          BY <1>1, <1>7, <2>2, <3>1, <4>2, LenProperties DEF InFront
        <5>2. k = j /\ j > 1 /\ j - 1 \in 1 .. Len(usable) /\ (i = j - 1 \/ i < j - 1)
          BY <1>12, <3>1, <4>2, <5>1
        <5>3. Full(freeSlots[usable[i]])
          BY <1>13, <5>1, <5>2
        <5> QED
          BY <1>10, <1>12, <5>3
      <4> QED
        BY <4>1, <4>2
    <3>2. FreeInFront(usable', freeSlots')
      BY <2>2, <3>1 DEF FreeInFront
    <3> QED
      BY <1>1, <1>9, <2>2, <3>2
  <2>3. CASE /\ free # <<>> /\ Full(more)
             /\ usable' = Cons(c, RemoveFirst(usable, c)) /\ unusable' = unusable
    <3> DEFINE others == RemoveFirst(usable, c)
    <3>1. /\ others \in Seq(Chunks) /\ IsInjective(others)
          /\ ToSet(others) = ToSet(usable) \ {c}
      BY <1>1, <1>9, <2>3, ListRemove
    <3>2. PICK k \in 1 .. Len(usable) :
             /\ usable[k] = c /\ Len(others) = Len(usable) - 1
             /\ \A i \in 1 .. Len(usable) - 1 :
                   others[i] = IF i < k THEN usable[i] ELSE usable[i + 1]
      BY <1>1, <1>9, <2>3, ListRemoved
    <3> HIDE DEF others
    <3>3. usable' = Cons(c, others)
      BY <2>3 DEF others
    <3>4. /\ usable' \in Seq(Chunks) /\ IsInjective(usable')
          /\ ToSet(usable') = ToSet(usable) \cup {c}
      BY <3>1, <3>3, ListInsertFront
    <3>5. /\ Len(usable') = Len(usable) /\ usable'[1] = c
          /\ \A i \in 1 .. Len(usable) - 1 : usable'[i + 1] = others[i]
      <4>1. /\ Len(usable') = Len(others) + 1 /\ usable'[1] = c
            /\ \A i \in 1 .. Len(others) : usable'[i + 1] = others[i]
        BY <3>1, <3>3, ListInsertFrontItems
      <4> QED
        BY <1>12, <3>2, <4>1
    <3>6. ASSUME NEW i \in 1 .. Len(usable), NEW j \in 1 .. Len(usable),
                 i < j, Full(freeSlots'[usable'[j]])
          PROVE  Full(freeSlots'[usable'[i]])
      <4>1. CASE i = 1
        BY <1>7, <2>3, <3>5, <4>1
      <4>2. CASE i # 1
        <5> DEFINE was(n) == IF n - 1 < k THEN n - 1 ELSE n
        <5>1. ASSUME NEW n \in 2 .. Len(usable)
              PROVE  was(n) \in 1 .. Len(usable) /\ was(n) # k /\ usable'[n] = usable[was(n)]
          <6>1. n - 1 \in 1 .. Len(usable) - 1 /\ n = (n - 1) + 1
            BY <1>12
          <6>2. usable'[n] = others[n - 1]
            BY <3>5, <6>1
          <6>3. others[n - 1] = IF n - 1 < k THEN usable[n - 1] ELSE usable[n]
            BY <3>2, <6>1
          <6> QED
            BY <1>12, <6>1, <6>2, <6>3
        <5>2. i \in 2 .. Len(usable) /\ j \in 2 .. Len(usable) /\ was(i) < was(j)
          BY <1>12, <3>6, <4>2
        <5> HIDE DEF was
        <5>3. usable[was(j)] # c
          BY <1>12, <3>2, <5>1, <5>2
        <5>4. Full(freeSlots[usable[was(j)]])
          BY <1>11, <1>12, <3>6, <5>1, <5>2, <5>3
        <5>5. Full(freeSlots[usable[was(i)]])
          BY <1>13, <5>1, <5>2, <5>4
        <5> QED
          BY <1>10, <1>12, <5>1, <5>2, <5>5
      <4> QED
        BY <4>1, <4>2
    <3>7. FreeInFront(usable', freeSlots')
      BY <3>5, <3>6 DEF FreeInFront
    <3> QED
      BY <1>1, <1>9, <2>3, <3>4, <3>7
  <2> QED
    BY <1>14, <2>1, <2>2, <2>3
<1>16. SlotsOK(usable', unusable', freeSlots', blocks')
  <2>1. ToSet(usable') \cup ToSet(unusable') = ToSet(usable) \cup ToSet(unusable)
    BY <1>3, <1>15
  <2> HIDE DEF usable, unusable, free
  <2>2. ASSUME NEW d \in Chunks, d # c
        PROVE  /\ IsInjective(freeSlots'[d]) /\ Used(blocks', d) = Used(blocks, d)
               /\ Free(freeSlots', d) = Free(freeSlots, d)
    BY <1>7, <1>8, <2>2 DEF MemoryPoolInv, PoolOK, SlotsOK, Free
  <2>3. /\ IsInjective(freeSlots'[c])
        /\ Free(freeSlots', c) = Slots \ Used(blocks', c)
    BY <1>4, <1>7, <1>8 DEF Free
  <2>4. SlotsOK(usable, unusable, freeSlots, blocks)
    BY DEF MemoryPoolInv, PoolOK, usable, unusable
  <2> QED
    BY <1>3, <2>1, <2>2, <2>3, <2>4 DEF SlotsOK
<1>17. ListsOK(usable', unusable', freeSlots')
  BY <1>1, <1>5, <1>7, <1>15 DEF MemoryPoolInv, PoolOK, ListsOK
<1> QED
  BY <1>7, <1>8, <1>15, <1>16, <1>17 DEF MemoryPoolInv, PoolOK, PoolTypeOK

(* ShrinkToFit takes chunks from the front of the usable list, all of them *)
(* free, up to the first that is not.                                      *)
LEMMA ShrinkToFit_Facts ==
    ASSUME MemoryPoolInv, ShrinkToFit
    PROVE  \E freed \in 0 .. Len(usableChunkList) :
              LET gone == {usableChunkList[i] : i \in 1 .. freed} IN
              /\ usableChunkList' =
                    SubSeq(usableChunkList, freed + 1, Len(usableChunkList))
              /\ freeSlots' = [chunk \in Chunks |->
                                  IF chunk \in gone THEN <<>> ELSE freeSlots[chunk]]
              /\ unusableChunkList' = unusableChunkList /\ blocks' = blocks
              /\ \A chunk \in gone : chunk \in Chunks /\ Full(freeSlots[chunk])
              /\ freed # Len(usableChunkList)
                    => ~Full(freeSlots[usableChunkList[freed + 1]])
<1> DEFINE usable == usableChunkList
           n == Len(usable)
           I == {i \in 1 .. Len(usable) : numberOfFreeSlots(usable[i]) < SlotsPerChunk}
           kept == SelectInSeq(usable, LAMBDA chunk : numberOfFreeSlots(chunk) < SlotsPerChunk)
           freed == IF kept = 0 THEN n ELSE kept - 1
<1>1. /\ usable \in Seq(Chunks) /\ freeSlots \in [Chunks -> Seq(Slots)]
      /\ n \in Nat
      /\ \A i \in 1 .. n : usable[i] \in Chunks
  BY LenProperties, ElementOfSeq DEF MemoryPoolInv, PoolOK, PoolTypeOK
<1>2. kept = IF I # {} THEN Min(I) ELSE 0
  BY DEF SelectInSeq
<1>3. /\ usableChunkList' = SubSeq(usable, freed + 1, n)
      /\ freeSlots' = [chunk \in Chunks |->
             IF chunk \in {usable[i] : i \in 1 .. freed} THEN <<>> ELSE freeSlots[chunk]]
      /\ unusableChunkList' = unusableChunkList /\ blocks' = blocks
  BY DEF ShrinkToFit
<1> HIDE DEF kept
<1>4. ASSUME NEW i \in 1 .. n
      PROVE  i \in I <=> ~Full(freeSlots[usable[i]])
  <2>1. IsInjective(freeSlots[usable[i]]) /\ freeSlots[usable[i]] \in Seq(Slots)
    BY <1>1 DEF MemoryPoolInv, PoolOK, SlotsOK
  <2>2. Len(freeSlots[usable[i]]) \in 0 .. SlotsPerChunk
    BY <2>1, SlotsFit
  <2> QED
    BY <1>1, <2>2, SlotsCounted DEF numberOfFreeSlots, Full
<1>5. I \in SUBSET (1 .. n)
  BY <1>1
<1> HIDE DEF I
<1>6. /\ freed \in 0 .. n /\ \A i \in 1 .. freed : i \notin I
      /\ freed # n => freed + 1 \in I
  BY <1>1, <1>2, <1>5, FirstFound
<1> HIDE DEF freed, n
<1>7. \A i \in 1 .. freed : usable[i] \in Chunks /\ Full(freeSlots[usable[i]])
  BY <1>1, <1>4, <1>6
<1>8. freed # n => ~Full(freeSlots[usable[freed + 1]])
  BY <1>1, <1>4, <1>6
<1> QED
  BY <1>3, <1>6, <1>7, <1>8 DEF n

(* None of the chunks that stay is free, since no free chunk is behind one *)
(* in use.                                                                 *)
LEMMA ShrinkToFit_Keeps ==
    ASSUME MemoryPoolInv, ShrinkToFit
    PROVE  /\ MemoryPoolInv'
           /\ \A chunk \in ToSet(usableChunkList') :
                 Len(freeSlots'[chunk]) < SlotsPerChunk
<1> DEFINE usable == usableChunkList
           n == Len(usable)
<1>1. PICK freed \in 0 .. n :
         LET gone == {usable[i] : i \in 1 .. freed} IN
         /\ usableChunkList' = SubSeq(usable, freed + 1, n)
         /\ freeSlots' = [chunk \in Chunks |->
                             IF chunk \in gone THEN <<>> ELSE freeSlots[chunk]]
         /\ unusableChunkList' = unusableChunkList /\ blocks' = blocks
         /\ \A chunk \in gone : chunk \in Chunks /\ Full(freeSlots[chunk])
         /\ freed # n => ~Full(freeSlots[usable[freed + 1]])
  BY ShrinkToFit_Facts
<1> DEFINE gone == {usable[i] : i \in 1 .. freed}
           rest == SubSeq(usable, freed + 1, n)
<1>2. /\ usable \in Seq(Chunks) /\ IsInjective(usable) /\ n \in Nat
      /\ freeSlots \in [Chunks -> Seq(Slots)] /\ blocks \subseteq Chunks \X Slots
      /\ unusableChunkList \in Seq(Chunks) /\ IsInjective(unusableChunkList)
      /\ ToSet(usable) \cap ToSet(unusableChunkList) = {}
      /\ ToSet(unusableChunkList) \subseteq Chunks
  BY ListEmpty, LenProperties DEF MemoryPoolInv, PoolOK, PoolTypeOK, ListsOK
<1>3. /\ rest \in Seq(Chunks) /\ IsInjective(rest) /\ Len(rest) = n - freed
      /\ \A i \in 1 .. n - freed : rest[i] = usable[freed + i]
      /\ ToSet(usable) = gone \cup ToSet(rest) /\ gone \cap ToSet(rest) = {}
      /\ gone \subseteq Chunks /\ ToSet(rest) \subseteq Chunks
  BY <1>2, ListTakeSome, ListEmpty
<1>4. /\ usableChunkList' = rest
      /\ freeSlots' = [chunk \in Chunks |->
                          IF chunk \in gone THEN <<>> ELSE freeSlots[chunk]]
      /\ unusableChunkList' = unusableChunkList /\ blocks' = blocks
      /\ \A chunk \in gone : Full(freeSlots[chunk])
      /\ freed # n => ~Full(freeSlots[usable[freed + 1]])
  BY <1>1
<1> HIDE DEF rest, gone
<1>5. /\ freeSlots' \in [Chunks -> Seq(Slots)]
      /\ \A chunk \in gone : freeSlots'[chunk] = <<>>
      /\ \A chunk \in Chunks \ gone : freeSlots'[chunk] = freeSlots[chunk]
  BY <1>2, <1>3, <1>4
<1>6. \A i \in 1 .. n - freed : ~Full(freeSlots'[rest[i]])
  <2> SUFFICES ASSUME NEW i \in 1 .. n - freed PROVE ~Full(freeSlots'[rest[i]])
    OBVIOUS
  <2>1. /\ freed # n /\ freed + 1 \in 1 .. n /\ freed + i \in 1 .. n
        /\ (freed + 1 = freed + i \/ freed + 1 < freed + i)
    BY <1>2
  <2>2. rest[i] = usable[freed + i] /\ rest[i] \in ToSet(rest)
    <3>1. DOMAIN rest = 1 .. n - freed
      BY <1>3, LenProperties
    <3> QED
      BY <1>3, <3>1 DEF ToSet
  <2>3. freeSlots'[rest[i]] = freeSlots[usable[freed + i]]
    BY <1>3, <1>5, <2>2
  <2>4. Full(freeSlots[usable[freed + i]]) => Full(freeSlots[usable[freed + 1]])
    BY <2>1 DEF MemoryPoolInv, PoolOK, FreeInFront
  <2> QED
    BY <1>4, <2>1, <2>3, <2>4
<1>7. \A chunk \in gone : Used(blocks, chunk) = {}
  <2> SUFFICES ASSUME NEW chunk \in gone PROVE Used(blocks, chunk) = {}
    OBVIOUS
  <2>1. /\ chunk \in Chunks /\ chunk \in ToSet(usable)
        /\ Free(freeSlots, chunk) = Slots \ Used(blocks, chunk)
        /\ freeSlots[chunk] \in Seq(Slots) /\ IsInjective(freeSlots[chunk])
    BY <1>2, <1>3 DEF MemoryPoolInv, PoolOK, SlotsOK
  <2>2. Free(freeSlots, chunk) = Slots
    BY <1>4, <2>1, SlotsFit DEF Free
  <2> QED
    BY <2>1, <2>2 DEF Used
<1>8. PoolTypeOK(rest, unusableChunkList, freeSlots', blocks)
  BY <1>2, <1>3, <1>5 DEF PoolTypeOK
<1>9. SlotsOK(rest, unusableChunkList, freeSlots', blocks)
  <2>1. ASSUME NEW chunk \in gone
        PROVE  /\ chunk \notin ToSet(rest) \cup ToSet(unusableChunkList)
               /\ IsInjective(freeSlots'[chunk]) /\ Free(freeSlots', chunk) = {}
    <3>1. freeSlots'[chunk] = <<>>
      BY <1>5
    <3>2. IsInjective(<<>>) /\ ToSet(<<>>) = {}
      <4>1. <<>> \in Seq(Slots)
        OBVIOUS
      <4> QED
        BY <4>1, ListEmpty
    <3>3. chunk \notin ToSet(rest) \cup ToSet(unusableChunkList)
      BY <1>2, <1>3
    <3> QED
      BY <3>1, <3>2, <3>3 DEF Free
  <2>2. ASSUME NEW chunk \in Chunks \ gone
        PROVE  /\ chunk \in ToSet(rest) <=> chunk \in ToSet(usable)
               /\ freeSlots'[chunk] = freeSlots[chunk]
               /\ Free(freeSlots', chunk) = Free(freeSlots, chunk)
    BY <1>3, <1>5 DEF Free
  <2>3. SlotsOK(usable, unusableChunkList, freeSlots, blocks)
    BY DEF MemoryPoolInv, PoolOK
  <2> HIDE DEF usable
  <2> QED
    BY <1>3, <1>7, <2>1, <2>2, <2>3 DEF SlotsOK
<1>10. ListsOK(rest, unusableChunkList, freeSlots')
  BY <1>2, <1>3, <1>5 DEF MemoryPoolInv, PoolOK, ListsOK
<1>11. FreeInFront(rest, freeSlots')
  BY <1>3, <1>6 DEF FreeInFront
<1>12. ASSUME NEW chunk \in ToSet(rest)
       PROVE  Len(freeSlots'[chunk]) < SlotsPerChunk
  <2>1. PICK i \in 1 .. n - freed : chunk = rest[i]
    BY <1>3, LenProperties DEF ToSet
  <2>2. /\ freeSlots'[chunk] \in Seq(Slots) /\ IsInjective(freeSlots'[chunk])
    BY <1>3, <1>8, <1>9 DEF SlotsOK, PoolTypeOK
  <2>3. Len(freeSlots'[chunk]) \in 0 .. SlotsPerChunk
    BY <2>2, SlotsFit
  <2>4. Len(freeSlots'[chunk]) # SlotsPerChunk
    BY <1>6, <2>1 DEF Full
  <2> QED
    BY <2>3, <2>4, SlotsCounted
<1> QED
  BY <1>4, <1>8, <1>9, <1>10, <1>11, <1>12 DEF MemoryPoolInv, PoolOK

-----------------------------------------------------------------------------
LEMMA MemoryPoolInit_Inv == MemoryPoolInit => MemoryPoolInv
<1> SUFFICES ASSUME MemoryPoolInit PROVE MemoryPoolInv
  OBVIOUS
<1>1. /\ usableChunkList = <<>> /\ unusableChunkList = <<>> /\ blocks = {}
      /\ freeSlots = [chunk \in Chunks |-> <<>>]
  BY DEF MemoryPoolInit
<1>2. ToSet(<<>>) = {} /\ IsInjective(<<>>) /\ <<>> \in Seq(Chunks) /\ <<>> \in Seq(Slots)
  <2>1. <<>> \in Seq(Chunks) /\ <<>> \in Seq(Slots)
    OBVIOUS
  <2> QED
    BY <2>1, ListEmpty
<1>3. PoolTypeOK(<<>>, <<>>, freeSlots, {})
  BY <1>1, <1>2 DEF PoolTypeOK
<1>4. SlotsOK(<<>>, <<>>, freeSlots, {})
  BY <1>1, <1>2 DEF SlotsOK, Free, Used
<1>5. ListsOK(<<>>, <<>>, freeSlots)
  BY <1>2 DEF ListsOK
<1>6. FreeInFront(<<>>, freeSlots)
  BY DEF FreeInFront
<1> QED
  BY <1>1, <1>3, <1>4, <1>5, <1>6 DEF MemoryPoolInv, PoolOK

LEMMA MemoryPoolNext_Inv == MemoryPoolInv /\ [MemoryPoolNext]_memoryPoolVars => MemoryPoolInv'
<1> SUFFICES ASSUME MemoryPoolInv, [MemoryPoolNext]_memoryPoolVars PROVE MemoryPoolInv'
  OBVIOUS
<1>1. CASE AllocateBlock
  BY <1>1, AllocateBlock_Inv
<1>2. CASE ShrinkToFit
  BY <1>2, ShrinkToFit_Keeps
<1>3. ASSUME NEW block \in blocks, FreeBlock(block) PROVE MemoryPoolInv'
  BY <1>3, FreeBlock_Inv
<1>4. CASE UNCHANGED memoryPoolVars
  BY <1>4 DEF memoryPoolVars, MemoryPoolInv, PoolOK, PoolTypeOK, SlotsOK, ListsOK, FreeInFront,
              Free, Used, Full
<1> QED
  BY <1>1, <1>2, <1>3, <1>4 DEF MemoryPoolNext

(* The inductive invariant holds throughout.                               *)
THEOREM MemoryPool_Inv == MemoryPoolSpec => []MemoryPoolInv
<1>1. MemoryPoolInit => MemoryPoolInv
  BY MemoryPoolInit_Inv
<1>2. MemoryPoolInv /\ [MemoryPoolNext]_memoryPoolVars => MemoryPoolInv'
  BY MemoryPoolNext_Inv
<1> QED
  BY <1>1, <1>2, PTL DEF MemoryPoolSpec

(* The lists hold chunks, and the callers blocks that are slots of chunks. *)
THEOREM MemoryPool_TypeOK == MemoryPoolSpec => []MemoryPoolTypeOK
<1>1. MemoryPoolInv => MemoryPoolTypeOK
  BY InvMeans
<1> QED
  BY <1>1, MemoryPool_Inv, PTL

(* MemoryPool_AllocateBlock never hands a block out twice, and neither a   *)
(* free nor a shrink loses a slot or gives a chunk in use back.            *)
THEOREM MemoryPool_SlotsAccountedFor == MemoryPoolSpec => []SlotsAccountedFor
<1>1. MemoryPoolInv => SlotsAccountedFor
  BY InvMeans
<1> QED
  BY <1>1, MemoryPool_Inv, PTL

(* A chunk moves between the lists with its first and its last free slot.  *)
THEOREM MemoryPool_ChunkOnRightList == MemoryPoolSpec => []ChunkOnRightList
<1>1. MemoryPoolInv => ChunkOnRightList
  BY InvMeans
<1> QED
  BY <1>1, MemoryPool_Inv, PTL

(* MemoryPool_ShrinkToFit, which stops at the first chunk in use, leaves   *)
(* no free chunk behind it.                                                *)
THEOREM MemoryPool_ShrinkLeavesNoFreeChunk == MemoryPoolSpec => ShrinkLeavesNoFreeChunk
<1>1. MemoryPoolInv =>
        [ ShrinkToFit => \A chunk \in ToSet(usableChunkList') :
              Len(freeSlots'[chunk]) < SlotsPerChunk ]_memoryPoolVars
  BY ShrinkToFit_Keeps
<1> QED
  BY <1>1, MemoryPool_Inv, PTL DEF ShrinkLeavesNoFreeChunk

-----------------------------------------------------------------------------
(* The lists of pointers.  The cells from a to b, with a list between      *)
(* them; a ring starts and ends at its head.                               *)
Between(a, s, b) ==
    [i \in 0 .. Len(s) + 1 |-> IF i = 0 THEN a ELSE IF i = Len(s) + 1 THEN b ELSE s[i]]

(* Each of n + 2 cells points to the next one, and that one back to it.    *)
Chained(l, c, n) ==
    \A i \in 0 .. n : l.next[c[i]] = c[i + 1] /\ l.prev[c[i + 1]] = c[i]

Joined(l, a, s, b) == Chained(l, Between(a, s, b), Len(s))

(* A list of items, each once, and neither of the cells around it.         *)
Part(a, s, b) ==
    /\ a \in Cells /\ b \in Cells
    /\ s \in Seq(Items) /\ IsInjective(s)
    /\ a \notin ToSet(s) /\ b \notin ToSet(s)

(* Pointers that lead to different cells from n + 1 of n + 2 cells.        *)
Distinct(c, n) ==
    /\ c \in [0 .. n + 1 -> Cells]
    /\ \A i, j \in 0 .. n : c[i] = c[j] => i = j
    /\ \A i, j \in 1 .. n + 1 : c[i] = c[j] => i = j

(* __ListItem_Insert puts a cell between two neighbours.                   *)
LEMMA ChainInsert ==
    ASSUME NEW l \in Links, NEW n \in Nat, NEW c, Distinct(c, n), Chained(l, c, n),
           NEW k \in 0 .. n, NEW x \in Cells, \A i \in 0 .. n + 1 : c[i] # x,
           NEW m, m = Inserted(l, x, c[k], c[k + 1]),
           NEW d,
           \A i \in 0 .. n + 2 :
              d[i] = IF i <= k THEN c[i] ELSE IF i = k + 1 THEN x ELSE c[i - 1]
    PROVE  /\ Chained(m, d, n + 1)
           /\ m \in Links
<1>1. c[k] \in Cells /\ c[k + 1] \in Cells
  BY DEF Distinct
<1>2. m \in Links
  BY <1>1 DEF Links, Inserted
<1>3. ASSUME NEW y \in Cells
      PROVE  /\ m.next[y] = IF y = x THEN c[k + 1] ELSE IF y = c[k] THEN x ELSE l.next[y]
             /\ m.prev[y] = IF y = c[k + 1] THEN x ELSE IF y = x THEN c[k] ELSE l.prev[y]
  BY <1>1 DEF Links, Inserted
<1>4. ASSUME NEW i \in 0 .. n + 1
      PROVE  m.next[d[i]] = d[i + 1] /\ m.prev[d[i + 1]] = d[i]
  <2>1. CASE i < k
    <3>1. i \in 0 .. n /\ i + 1 \in 0 .. n + 1 /\ i + 1 \in 1 .. n + 1 /\ k \in 0 .. n /\ k + 1 \in 1 .. n + 1
      BY <2>1
    <3>2. d[i] = c[i] /\ d[i + 1] = c[i + 1]
      BY <2>1
    <3>3. c[i] # c[k] /\ c[i + 1] # c[k + 1] /\ c[i] # x /\ c[i + 1] # x
      BY <2>1, <3>1 DEF Distinct
    <3>4. c[i] \in Cells /\ c[i + 1] \in Cells
      BY <3>1 DEF Distinct
    <3>5. l.next[c[i]] = c[i + 1] /\ l.prev[c[i + 1]] = c[i]
      BY <3>1 DEF Chained
    <3>6. m.next[c[i]] = c[i + 1] /\ m.prev[c[i + 1]] = c[i]
      BY <1>3, <3>3, <3>4, <3>5
    <3> QED
      BY <3>2, <3>6
  <2>2. CASE i = k
    <3>1. d[i] = c[k] /\ d[i + 1] = x /\ c[k] # x /\ c[k + 1] # x
      BY <2>2
    <3> QED
      BY <1>1, <1>3, <3>1
  <2>3. CASE i = k + 1
    <3>1. d[i] = x /\ d[i + 1] = c[k + 1] /\ c[k] # x /\ c[k + 1] # x
      BY <2>3
    <3> QED
      BY <1>1, <1>3, <3>1
  <2>4. CASE i > k + 1
    <3> DEFINE j == i - 1
    <3>1. j \in 0 .. n /\ j + 1 \in 1 .. n + 1 /\ j # k /\ k + 1 \in 1 .. n + 1 /\ j + 1 # k + 1 /\ j \in 0 .. n + 1 /\ j + 1 \in 0 .. n + 1
      BY <2>4
    <3>2. d[i] = c[j] /\ d[i + 1] = c[j + 1]
      BY <2>4
    <3> HIDE DEF j
    <3>3. c[j] # c[k] /\ c[j + 1] # c[k + 1] /\ c[j] # x /\ c[j + 1] # x
      BY <3>1 DEF Distinct
    <3>4. c[j] \in Cells /\ c[j + 1] \in Cells
      BY <3>1 DEF Distinct
    <3>5. l.next[c[j]] = c[j + 1] /\ l.prev[c[j + 1]] = c[j]
      BY <3>1 DEF Chained
    <3>6. m.next[c[j]] = c[j + 1] /\ m.prev[c[j + 1]] = c[j]
      BY <1>3, <3>3, <3>4, <3>5
    <3> QED
      BY <3>2, <3>6
  <2> QED
    BY <2>1, <2>2, <2>3, <2>4
<1> QED
  BY <1>2, <1>4 DEF Chained

(* ListItem_Remove joins the two neighbours.                               *)
LEMMA ChainRemove ==
    ASSUME NEW l \in Links, NEW n \in Nat, NEW c, Distinct(c, n), Chained(l, c, n),
           NEW k \in 1 .. n, NEW m, m = Removed(l, c[k]),
           NEW d, \A i \in 0 .. n : d[i] = IF i < k THEN c[i] ELSE c[i + 1]
    PROVE  /\ Chained(m, d, n - 1)
           /\ m \in Links
<1>1. /\ k - 1 \in 0 .. n /\ k + 1 \in 1 .. n + 1 /\ k \in 0 .. n /\ (k - 1) + 1 = k
      /\ k - 1 \in 0 .. n + 1 /\ k + 1 \in 0 .. n + 1 /\ k \in 1 .. n + 1
  OBVIOUS
<1>2. /\ l.prev[c[k]] = c[k - 1] /\ l.next[c[k]] = c[k + 1]
      /\ c[k - 1] \in Cells /\ c[k + 1] \in Cells /\ c[k] \in Cells
  BY <1>1 DEF Chained, Distinct
<1>3. m \in Links
  BY <1>2 DEF Links, Removed
<1>4. ASSUME NEW y \in Cells
      PROVE  /\ m.next[y] = IF y = c[k - 1] THEN c[k + 1] ELSE l.next[y]
             /\ m.prev[y] = IF y = c[k + 1] THEN c[k - 1] ELSE l.prev[y]
  BY <1>2 DEF Links, Removed
<1>5. ASSUME NEW i \in 0 .. n - 1
      PROVE  m.next[d[i]] = d[i + 1] /\ m.prev[d[i + 1]] = d[i]
  <2>1. CASE i < k - 1
    <3>1. /\ i \in 0 .. n /\ i + 1 \in 1 .. n + 1 /\ i + 1 \in 0 .. n + 1 /\ i \in 0 .. n + 1
          /\ i # k - 1 /\ i + 1 # k + 1
      BY <2>1
    <3>2. d[i] = c[i] /\ d[i + 1] = c[i + 1]
      BY <2>1
    <3>3. c[i] # c[k - 1] /\ c[i + 1] # c[k + 1] /\ c[i] \in Cells /\ c[i + 1] \in Cells
      BY <1>1, <3>1 DEF Distinct
    <3>4. l.next[c[i]] = c[i + 1] /\ l.prev[c[i + 1]] = c[i]
      BY <3>1 DEF Chained
    <3>5. m.next[c[i]] = c[i + 1] /\ m.prev[c[i + 1]] = c[i]
      BY <1>4, <3>3, <3>4
    <3> QED
      BY <3>2, <3>5
  <2>2. CASE i = k - 1
    <3>1. d[i] = c[k - 1] /\ d[i + 1] = c[k + 1]
      BY <2>2
    <3> QED
      BY <1>2, <1>4, <3>1
  <2>3. CASE i > k - 1
    <3> DEFINE j == i + 1
    <3>1. /\ j \in 0 .. n /\ j + 1 \in 1 .. n + 1 /\ j + 1 \in 0 .. n + 1 /\ j \in 0 .. n + 1
          /\ j # k - 1 /\ j + 1 # k + 1
      BY <2>3
    <3>2. d[i] = c[j] /\ d[i + 1] = c[j + 1]
      BY <2>3
    <3> HIDE DEF j
    <3>3. c[j] # c[k - 1] /\ c[j + 1] # c[k + 1] /\ c[j] \in Cells /\ c[j + 1] \in Cells
      BY <1>1, <3>1 DEF Distinct
    <3>4. l.next[c[j]] = c[j + 1] /\ l.prev[c[j + 1]] = c[j]
      BY <3>1 DEF Chained
    <3>5. m.next[c[j]] = c[j + 1] /\ m.prev[c[j + 1]] = c[j]
      BY <1>4, <3>3, <3>4
    <3> QED
      BY <3>2, <3>5
  <2> QED
    BY <2>1, <2>2, <2>3
<1> QED
  BY <1>3, <1>5 DEF Chained

(* Inserted between the neighbours of a cell, another one replaces it.     *)
LEMMA ChainReplace ==
    ASSUME NEW l \in Links, NEW n \in Nat, NEW c, Distinct(c, n), Chained(l, c, n),
           NEW k \in 1 .. n, NEW x \in Cells, \A i \in 0 .. n + 1 : c[i] # x,
           NEW m, m = Inserted(l, x, c[k - 1], c[k + 1]),
           NEW d, d[k] = x, \A i \in (0 .. n + 1) \ {k} : d[i] = c[i]
    PROVE  /\ Chained(m, d, n)
           /\ m \in Links
<1>1. /\ k - 1 \in 0 .. n /\ k + 1 \in 1 .. n + 1 /\ k \in 0 .. n /\ (k - 1) + 1 = k
      /\ k - 1 \in 0 .. n + 1 /\ k + 1 \in 0 .. n + 1 /\ k \in 1 .. n + 1
  OBVIOUS
<1>2. /\ l.prev[c[k]] = c[k - 1] /\ l.next[c[k]] = c[k + 1]
      /\ c[k - 1] \in Cells /\ c[k + 1] \in Cells /\ c[k] \in Cells
  BY <1>1 DEF Chained, Distinct
<1>3. m \in Links
  BY <1>2 DEF Links, Inserted
<1>4. ASSUME NEW y \in Cells
      PROVE  /\ m.next[y] = IF y = x THEN c[k + 1] ELSE IF y = c[k - 1] THEN x ELSE l.next[y]
             /\ m.prev[y] = IF y = c[k + 1] THEN x ELSE IF y = x THEN c[k - 1] ELSE l.prev[y]
  BY <1>2 DEF Links, Inserted
<1>5. \A i \in 0 .. n + 1 : d[i] = IF i = k THEN x ELSE c[i]
  BY <1>1
<1>6. ASSUME NEW i \in 0 .. n
      PROVE  m.next[d[i]] = d[i + 1] /\ m.prev[d[i + 1]] = d[i]
  <2>1. /\ i \in 0 .. n /\ i + 1 \in 1 .. n + 1 /\ i + 1 \in 0 .. n + 1 /\ i \in 0 .. n + 1
        /\ c[i] \in Cells /\ c[i + 1] \in Cells /\ c[i] # x /\ c[i + 1] # x
    BY DEF Distinct
  <2>2. CASE i = k - 1
    BY <1>1, <1>2, <1>4, <1>5, <2>1, <2>2
  <2>3. CASE i = k
    BY <1>1, <1>2, <1>4, <1>5, <2>1, <2>3
  <2>4. CASE i # k - 1 /\ i # k
    <3>1. c[i] # c[k - 1] /\ c[i + 1] # c[k + 1]
      BY <1>1, <2>1, <2>4 DEF Distinct
    <3>2. d[i] = c[i] /\ d[i + 1] = c[i + 1]
      BY <1>5, <2>1, <2>4
    <3> QED
      BY <1>4, <2>1, <3>1, <3>2 DEF Chained
  <2> QED
    BY <2>2, <2>3, <2>4
<1> QED
  BY <1>3, <1>6 DEF Chained

-----------------------------------------------------------------------------
(* Lists as functions of the positions.                                    *)
LEMMA ListOfFunction ==
    ASSUME NEW S, NEW n \in Nat, NEW t \in [1 .. n -> S]
    PROVE  t \in Seq(S) /\ Len(t) = n
<1>1. t \in Seq(S)
  BY SeqDef
<1>2. DOMAIN t = 1 .. Len(t) /\ DOMAIN t = 1 .. n /\ Len(t) \in Nat
  BY <1>1, LenProperties
<1> QED
  BY <1>1, <1>2

IsInserted(t, s, k, x) ==
    /\ Len(t) = Len(s) + 1
    /\ \A i \in 1 .. k : t[i] = s[i]
    /\ t[k + 1] = x
    /\ \A i \in k + 2 .. Len(s) + 1 : t[i] = s[i - 1]

LEMMA InsertAtIs ==
    ASSUME NEW S, NEW s \in Seq(S), NEW x \in S, NEW k \in 0 .. Len(s),
           NEW t, t = InsertAt(s, k + 1, x)
    PROVE  t \in Seq(S) /\ IsInserted(t, s, k, x)
<1> DEFINE n == Len(s)
           u == SubSeq(s, 1, k)
           v == SubSeq(s, k + 1, n)
<1>1. n \in Nat /\ k \in Int /\ k + 1 \in Int /\ n \in Int /\ 1 \in Int /\ (k + 1) - 1 = k
  BY LenProperties
<1>2. /\ \A i \in 1 .. k : s[i] \in S
      /\ \A i \in k + 1 .. n : s[i] \in S
  BY <1>1, ElementOfSeq
<1>3. /\ u \in Seq(S) /\ Len(u) = (IF 1 <= k THEN k - 1 + 1 ELSE 0)
      /\ \A i \in 1 .. k - 1 + 1 : u[i] = s[1 + i - 1]
  BY <1>1, <1>2, SubSeqProperties
<1>4. /\ v \in Seq(S) /\ Len(v) = (IF k + 1 <= n THEN n - (k + 1) + 1 ELSE 0)
      /\ \A i \in 1 .. n - (k + 1) + 1 : v[i] = s[(k + 1) + i - 1]
  BY <1>1, <1>2, SubSeqProperties
<1>5. <<x>> \in Seq(S) /\ Len(<<x>>) = 1 /\ <<x>>[1] = x
  OBVIOUS
<1>6. t = (u \o <<x>>) \o v
  BY <1>1 DEF InsertAt
<1> HIDE DEF u, v, n
<1>7. Len(u) = k /\ Len(v) = n - k
  BY <1>1, <1>3, <1>4 DEF n
<1>8. /\ u \o <<x>> \in Seq(S) /\ Len(u \o <<x>>) = k + 1
      /\ \A i \in 1 .. k + 1 : (u \o <<x>>)[i] = IF i <= k THEN u[i] ELSE <<x>>[i - k]
  BY <1>3, <1>5, <1>7, ConcatProperties
<1>9. /\ t \in Seq(S) /\ Len(t) = (k + 1) + (n - k)
      /\ \A i \in 1 .. (k + 1) + (n - k) :
            t[i] = IF i <= k + 1 THEN (u \o <<x>>)[i] ELSE v[i - (k + 1)]
  <2> DEFINE w == u \o <<x>>
  <2>1. w \in Seq(S) /\ Len(w) = k + 1 /\ t = w \o v
    BY <1>6, <1>8
  <2> HIDE DEF w
  <2>2. /\ t \in Seq(S) /\ Len(t) = Len(w) + Len(v)
        /\ \A i \in 1 .. Len(w) + Len(v) :
              t[i] = IF i <= Len(w) THEN w[i] ELSE v[i - Len(w)]
    <3>1. /\ w \o v \in Seq(S) /\ Len(w \o v) = Len(w) + Len(v)
          /\ \A i \in 1 .. Len(w) + Len(v) :
                (w \o v)[i] = IF i <= Len(w) THEN w[i] ELSE v[i - Len(w)]
      BY <1>4, <2>1, ConcatProperties
    <3> QED
      BY <2>1, <3>1
  <2>3. Len(w) = k + 1 /\ Len(v) = n - k
    BY <1>7, <2>1
  <2>4. /\ t \in Seq(S) /\ Len(t) = (k + 1) + (n - k)
        /\ \A i \in 1 .. (k + 1) + (n - k) :
              t[i] = IF i <= k + 1 THEN w[i] ELSE v[i - (k + 1)]
    BY <2>2, <2>3
  <2> QED
    BY <2>4 DEF w
<1>10. ASSUME NEW i \in 1 .. n + 1
       PROVE  t[i] = IF i <= k THEN s[i] ELSE IF i = k + 1 THEN x ELSE s[i - 1]
  <2>1. i \in 1 .. (k + 1) + (n - k)
    BY <1>1
  <2>2. CASE i <= k
    <3>1. i \in 1 .. k + 1 /\ i <= k + 1 /\ i \in 1 .. k - 1 + 1 /\ 1 + i - 1 = i
      BY <1>1, <2>2
    <3> QED
      BY <1>3, <1>8, <1>9, <2>1, <2>2, <3>1
  <2>3. CASE i = k + 1
    <3>1. i \in 1 .. k + 1 /\ i <= k + 1 /\ ~(i <= k) /\ i - k = 1
      BY <1>1, <2>3
    <3> QED
      BY <1>5, <1>8, <1>9, <2>1, <2>3, <3>1
  <2>4. CASE i > k + 1
    <3> DEFINE j == i - (k + 1)
    <3>1. /\ ~(i <= k + 1) /\ ~(i <= k) /\ i # k + 1 /\ j \in 1 .. n - (k + 1) + 1
          /\ (k + 1) + j - 1 = i - 1
      BY <1>1, <2>4
    <3>2. t[i] = v[j]
      BY <1>9, <2>1, <3>1
    <3> HIDE DEF j
    <3> QED
      BY <1>4, <3>1, <3>2 DEF n
  <2> QED
    BY <1>1, <2>2, <2>3, <2>4
<1>11. Len(t) = n + 1
  BY <1>1, <1>9
<1>12. \A i \in 1 .. k : i \in 1 .. n + 1 /\ i <= k
  BY <1>1 DEF n
<1>13. k + 1 \in 1 .. n + 1 /\ ~(k + 1 <= k)
  BY <1>1 DEF n
<1>14. \A i \in k + 2 .. n + 1 : i \in 1 .. n + 1 /\ ~(i <= k) /\ i # k + 1
  BY <1>1 DEF n
<1>15. /\ \A i \in 1 .. k : t[i] = s[i]
       /\ t[k + 1] = x
       /\ \A i \in k + 2 .. n + 1 : t[i] = s[i - 1]
  BY <1>10, <1>12, <1>13, <1>14
<1> QED
  BY <1>9, <1>11, <1>15 DEF n, IsInserted

IsTakenOut(t, s, k) ==
    /\ Len(t) = Len(s) - 1
    /\ \A i \in 1 .. Len(s) - 1 : t[i] = IF i < k THEN s[i] ELSE s[i + 1]

LEMMA RemoveAtIs ==
    ASSUME NEW S, NEW s \in Seq(S), NEW k \in 1 .. Len(s), NEW t, t = RemoveAt(s, k)
    PROVE  t \in Seq(S) /\ IsTakenOut(t, s, k)
<1> DEFINE n == Len(s)
           u == SubSeq(s, 1, k - 1)
           v == SubSeq(s, k + 1, n)
<1>1. n \in Nat /\ k - 1 \in Int /\ k + 1 \in Int /\ n \in Int /\ 1 \in Int /\ k \in Nat
  BY LenProperties
<1>2. /\ \A i \in 1 .. k - 1 : s[i] \in S
      /\ \A i \in k + 1 .. n : s[i] \in S
  BY <1>1, ElementOfSeq
<1>3. /\ u \in Seq(S) /\ Len(u) = (IF 1 <= k - 1 THEN (k - 1) - 1 + 1 ELSE 0)
      /\ \A i \in 1 .. (k - 1) - 1 + 1 : u[i] = s[1 + i - 1]
  BY <1>1, <1>2, SubSeqProperties
<1>4. /\ v \in Seq(S) /\ Len(v) = (IF k + 1 <= n THEN n - (k + 1) + 1 ELSE 0)
      /\ \A i \in 1 .. n - (k + 1) + 1 : v[i] = s[(k + 1) + i - 1]
  BY <1>1, <1>2, SubSeqProperties
<1>5. t = u \o v
  BY DEF RemoveAt
<1> HIDE DEF u, v
<1>6. Len(u) = k - 1 /\ Len(v) = n - k
  BY <1>1, <1>3, <1>4
<1>7. /\ t \in Seq(S) /\ Len(t) = (k - 1) + (n - k)
      /\ \A i \in 1 .. (k - 1) + (n - k) : t[i] = IF i <= k - 1 THEN u[i] ELSE v[i - (k - 1)]
  <2>1. /\ t \in Seq(S) /\ Len(t) = Len(u) + Len(v)
        /\ \A i \in 1 .. Len(u) + Len(v) :
              t[i] = IF i <= Len(u) THEN u[i] ELSE v[i - Len(u)]
    <3>1. /\ u \o v \in Seq(S) /\ Len(u \o v) = Len(u) + Len(v)
          /\ \A i \in 1 .. Len(u) + Len(v) :
                (u \o v)[i] = IF i <= Len(u) THEN u[i] ELSE v[i - Len(u)]
      BY <1>3, <1>4, ConcatProperties
    <3> QED
      BY <1>5, <3>1
  <2> QED
    BY <1>6, <2>1
<1>8. ASSUME NEW i \in 1 .. n - 1
      PROVE  t[i] = IF i < k THEN s[i] ELSE s[i + 1]
  <2>1. i \in 1 .. (k - 1) + (n - k)
    BY <1>1
  <2>2. CASE i < k
    <3>1. i <= k - 1 /\ i \in 1 .. (k - 1) - 1 + 1 /\ 1 + i - 1 = i
      BY <1>1, <2>2
    <3> QED
      BY <1>3, <1>7, <2>1, <2>2, <3>1
  <2>3. CASE i >= k
    <3> DEFINE j == i - (k - 1)
    <3>1. ~(i <= k - 1) /\ ~(i < k) /\ j \in 1 .. n - (k + 1) + 1 /\ (k + 1) + j - 1 = i + 1
      BY <1>1, <2>3
    <3>2. t[i] = v[j]
      BY <1>7, <2>1, <3>1
    <3> HIDE DEF j
    <3> QED
      BY <1>4, <3>1, <3>2
  <2> QED
    BY <1>1, <2>2, <2>3
<1>9. Len(t) = n - 1
  BY <1>1, <1>7
<1> QED
  BY <1>7, <1>8, <1>9 DEF IsTakenOut

(* The items of a list with one more, one less, or another one.            *)
LEMMA InsertAtItems ==
    ASSUME NEW S, NEW s \in Seq(S), NEW x \in S, NEW k \in 0 .. Len(s),
           NEW t, t = InsertAt(s, k + 1, x)
    PROVE  /\ ToSet(t) = ToSet(s) \cup {x}
           /\ IsInjective(s) /\ x \notin ToSet(s) => IsInjective(t)
<1> DEFINE n == Len(s)
<1>1. /\ n \in Nat /\ DOMAIN s = 1 .. n /\ DOMAIN t = 1 .. n + 1
      /\ \A i \in 1 .. n + 1 :
            t[i] = IF i <= k THEN s[i] ELSE IF i = k + 1 THEN x ELSE s[i - 1]
  <2>1. t \in Seq(S) /\ IsInserted(t, s, k, x)
    BY InsertAtIs
  <2>2. Len(t) = Len(s) + 1
    BY <2>1 DEF IsInserted
  <2>3. /\ \A i \in 1 .. k : t[i] = s[i]
        /\ t[k + 1] = x
        /\ \A i \in k + 2 .. Len(s) + 1 : t[i] = s[i - 1]
    BY <2>1 DEF IsInserted
  <2>4. n \in Nat
    BY LenProperties
  <2>5. ASSUME NEW i \in 1 .. n + 1
        PROVE  t[i] = IF i <= k THEN s[i] ELSE IF i = k + 1 THEN x ELSE s[i - 1]
    BY <2>3, <2>4
  <2> QED
    BY <2>1, <2>2, <2>4, <2>5, LenProperties
<1> HIDE DEF n
<1>2. k \in 0 .. n
  BY DEF n
<1>3. ToSet(t) \subseteq ToSet(s) \cup {x}
  <2>1. ASSUME NEW i \in 1 .. n + 1 PROVE t[i] = x \/ \E j \in 1 .. n : t[i] = s[j]
    BY <1>1, <1>2
  <2> QED
    BY <1>1, <2>1 DEF ToSet
<1>4. x \in ToSet(t)
  <2>1. k + 1 \in 1 .. n + 1 /\ t[k + 1] = x
    BY <1>1, <1>2
  <2> QED
    BY <1>1, <2>1 DEF ToSet
<1>5. ASSUME NEW i \in 1 .. n PROVE s[i] \in ToSet(t)
  <2>1. \E j \in 1 .. n + 1 : t[j] = s[i]
    <3>1. CASE i <= k
      BY <1>1, <1>2, <3>1
    <3>2. CASE i > k
      <4>1. i + 1 \in 1 .. n + 1 /\ ~(i + 1 <= k) /\ i + 1 # k + 1 /\ (i + 1) - 1 = i
        BY <1>1, <1>2, <3>2
      <4> QED
        BY <1>1, <4>1
    <3> QED
      BY <1>2, <3>1, <3>2
  <2> QED
    BY <1>1, <2>1 DEF ToSet
<1>6. ToSet(s) \subseteq ToSet(t)
  BY <1>1, <1>5 DEF ToSet
<1>7. ASSUME IsInjective(s), x \notin ToSet(s) PROVE IsInjective(t)
  <2>1. \A i, j \in 1 .. n : s[i] = s[j] => i = j
    BY <1>1, <1>7 DEF IsInjective
  <2>2. \A i \in 1 .. n : s[i] # x
    BY <1>1, <1>7 DEF ToSet
  <2>3. ASSUME NEW i \in 1 .. n + 1, NEW j \in 1 .. n + 1, t[i] = t[j] PROVE i = j
    BY <1>1, <1>2, <2>1, <2>2, <2>3
  <2> QED
    BY <1>1, <2>3 DEF IsInjective
<1> QED
  BY <1>3, <1>4, <1>6, <1>7

LEMMA RemoveAtItems ==
    ASSUME NEW S, NEW s \in Seq(S), IsInjective(s), NEW k \in 1 .. Len(s),
           NEW t, t = RemoveAt(s, k)
    PROVE  ToSet(t) = ToSet(s) \ {s[k]} /\ IsInjective(t)
<1> DEFINE n == Len(s)
<1>1. /\ n \in Nat /\ DOMAIN s = 1 .. n /\ DOMAIN t = 1 .. n - 1
      /\ \A i \in 1 .. n - 1 : t[i] = IF i < k THEN s[i] ELSE s[i + 1]
  <2>1. n \in Nat /\ n - 1 \in Nat
    BY LenProperties
  <2>2. t \in Seq(S) /\ IsTakenOut(t, s, k)
    BY RemoveAtIs
  <2> QED
    BY <2>1, <2>2, LenProperties DEF IsTakenOut
<1> HIDE DEF n
<1>2. k \in 1 .. n
  BY DEF n
<1>3. \A i, j \in 1 .. n : s[i] = s[j] => i = j
  BY <1>1 DEF IsInjective
<1>4. IsInjective(t)
  <2>1. ASSUME NEW i \in 1 .. n - 1, NEW j \in 1 .. n - 1, t[i] = t[j] PROVE i = j
    BY <1>1, <1>2, <1>3, <2>1
  <2> QED
    BY <1>1, <2>1 DEF IsInjective
<1>5. ASSUME NEW i \in 1 .. n - 1 PROVE t[i] \in ToSet(s) \ {s[k]}
  <2>1. \E j \in 1 .. n : t[i] = s[j] /\ j # k
    BY <1>1, <1>2
  <2> QED
    BY <1>1, <1>2, <1>3, <2>1 DEF ToSet
<1>6. ASSUME NEW i \in 1 .. n, i # k PROVE s[i] \in ToSet(t)
  <2>1. \E j \in 1 .. n - 1 : t[j] = s[i]
    <3>1. CASE i < k
      BY <1>1, <1>2, <3>1
    <3>2. CASE i > k
      <4>1. i - 1 \in 1 .. n - 1 /\ ~(i - 1 < k) /\ (i - 1) + 1 = i
        BY <1>1, <1>2, <3>2
      <4> QED
        BY <1>1, <4>1
    <3> QED
      BY <1>2, <1>6, <3>1, <3>2
  <2> QED
    BY <1>1, <2>1 DEF ToSet
<1>7. ToSet(t) \subseteq ToSet(s) \ {s[k]}
  BY <1>1, <1>5 DEF ToSet
<1>8. ToSet(s) \ {s[k]} \subseteq ToSet(t)
  BY <1>1, <1>6 DEF ToSet
<1> QED
  BY <1>4, <1>7, <1>8

Exchanged(s, k, x) == [s EXCEPT ![k] = x]

IsReplaced(t, s, k, x) ==
    /\ Len(t) = Len(s)
    /\ \A i \in 1 .. Len(s) : t[i] = IF i = k THEN x ELSE s[i]

LEMMA ReplacedItems ==
    ASSUME NEW S, NEW s \in Seq(S), IsInjective(s), NEW k \in 1 .. Len(s),
           NEW x \in S, x \notin ToSet(s), NEW t, t = Exchanged(s, k, x)
    PROVE  /\ t \in Seq(S) /\ IsReplaced(t, s, k, x)
           /\ ToSet(t) = (ToSet(s) \ {s[k]}) \cup {x} /\ IsInjective(t)
<1> DEFINE n == Len(s)
<1>1. /\ n \in Nat /\ DOMAIN s = 1 .. n /\ t \in Seq(S) /\ Len(t) = n
      /\ \A i \in 1 .. n : t[i] = IF i = k THEN x ELSE s[i]
  BY ExceptSeq, LenProperties DEF Exchanged
<1>2. DOMAIN t = 1 .. n
  BY <1>1, LenProperties
<1>3. \A i, j \in 1 .. n : s[i] = s[j] => i = j
  BY <1>1 DEF IsInjective
<1>4. \A i \in 1 .. n : s[i] # x
  BY <1>1 DEF ToSet
<1> HIDE DEF n
<1>5. k \in 1 .. n
  BY DEF n
<1>6. IsInjective(t)
  BY <1>1, <1>2, <1>3, <1>4 DEF IsInjective
<1>7. ToSet(t) = (ToSet(s) \ {s[k]}) \cup {x}
  BY <1>1, <1>2, <1>3, <1>5 DEF ToSet
<1> QED
  BY <1>1, <1>6, <1>7 DEF n, IsReplaced

-----------------------------------------------------------------------------
(* The cells of a part of a ring.                                          *)
LEMMA PartCells ==
    ASSUME NEW a, NEW s, NEW b, Part(a, s, b), ListAssumption, NEW c, c = Between(a, s, b)
    PROVE  /\ Len(s) \in Nat
           /\ Distinct(c, Len(s))
           /\ c[0] = a /\ c[Len(s) + 1] = b
           /\ \A i \in 1 .. Len(s) : c[i] = s[i] /\ s[i] \in Items /\ s[i] \in ToSet(s)
           /\ \A x \in ToSet(s) : \E i \in 1 .. Len(s) : x = s[i]
           /\ \A x \in Cells \ ToSet(s) : x # a /\ x # b => \A i \in 0 .. Len(s) + 1 : c[i] # x
<1> DEFINE n == Len(s)
<1>1. /\ n \in Nat /\ DOMAIN s = 1 .. n /\ a \in Cells /\ b \in Cells
      /\ \A i \in 1 .. n : s[i] \in Items
      /\ a \notin ToSet(s) /\ b \notin ToSet(s) /\ IsInjective(s)
  BY LenProperties, ElementOfSeq DEF Part
<1>2. ToSet(s) = {s[i] : i \in 1 .. n}
  BY <1>1 DEF ToSet
<1>3. c = [i \in 0 .. n + 1 |-> IF i = 0 THEN a ELSE IF i = n + 1 THEN b ELSE s[i]]
  BY DEF Between
<1> HIDE DEF n
<1>4. /\ c[0] = a /\ c[n + 1] = b
      /\ \A i \in 1 .. n : c[i] = s[i]
      /\ DOMAIN c = 0 .. n + 1
  BY <1>1, <1>3
<1>5. \A i \in 0 .. n + 1 : i = 0 \/ i = n + 1 \/ i \in 1 .. n
  BY <1>1
<1>6. c \in [0 .. n + 1 -> Cells]
  BY <1>1, <1>3, <1>5 DEF Cells
<1>7. \A i, j \in 1 .. n : s[i] = s[j] => i = j
  BY <1>1 DEF IsInjective
<1>8. \A i \in 1 .. n : s[i] # a /\ s[i] # b
  BY <1>1, <1>2
<1>9. \A i, j \in 0 .. n : c[i] = c[j] => i = j
  <2>1. \A i \in 0 .. n : i = 0 \/ i \in 1 .. n
    BY <1>1
  <2> QED
    BY <1>4, <1>7, <1>8, <2>1
<1>10. \A i, j \in 1 .. n + 1 : c[i] = c[j] => i = j
  <2>1. \A i \in 1 .. n + 1 : i = n + 1 \/ i \in 1 .. n
    BY <1>1
  <2> QED
    BY <1>4, <1>7, <1>8, <2>1
<1>11. ASSUME NEW x \in Cells \ ToSet(s), x # a, x # b, NEW i \in 0 .. n + 1
       PROVE  c[i] # x
  BY <1>2, <1>4, <1>5, <1>11
<1> QED
  BY <1>1, <1>2, <1>4, <1>6, <1>9, <1>10, <1>11 DEF Distinct, n

(* A part stays joined when its pointers stay as they are.                 *)
LEMMA JoinedStays ==
    ASSUME NEW a, NEW s, NEW b, Part(a, s, b), ListAssumption,
           NEW l, NEW m, Joined(l, a, s, b),
           \A x \in ToSet(s) \cup {a} : m.next[x] = l.next[x],
           \A x \in ToSet(s) \cup {b} : m.prev[x] = l.prev[x]
    PROVE  Joined(m, a, s, b)
<1> DEFINE n == Len(s)
<1>0. PICK c : c = Between(a, s, b)
  OBVIOUS
<1>1. /\ n \in Nat /\ c[0] = a /\ c[n + 1] = b
      /\ \A i \in 1 .. n : c[i] \in ToSet(s)
  BY <1>0, PartCells
<1>2. Chained(l, c, n)
  BY <1>0 DEF Joined
<1> HIDE DEF n
<1>3. ASSUME NEW i \in 0 .. n
      PROVE  m.next[c[i]] = c[i + 1] /\ m.prev[c[i + 1]] = c[i]
  <2>1. l.next[c[i]] = c[i + 1] /\ l.prev[c[i + 1]] = c[i]
    BY <1>2 DEF Chained
  <2>2. c[i] \in ToSet(s) \cup {a}
    <3>1. i = 0 \/ i \in 1 .. n
      BY <1>1
    <3> QED
      BY <1>1, <3>1
  <2>3. c[i + 1] \in ToSet(s) \cup {b}
    <3>1. i + 1 = n + 1 \/ i + 1 \in 1 .. n
      BY <1>1
    <3> QED
      BY <1>1, <3>1
  <2> QED
    BY <2>1, <2>2, <2>3
<1>4. Chained(m, c, n)
  BY <1>3 DEF Chained
<1> QED
  BY <1>0, <1>4 DEF Joined, n

(* Where the pointers may have changed when the part was changed.          *)
SameOutside(l, m, a, set, b) ==
    /\ \A x \in Cells \ (set \cup {a}) : m.next[x] = l.next[x]
    /\ \A x \in Cells \ (set \cup {b}) : m.prev[x] = l.prev[x]

LEMMA SeqCells ==
    ASSUME NEW s \in Seq(Items)
    PROVE  ToSet(s) \subseteq Items
  BY LenProperties, ElementOfSeq DEF ToSet

(* What an insertion at a place does to a part.                            *)
InsertedIn(l, m, a, s, b, x, t) ==
    /\ m \in Links
    /\ Part(a, t, b)
    /\ ToSet(t) = ToSet(s) \cup {x}
    /\ Joined(m, a, t, b)
    /\ SameOutside(l, m, a, ToSet(t), b)

LEMMA JoinedInsert ==
    ASSUME NEW a, NEW s, NEW b, Part(a, s, b), ListAssumption,
           NEW l \in Links, Joined(l, a, s, b),
           NEW x \in Items, x \notin ToSet(s), x # a, x # b,
           NEW k \in 0 .. Len(s),
           NEW t, t = InsertAt(s, k + 1, x),
           NEW m, m = Inserted(l, x, Between(a, s, b)[k], Between(a, s, b)[k + 1])
    PROVE  InsertedIn(l, m, a, s, b, x, t)
<1>0. PICK c : c = Between(a, s, b)
  OBVIOUS
<1> DEFINE n == Len(s)
<1>1. /\ n \in Nat /\ Distinct(c, n) /\ c[0] = a /\ c[n + 1] = b
      /\ \A i \in 1 .. n : c[i] = s[i] /\ s[i] \in Items /\ s[i] \in ToSet(s)
      /\ \A i \in 0 .. n + 1 : c[i] # x
  BY <1>0, PartCells DEF Cells
<1>2. /\ t \in Seq(Items)
      /\ Len(t) = n + 1
      /\ \A i \in 1 .. k : t[i] = s[i]
      /\ t[k + 1] = x
      /\ \A i \in k + 2 .. n + 1 : t[i] = s[i - 1]
  <2>1. s \in Seq(Items)
    BY DEF Part
  <2>2. t \in Seq(Items) /\ IsInserted(t, s, k, x)
    BY <2>1, InsertAtIs
  <2> QED
    BY <2>2 DEF IsInserted
<1>3. ToSet(t) = ToSet(s) \cup {x} /\ IsInjective(t)
  <2>1. s \in Seq(Items) /\ IsInjective(s)
    BY DEF Part
  <2> QED
    BY <2>1, InsertAtItems
<1>4. Chained(l, c, n)
  BY <1>0 DEF Joined
<1>5. m = Inserted(l, x, c[k], c[k + 1])
  BY <1>0
<1>6. PICK d : d = Between(a, t, b)
  OBVIOUS
<1>7. d = [i \in 0 .. n + 2 |-> IF i = 0 THEN a ELSE IF i = n + 2 THEN b ELSE t[i]]
  <2>1. Len(t) + 1 = n + 2
    BY <1>1, <1>2
  <2> QED
    BY <1>6, <2>1 DEF Between
<1>8. k \in 0 .. n /\ x \in Cells
  BY DEF Cells
<1> HIDE DEF n
<1>9. ASSUME NEW i \in 0 .. n + 2
      PROVE  d[i] = IF i <= k THEN c[i] ELSE IF i = k + 1 THEN x ELSE c[i - 1]
  <2>1. CASE i = 0
    BY <1>1, <1>7, <1>8, <2>1
  <2>2. CASE i = n + 2
    <3>1. d[i] = b /\ ~(i <= k) /\ i # k + 1 /\ i - 1 = n + 1
      BY <1>1, <1>7, <1>8, <2>2
    <3> QED
      BY <1>1, <3>1
  <2>3. CASE i # 0 /\ i <= k
    <3>1. d[i] = t[i] /\ i \in 1 .. k /\ i \in 1 .. n
      BY <1>1, <1>7, <1>8, <2>3
    <3> QED
      BY <1>1, <1>2, <2>3, <3>1
  <2>4. CASE i = k + 1
    <3>1. d[i] = t[i] /\ ~(i <= k)
      BY <1>1, <1>7, <1>8, <2>4
    <3> QED
      BY <1>2, <2>4, <3>1
  <2>5. CASE i # n + 2 /\ i > k + 1
    <3>1. d[i] = t[i] /\ i \in k + 2 .. n + 1 /\ i - 1 \in 1 .. n /\ ~(i <= k) /\ i # k + 1
      BY <1>1, <1>7, <1>8, <2>5
    <3> QED
      BY <1>1, <1>2, <3>1
  <2> QED
    BY <1>8, <2>1, <2>2, <2>3, <2>4, <2>5
<1>11. Chained(m, d, n + 1) /\ m \in Links
  BY <1>1, <1>4, <1>5, <1>8, <1>9, ChainInsert
<1>12. Joined(m, a, t, b)
  BY <1>2, <1>6, <1>11 DEF Joined
<1>13. Part(a, t, b)
  BY <1>2, <1>3 DEF Part
<1>14. SameOutside(l, m, a, ToSet(t), b)
  <2>1. c[k] \in ToSet(s) \cup {a} /\ c[k + 1] \in ToSet(s) \cup {b}
    <3>1. (k = 0 \/ k \in 1 .. n) /\ (k + 1 = n + 1 \/ k + 1 \in 1 .. n)
      BY <1>1, <1>8
    <3> QED
      BY <1>1, <3>1
  <2> QED
    BY <1>3, <1>5, <2>1 DEF SameOutside, Inserted, Links
<1> QED
  BY <1>3, <1>11, <1>12, <1>13, <1>14 DEF InsertedIn

(* What the removal of an item does to a part.                             *)
RemovedIn(l, m, a, s, b, k, t) ==
    /\ m \in Links
    /\ Part(a, t, b)
    /\ ToSet(t) = ToSet(s) \ {s[k]}
    /\ Joined(m, a, t, b)
    /\ SameOutside(l, m, a, ToSet(s), b)

LEMMA JoinedRemove ==
    ASSUME NEW a, NEW s, NEW b, Part(a, s, b), ListAssumption,
           NEW l \in Links, Joined(l, a, s, b), NEW k \in 1 .. Len(s),
           NEW t, t = RemoveAt(s, k), NEW m, m = Removed(l, s[k])
    PROVE  RemovedIn(l, m, a, s, b, k, t)
<1>0. PICK c : c = Between(a, s, b)
  OBVIOUS
<1> DEFINE n == Len(s)
<1>1. /\ n \in Nat /\ Distinct(c, n) /\ c[0] = a /\ c[n + 1] = b
      /\ \A i \in 1 .. n : c[i] = s[i] /\ s[i] \in Items /\ s[i] \in ToSet(s)
  BY <1>0, PartCells
<1>2. /\ t \in Seq(Items)
      /\ Len(t) = n - 1
      /\ \A i \in 1 .. n - 1 : t[i] = IF i < k THEN s[i] ELSE s[i + 1]
  <2>1. s \in Seq(Items)
    BY DEF Part
  <2>2. t \in Seq(Items) /\ IsTakenOut(t, s, k)
    BY <2>1, RemoveAtIs
  <2> QED
    BY <2>2 DEF IsTakenOut
<1>3. ToSet(t) = ToSet(s) \ {s[k]} /\ IsInjective(t)
  <2>1. s \in Seq(Items) /\ IsInjective(s)
    BY DEF Part
  <2> QED
    BY <2>1, RemoveAtItems
<1>4. Chained(l, c, n)
  BY <1>0 DEF Joined
<1>5. m = Removed(l, c[k])
  BY <1>1
<1>6. PICK d : d = Between(a, t, b)
  OBVIOUS
<1>7. d = [i \in 0 .. n |-> IF i = 0 THEN a ELSE IF i = n THEN b ELSE t[i]]
  <2>1. Len(t) + 1 = n
    BY <1>1, <1>2
  <2> QED
    BY <1>6, <2>1 DEF Between
<1>8. k \in 1 .. n
  OBVIOUS
<1> HIDE DEF n
<1>9. ASSUME NEW i \in 0 .. n
      PROVE  d[i] = IF i < k THEN c[i] ELSE c[i + 1]
  <2>1. CASE i = 0
    BY <1>1, <1>7, <1>8, <2>1
  <2>2. CASE i = n
    <3>1. d[i] = b /\ ~(i < k)
      BY <1>1, <1>7, <1>8, <2>2
    <3> QED
      BY <1>1, <2>2, <3>1
  <2>3. CASE i # 0 /\ i # n
    <3>1. d[i] = t[i] /\ i \in 1 .. n - 1 /\ i \in 1 .. n /\ i + 1 \in 1 .. n
      BY <1>1, <1>7, <1>8, <2>3
    <3> QED
      BY <1>1, <1>2, <3>1
  <2> QED
    BY <2>1, <2>2, <2>3
<1>11. Chained(m, d, n - 1) /\ m \in Links
  BY <1>1, <1>4, <1>5, <1>8, <1>9, ChainRemove
<1>12. Joined(m, a, t, b)
  BY <1>2, <1>6, <1>11 DEF Joined
<1>13. Part(a, t, b)
  BY <1>2, <1>3 DEF Part
<1>14. /\ c[k - 1] \in ToSet(t) \cup {a} /\ c[k + 1] \in ToSet(t) \cup {b}
       /\ l.prev[c[k]] = c[k - 1] /\ l.next[c[k]] = c[k + 1]
  <2>1. k - 1 = 0 \/ k - 1 \in 1 .. n
    BY <1>1, <1>8
  <2>2. k + 1 = n + 1 \/ k + 1 \in 1 .. n
    BY <1>1, <1>8
  <2>3. k \in 0 .. n /\ k - 1 \in 0 .. n /\ (k - 1) + 1 = k
        /\ k + 1 \in 1 .. n + 1 /\ k \in 1 .. n + 1
    BY <1>1, <1>8
  <2>4. c[k - 1] # c[k] /\ c[k + 1] # c[k]
    BY <1>1, <2>3 DEF Distinct
  <2>5. l.prev[c[k]] = c[k - 1] /\ l.next[c[k]] = c[k + 1]
    BY <1>4, <2>3 DEF Chained
  <2>6. c[k - 1] \in ToSet(t) \cup {a}
    BY <1>1, <1>3, <1>8, <2>1, <2>4
  <2>7. c[k + 1] \in ToSet(t) \cup {b}
    BY <1>1, <1>3, <1>8, <2>2, <2>4
  <2> QED
    BY <2>5, <2>6, <2>7
<1>15. /\ \A x \in Cells \ (ToSet(t) \cup {a}) : m.next[x] = l.next[x]
       /\ \A x \in Cells \ (ToSet(t) \cup {b}) : m.prev[x] = l.prev[x]
  BY <1>5, <1>14 DEF Removed, Links
<1>16. SameOutside(l, m, a, ToSet(s), b)
  BY <1>3, <1>15 DEF SameOutside
<1> QED
  BY <1>3, <1>11, <1>12, <1>13, <1>16 DEF RemovedIn

(* What the replacement of an item does to a part.                         *)
ReplacedIn(l, m, a, s, b, k, x, t) ==
    /\ m \in Links
    /\ Part(a, t, b)
    /\ ToSet(t) = (ToSet(s) \ {s[k]}) \cup {x}
    /\ Joined(m, a, t, b)
    /\ SameOutside(l, m, a, ToSet(s) \cup {x}, b)

LEMMA JoinedReplace ==
    ASSUME NEW a, NEW s, NEW b, Part(a, s, b), ListAssumption,
           NEW l \in Links, Joined(l, a, s, b), NEW k \in 1 .. Len(s),
           NEW x \in Items, x \notin ToSet(s), x # a, x # b,
           NEW t, t = Exchanged(s, k, x),
           NEW m, m = Inserted(l, x, l.prev[s[k]], l.next[s[k]])
    PROVE  ReplacedIn(l, m, a, s, b, k, x, t)
<1>0. PICK c : c = Between(a, s, b)
  OBVIOUS
<1> DEFINE n == Len(s)
<1>1. /\ n \in Nat /\ Distinct(c, n) /\ c[0] = a /\ c[n + 1] = b
      /\ \A i \in 1 .. n : c[i] = s[i] /\ s[i] \in Items /\ s[i] \in ToSet(s)
      /\ \A i \in 0 .. n + 1 : c[i] # x
  BY <1>0, PartCells DEF Cells
<1>2. /\ t \in Seq(Items) /\ Len(t) = n
      /\ \A i \in 1 .. n : t[i] = IF i = k THEN x ELSE s[i]
      /\ ToSet(t) = (ToSet(s) \ {s[k]}) \cup {x} /\ IsInjective(t)
  <2>1. s \in Seq(Items) /\ IsInjective(s)
    BY DEF Part
  <2>2. /\ t \in Seq(Items) /\ IsReplaced(t, s, k, x)
        /\ ToSet(t) = (ToSet(s) \ {s[k]}) \cup {x} /\ IsInjective(t)
    BY <2>1, ReplacedItems
  <2> QED
    BY <2>2 DEF IsReplaced
<1>4. Chained(l, c, n)
  BY <1>0 DEF Joined
<1>5. m = Inserted(l, x, l.prev[c[k]], l.next[c[k]])
  BY <1>1
<1>6. PICK d : d = Between(a, t, b)
  OBVIOUS
<1>7. d = [i \in 0 .. n + 1 |-> IF i = 0 THEN a ELSE IF i = n + 1 THEN b ELSE t[i]]
  BY <1>2, <1>6 DEF Between
<1>8. k \in 1 .. n /\ x \in Cells
  BY DEF Cells
<1> HIDE DEF n
<1>9. /\ d[k] = x
      /\ \A i \in (0 .. n + 1) \ {k} : d[i] = c[i]
  <2>1. /\ \A i \in 0 .. n + 1 : i = 0 \/ i = n + 1 \/ i \in 1 .. n
        /\ 0 \in 0 .. n + 1 /\ n + 1 \in 0 .. n + 1 /\ n + 1 # 0
        /\ \A i \in 1 .. n : i \in 0 .. n + 1 /\ i # 0 /\ i # n + 1
    BY <1>1
  <2>2. d[0] = a /\ d[n + 1] = b /\ \A i \in 1 .. n : d[i] = t[i]
    BY <1>7, <2>1
  <2>3. d[k] = x
    BY <1>2, <1>8, <2>2
  <2>4. ASSUME NEW i \in 0 .. n + 1, i # k PROVE d[i] = c[i]
    BY <1>1, <1>2, <2>1, <2>2, <2>4
  <2> QED
    BY <2>3, <2>4
<1>10. /\ c[k - 1] \in ToSet(s) \cup {a} /\ c[k + 1] \in ToSet(s) \cup {b}
       /\ l.prev[c[k]] = c[k - 1] /\ l.next[c[k]] = c[k + 1]
  <2>1. k - 1 = 0 \/ k - 1 \in 1 .. n
    BY <1>1, <1>8
  <2>2. k + 1 = n + 1 \/ k + 1 \in 1 .. n
    BY <1>1, <1>8
  <2>3. k \in 0 .. n /\ k - 1 \in 0 .. n /\ (k - 1) + 1 = k
    BY <1>1, <1>8
  <2>4. l.prev[c[k]] = c[k - 1] /\ l.next[c[k]] = c[k + 1]
    BY <1>4, <2>3 DEF Chained
  <2> QED
    BY <1>1, <2>1, <2>2, <2>4
<1>11. Chained(m, d, n) /\ m \in Links
  <2>1. m = Inserted(l, x, c[k - 1], c[k + 1])
    BY <1>5, <1>10
  <2> QED
    BY <1>1, <1>4, <1>8, <1>9, <2>1, ChainReplace
<1>12. Joined(m, a, t, b)
  BY <1>2, <1>6, <1>11 DEF Joined
<1>13. a \notin ToSet(t) /\ b \notin ToSet(t)
  BY <1>2 DEF Part
<1>14. Part(a, t, b)
  BY <1>2, <1>13 DEF Part
<1>15. SameOutside(l, m, a, ToSet(s) \cup {x}, b)
  BY <1>5, <1>10 DEF SameOutside, Inserted, Links
<1> QED
  BY <1>2, <1>11, <1>12, <1>14, <1>15 DEF ReplacedIn

-----------------------------------------------------------------------------
(* A walk along the pointers of a ring comes to the items of its list, and *)
(* to nothing else.                                                        *)
LEMMA LeastIsMin ==
    ASSUME NEW T \in SUBSET Int, NEW m \in T, \A k \in T : m <= k
    PROVE  Min(T) = m
<1>1. \A x \in T : (\A y \in T : x <= y) => x = m
  BY Z3
<1> QED
  BY <1>1 DEF Min

LEMMA FitsItems ==
    ASSUME NEW s \in Seq(Items), IsInjective(s), ListAssumption
    PROVE  Len(s) \in Nat /\ Cardinality(Items) \in Nat /\ Len(s) <= Cardinality(Items)
<1> DEFINE n == Len(s)
<1>1. n \in Nat /\ DOMAIN s = 1 .. n /\ s \in [1 .. n -> Items] /\ IsFiniteSet(Items)
  BY LenProperties DEF ListAssumption
<1>2. s \in Injection(1 .. n, Items)
  BY <1>1 DEF Injection, IsInjective
<1>3. Cardinality(1 .. n) = n
  <2>1. 1 \in Int /\ n \in Int
    BY <1>1
  <2>2. Cardinality(1 .. n) = IF 1 > n THEN 0 ELSE n - 1 + 1
    BY <2>1, FS_Interval
  <2> HIDE DEF n
  <2> QED
    BY <1>1, <2>2
<1>4. Cardinality(1 .. n) <= Cardinality(Items)
  BY <1>1, <1>2, FS_Injection
<1>5. Cardinality(Items) \in Nat
  BY <1>1, FS_CardinalityType
<1> QED
  BY <1>1, <1>3, <1>4, <1>5

LEMMA WalkIs ==
    ASSUME ListAssumption, NEW pointer, NEW head, NEW s \in Seq(Items), IsInjective(s),
           head \notin ToSet(s),
           NEW c, c = Between(head, s, head),
           \A i \in 0 .. Len(s) : pointer[c[i]] = c[i + 1]
    PROVE  Walk(pointer, head) = s
<1> DEFINE n == Len(s)
           N == Cardinality(Items)
           Cell(i) == Repeated(pointer, head, i)
<1>1. n \in Nat /\ N \in Nat /\ n <= N /\ DOMAIN s = 1 .. n
  BY FitsItems, LenProperties
<1>2. /\ c[0] = head /\ c[n + 1] = head
      /\ \A i \in 1 .. n : c[i] = s[i] /\ c[i] # head
  <2>1. \A i \in 1 .. n : s[i] \in ToSet(s)
    BY <1>1 DEF ToSet
  <2> HIDE DEF n
  <2>2. c = [i \in 0 .. n + 1 |-> IF i = 0 THEN head ELSE IF i = n + 1 THEN head ELSE s[i]]
    BY DEF Between, n
  <2> QED
    BY <1>1, <2>1, <2>2
<1>3. ASSUME NEW i \in 0 .. n + 1 PROVE Cell(i) = c[i]
  <2> DEFINE P == [j \in Int |-> {c[j]}]
  <2>1. i \in Nat /\ head \in P[0]
    BY <1>2
  <2>2. ASSUME NEW j \in 0 .. i, j # i PROVE \A x \in P[j] : pointer[x] \in P[j + 1]
    <3>1. j \in Int /\ j + 1 \in Int /\ j \in 0 .. Len(s)
      BY <1>1, <2>2
    <3>2. pointer[c[j]] = c[j + 1]
      BY <3>1
    <3> QED
      BY <3>1, <3>2
  <2> HIDE DEF P
  <2>3. Repeated(pointer, head, i) \in P[i]
    BY <2>1, <2>2, RepeatedKeeps
  <2> QED
    BY <2>1, <2>3 DEF P
<1> DEFINE back == {i \in 1 .. N + 1 : Cell(i) = head}
           last == IF back = {} THEN N ELSE Min(back) - 1
<1>4. Walk(pointer, head) = [i \in 1 .. last |-> Cell(i)]
  BY DEF Walk
<1> HIDE DEF n, N, Cell
<1>5. n + 1 \in back
  <2>1. n + 1 \in 1 .. N + 1 /\ n + 1 \in 0 .. n + 1
    BY <1>1
  <2> QED
    BY <1>2, <1>3, <2>1
<1>6. ASSUME NEW i \in back PROVE n + 1 <= i
  <2>1. SUFFICES ASSUME i <= n PROVE FALSE
    BY <1>1
  <2>2. i \in 1 .. n /\ i \in 0 .. n + 1 /\ Cell(i) = head
    BY <1>1, <2>1
  <2> QED
    BY <1>2, <1>3, <2>2
<1>7. Min(back) = n + 1
  <2>1. back \in SUBSET Int
    BY <1>1
  <2> HIDE DEF back
  <2> QED
    BY <1>5, <1>6, <2>1, LeastIsMin
<1>8. last = n
  BY <1>1, <1>5, <1>7
<1> HIDE DEF back, last
<1>9. \A i \in 1 .. n : Cell(i) = s[i]
  <2>1. \A i \in 1 .. n : i \in 0 .. n + 1
    BY <1>1
  <2> QED
    BY <1>2, <1>3, <2>1
<1>10. s = [i \in 1 .. n |-> s[i]]
  BY <1>1, LenProperties DEF n
<1> QED
  BY <1>4, <1>8, <1>9, <1>10

-----------------------------------------------------------------------------
(* A list around an item: what is in front of it, and what is behind it.   *)
IsAround(s, u, x, v) ==
    /\ Len(s) = Len(u) + 1 + Len(v)
    /\ \A i \in 1 .. Len(u) : s[i] = u[i]
    /\ s[Len(u) + 1] = x
    /\ \A i \in 1 .. Len(v) : s[Len(u) + 1 + i] = v[i]

(* The two sides of an item of a part are parts of their own.              *)
SplitsAt(a, s, b, u, x, v) ==
    /\ Part(a, u, x) /\ Part(x, v, b)
    /\ ToSet(s) = ToSet(u) \cup {x} \cup ToSet(v)
    /\ ToSet(u) \cap ToSet(v) = {}
    /\ x \in Items

LEMMA SplitPart ==
    ASSUME NEW a, NEW s, NEW b, Part(a, s, b), ListAssumption,
           NEW u \in Seq(Items), NEW v \in Seq(Items), NEW x, IsAround(s, u, x, v)
    PROVE  SplitsAt(a, s, b, u, x, v)
<1> DEFINE n == Len(s)
           p == Len(u)
           q == Len(v)
<1>1. /\ n \in Nat /\ p \in Nat /\ q \in Nat /\ n = p + 1 + q
      /\ DOMAIN s = 1 .. n /\ DOMAIN u = 1 .. p /\ DOMAIN v = 1 .. q
      /\ a \in Cells /\ b \in Cells
      /\ \A i \in 1 .. n : s[i] \in Items
      /\ a \notin ToSet(s) /\ b \notin ToSet(s) /\ IsInjective(s)
  BY LenProperties, ElementOfSeq DEF Part, IsAround
<1>2. /\ \A i \in 1 .. p : s[i] = u[i]
      /\ s[p + 1] = x
      /\ \A i \in 1 .. q : s[p + 1 + i] = v[i]
  BY DEF IsAround
<1> HIDE DEF n, p, q
<1>3. /\ \A i \in 1 .. p : i \in 1 .. n
      /\ p + 1 \in 1 .. n
      /\ \A i \in 1 .. q : p + 1 + i \in 1 .. n
      /\ \A i \in 1 .. n : i \in 1 .. p \/ i = p + 1 \/ (i - (p + 1) \in 1 .. q /\ p + 1 + (i - (p + 1)) = i)
  BY <1>1
<1>4. /\ ToSet(s) = {s[i] : i \in 1 .. n}
      /\ ToSet(u) = {u[i] : i \in 1 .. p}
      /\ ToSet(v) = {v[i] : i \in 1 .. q}
  BY <1>1 DEF ToSet
<1>5. \A i, j \in 1 .. n : s[i] = s[j] => i = j
  BY <1>1 DEF IsInjective
<1>6. ToSet(s) = ToSet(u) \cup {x} \cup ToSet(v)
  <2>1. ToSet(u) \subseteq ToSet(s) /\ x \in ToSet(s) /\ ToSet(v) \subseteq ToSet(s)
    BY <1>2, <1>3, <1>4
  <2>2. ToSet(s) \subseteq ToSet(u) \cup {x} \cup ToSet(v)
    <3>1. ASSUME NEW i \in 1 .. n PROVE s[i] \in ToSet(u) \cup {x} \cup ToSet(v)
      <4>1. CASE i \in 1 .. p
        BY <1>2, <1>4, <4>1
      <4>2. CASE i = p + 1
        BY <1>2, <4>2
      <4>3. CASE i - (p + 1) \in 1 .. q /\ p + 1 + (i - (p + 1)) = i
        <5>1. s[i] = v[i - (p + 1)]
          BY <1>2, <4>3
        <5> QED
          BY <1>4, <4>3, <5>1
      <4> QED
        BY <1>3, <4>1, <4>2, <4>3
    <3> QED
      BY <1>4, <3>1
  <2> QED
    BY <2>1, <2>2
<1>7. IsInjective(u)
  <2>1. \A i, j \in 1 .. p : u[i] = u[j] => i = j
    BY <1>2, <1>3, <1>5
  <2> QED
    BY <1>1, <2>1 DEF IsInjective
<1>8. IsInjective(v)
  <2>1. ASSUME NEW i \in 1 .. q, NEW j \in 1 .. q, v[i] = v[j] PROVE i = j
    <3>1. p + 1 + i = p + 1 + j
      BY <1>2, <1>3, <1>5, <2>1
    <3> QED
      BY <1>1, <3>1
  <2> QED
    BY <1>1, <2>1 DEF IsInjective
<1>9. ToSet(u) \cap ToSet(v) = {}
  <2>1. ASSUME NEW i \in 1 .. p, NEW j \in 1 .. q PROVE u[i] # v[j]
    <3>1. i # p + 1 + j
      BY <1>1
    <3> QED
      BY <1>2, <1>3, <1>5, <3>1
  <2> QED
    BY <1>4, <2>1
<1>10. x \notin ToSet(u)
  <2>1. ASSUME NEW i \in 1 .. p PROVE u[i] # x
    <3>1. i # p + 1
      BY <1>1
    <3> QED
      BY <1>2, <1>3, <1>5, <3>1
  <2> QED
    BY <1>4, <2>1
<1>11. x \notin ToSet(v)
  <2>1. ASSUME NEW j \in 1 .. q PROVE v[j] # x
    <3>1. p + 1 # p + 1 + j
      BY <1>1
    <3> QED
      BY <1>2, <1>3, <1>5, <3>1
  <2> QED
    BY <1>4, <2>1
<1>12. x \in Items
  BY <1>1, <1>2, <1>3
<1>13. Part(a, u, x)
  BY <1>1, <1>6, <1>7, <1>10, <1>12 DEF Part, Cells
<1>14. Part(x, v, b)
  BY <1>1, <1>6, <1>8, <1>11, <1>12 DEF Part, Cells
<1> QED
  BY <1>6, <1>9, <1>12, <1>13, <1>14 DEF SplitsAt

IsConcat(t, s, u) ==
    /\ Len(t) = Len(s) + Len(u)
    /\ \A i \in 1 .. Len(s) : t[i] = s[i]
    /\ \A i \in 1 .. Len(u) : t[Len(s) + i] = u[i]

LEMMA ConcatIs ==
    ASSUME NEW S, NEW s \in Seq(S), NEW u \in Seq(S), NEW t, t = s \o u
    PROVE  t \in Seq(S) /\ IsConcat(t, s, u)
<1>1. /\ s \o u \in Seq(S) /\ Len(s \o u) = Len(s) + Len(u)
      /\ \A i \in 1 .. Len(s) + Len(u) :
            (s \o u)[i] = IF i <= Len(s) THEN s[i] ELSE u[i - Len(s)]
  BY ConcatProperties
<1>2. Len(s) \in Nat /\ Len(u) \in Nat
  BY LenProperties
<1>3. ASSUME NEW i \in 1 .. Len(s) PROVE t[i] = s[i]
  BY <1>1, <1>2
<1>4. ASSUME NEW i \in 1 .. Len(u) PROVE t[Len(s) + i] = u[i]
  <2>1. Len(s) + i \in 1 .. Len(s) + Len(u) /\ ~(Len(s) + i <= Len(s)) /\ (Len(s) + i) - Len(s) = i
    BY <1>2
  <2> QED
    BY <1>1, <2>1
<1> QED
  BY <1>1, <1>3, <1>4 DEF IsConcat

(* And a list is made of its parts around an item.                         *)
LEMMA JoinParts ==
    ASSUME NEW a, NEW u, NEW x \in Items, NEW v, NEW b,
           Part(a, u, x), Part(x, v, b), ListAssumption,
           ToSet(u) \cap ToSet(v) = {}, a \notin ToSet(v), b \notin ToSet(u),
           a # x, b # x,
           NEW s, s = (u \o <<x>>) \o v
    PROVE  /\ Part(a, s, b)
           /\ IsAround(s, u, x, v)
<1>1. u \in Seq(Items) /\ v \in Seq(Items) /\ <<x>> \in Seq(Items) /\ Len(<<x>>) = 1 /\ <<x>>[1] = x
  BY DEF Part
<1>2. PICK w : w = u \o <<x>>
  OBVIOUS
<1>3. w \in Seq(Items) /\ IsConcat(w, u, <<x>>)
  BY <1>1, <1>2, ConcatIs
<1>4. s = w \o v
  BY <1>2
<1>5. s \in Seq(Items) /\ IsConcat(s, w, v)
  BY <1>1, <1>3, <1>4, ConcatIs
<1> DEFINE p == Len(u)
           q == Len(v)
<1>6. p \in Nat /\ q \in Nat
  BY <1>1, LenProperties
<1> HIDE DEF p, q
<1>7. Len(w) = p + 1 /\ (\A i \in 1 .. p : w[i] = u[i]) /\ w[p + 1] = x
  BY <1>1, <1>3, <1>6 DEF IsConcat, p
<1>8. /\ Len(s) = p + 1 + q
      /\ \A i \in 1 .. p + 1 : s[i] = w[i]
      /\ \A i \in 1 .. q : s[p + 1 + i] = v[i]
  BY <1>5, <1>7 DEF IsConcat, q
<1>9. IsAround(s, u, x, v)
  <2>1. (\A i \in 1 .. p : s[i] = u[i]) /\ s[p + 1] = x
    BY <1>6, <1>7, <1>8
  <2> QED
    BY <1>8, <2>1 DEF IsAround, p, q
<1>10. ToSet(w) = ToSet(u) \cup {x} /\ IsInjective(w)
  <2>1. w = Append(u, x)
    BY <1>1, <1>2, AppendIsConcat
  <2>2. IsInjective(u) /\ x \notin ToSet(u)
    BY DEF Part
  <2> QED
    BY <1>1, <2>1, <2>2, ListInsertBack
<1>11. ToSet(s) = ToSet(w) \cup ToSet(v) /\ IsInjective(s)
  <2>1. IsInjective(v) /\ x \notin ToSet(v)
    BY DEF Part
  <2>2. ToSet(w) \cap ToSet(v) = {}
    BY <1>10, <2>1
  <2> QED
    <3>1. ToSet(w \o v) = ToSet(w) \cup ToSet(v) /\ IsInjective(w \o v)
      BY <1>1, <1>3, <1>10, <2>1, <2>2, ListConcat
    <3> QED
      BY <1>4, <3>1
<1>12. Part(a, s, b)
  BY <1>5, <1>10, <1>11 DEF Part
<1> QED
  BY <1>9, <1>12

(* The pointers join a part exactly when they join its two sides.          *)
JoinedSides(l, a, s, b, u, x, v) ==
    Joined(l, a, s, b) <=> Joined(l, a, u, x) /\ Joined(l, x, v, b)

LEMMA JoinedAround ==
    ASSUME NEW a, NEW s, NEW b, Part(a, s, b), ListAssumption,
           NEW u \in Seq(Items), NEW v \in Seq(Items), NEW x, IsAround(s, u, x, v),
           NEW l
    PROVE  JoinedSides(l, a, s, b, u, x, v)
<1> DEFINE n == Len(s)
           p == Len(u)
           q == Len(v)
<1>1. n \in Nat /\ p \in Nat /\ q \in Nat /\ n = p + 1 + q
  BY LenProperties DEF Part, IsAround
<1>2. PICK c : c = Between(a, s, b)
  OBVIOUS
<1>3. PICK d : d = Between(a, u, x)
  OBVIOUS
<1>4. PICK e : e = Between(x, v, b)
  OBVIOUS
<1>5. /\ \A i \in 1 .. p : s[i] = u[i]
      /\ s[p + 1] = x
      /\ \A i \in 1 .. q : s[p + 1 + i] = v[i]
  BY DEF IsAround
<1>6. /\ c = [i \in 0 .. n + 1 |-> IF i = 0 THEN a ELSE IF i = n + 1 THEN b ELSE s[i]]
      /\ d = [i \in 0 .. p + 1 |-> IF i = 0 THEN a ELSE IF i = p + 1 THEN x ELSE u[i]]
      /\ e = [i \in 0 .. q + 1 |-> IF i = 0 THEN x ELSE IF i = q + 1 THEN b ELSE v[i]]
  BY <1>2, <1>3, <1>4 DEF Between
<1>7. /\ Joined(l, a, s, b) <=> Chained(l, c, n)
      /\ Joined(l, a, u, x) <=> Chained(l, d, p)
      /\ Joined(l, x, v, b) <=> Chained(l, e, q)
  BY <1>2, <1>3, <1>4 DEF Joined
<1> HIDE DEF n, p, q
<1>8. \A i \in 0 .. p + 1 : d[i] = c[i]
  <2>1. ASSUME NEW i \in 0 .. p + 1 PROVE d[i] = c[i]
    <3>1. i \in 0 .. n + 1 /\ i # n + 1
      BY <1>1
    <3>2. i = 0 \/ i = p + 1 \/ i \in 1 .. p
      BY <1>1
    <3> QED
      BY <1>1, <1>5, <1>6, <3>1, <3>2
  <2> QED
    BY <2>1
<1>9. \A i \in 0 .. q + 1 : e[i] = c[p + 1 + i]
  <2>1. ASSUME NEW i \in 0 .. q + 1 PROVE e[i] = c[p + 1 + i]
    <3>1. p + 1 + i \in 0 .. n + 1 /\ p + 1 + i # 0 /\ (p + 1 + i = n + 1 <=> i = q + 1)
      BY <1>1
    <3>2. i = 0 \/ i = q + 1 \/ i \in 1 .. q
      BY <1>1
    <3>3. CASE i = 0
      <4>1. p + 1 + i = p + 1 /\ i # q + 1 /\ p + 1 # 0 /\ p + 1 # n + 1 /\ p + 1 \in 0 .. n + 1
        BY <1>1, <3>3
      <4> QED
        BY <1>5, <1>6, <3>3, <4>1
    <3>4. CASE i = q + 1
      BY <1>1, <1>6, <3>1, <3>4
    <3>5. CASE i \in 1 .. q
      <4>1. i # 0 /\ i # q + 1
        BY <1>1, <3>5
      <4> QED
        BY <1>5, <1>6, <3>1, <3>5, <4>1
    <3> QED
      BY <3>2, <3>3, <3>4, <3>5
  <2> QED
    BY <2>1
<1>10. ASSUME Chained(l, c, n) PROVE Chained(l, d, p) /\ Chained(l, e, q)
  <2>1. ASSUME NEW i \in 0 .. p PROVE l.next[d[i]] = d[i + 1] /\ l.prev[d[i + 1]] = d[i]
    <3>1. i \in 0 .. n /\ i \in 0 .. p + 1 /\ i + 1 \in 0 .. p + 1
      BY <1>1
    <3>2. l.next[c[i]] = c[i + 1] /\ l.prev[c[i + 1]] = c[i]
      BY <1>10, <3>1 DEF Chained
    <3> QED
      BY <1>8, <3>1, <3>2
  <2>2. ASSUME NEW i \in 0 .. q PROVE l.next[e[i]] = e[i + 1] /\ l.prev[e[i + 1]] = e[i]
    <3> DEFINE j == p + 1 + i
    <3>1. j \in 0 .. n /\ i \in 0 .. q + 1 /\ i + 1 \in 0 .. q + 1 /\ p + 1 + (i + 1) = j + 1
      BY <1>1
    <3>2. e[i] = c[j] /\ e[i + 1] = c[j + 1]
      BY <1>9, <3>1
    <3> HIDE DEF j
    <3>3. l.next[c[j]] = c[j + 1] /\ l.prev[c[j + 1]] = c[j]
      BY <1>10, <3>1 DEF Chained
    <3> QED
      BY <3>2, <3>3
  <2> QED
    BY <2>1, <2>2 DEF Chained
<1>11. ASSUME Chained(l, d, p), Chained(l, e, q) PROVE Chained(l, c, n)
  <2>1. ASSUME NEW i \in 0 .. n PROVE l.next[c[i]] = c[i + 1] /\ l.prev[c[i + 1]] = c[i]
    <3>1. CASE i <= p
      <4>1. i \in 0 .. p /\ i \in 0 .. p + 1 /\ i + 1 \in 0 .. p + 1
        BY <1>1, <3>1
      <4>2. l.next[d[i]] = d[i + 1] /\ l.prev[d[i + 1]] = d[i]
        BY <1>11, <4>1 DEF Chained
      <4> QED
        BY <1>8, <4>1, <4>2
    <3>2. CASE i > p
      <4> DEFINE j == i - (p + 1)
      <4>1. j \in 0 .. q /\ j \in 0 .. q + 1 /\ j + 1 \in 0 .. q + 1 /\ p + 1 + j = i /\ p + 1 + (j + 1) = i + 1
        BY <1>1, <3>2
      <4> HIDE DEF j
      <4>2. l.next[e[j]] = e[j + 1] /\ l.prev[e[j + 1]] = e[j]
        BY <1>11, <4>1 DEF Chained
      <4>3. e[j] = c[i] /\ e[j + 1] = c[i + 1]
        BY <1>9, <4>1
      <4> QED
        BY <4>2, <4>3
    <3> QED
      BY <1>1, <3>1, <3>2
  <2> QED
    BY <2>1 DEF Chained
<1> QED
  BY <1>7, <1>10, <1>11 DEF JoinedSides

-----------------------------------------------------------------------------
(* The loop of List_Quicksort.  After i rounds the part holds the same     *)
(* items in another order: what is in front of the pivot is less than it,  *)
(* what is behind the item the loop has come to is not, and the loop has   *)
(* come i items nearer to the pivot, or is there.                          *)
Rounds == [links : Links, item : Cells]

OrderedRound(u, p, q, pivot, item, i) ==
    /\ p <= q
    /\ u[p] = pivot
    /\ u[q] = item
    /\ p = q \/ q - p + i < Len(u)
    /\ \A j \in 1 .. p - 1 : Rank[u[j]] < Rank[pivot]
    /\ \A j \in q + 1 .. Len(u) : Rank[u[j]] >= Rank[pivot]

SamePart(l, m, a, s, u, b) ==
    /\ Part(a, u, b)
    /\ Len(u) = Len(s)
    /\ ToSet(u) = ToSet(s)
    /\ Joined(m, a, u, b)
    /\ SameOutside(l, m, a, ToSet(s), b)

PartingInv(at, i, l, a, s, b, pivot) ==
    \E u \in Seq(Items) :
        /\ SamePart(l, at.links, a, s, u, b)
        /\ \E p, q \in 1 .. Len(s) : OrderedRound(u, p, q, pivot, at.item, i)

(* The cells before an item of a part.                                     *)
PrevsIn(l, a, s, b, k) ==
    /\ l.prev[s[k]] = Between(a, s, b)[k - 1]
    /\ Between(a, s, b)[k] = s[k]
    /\ k > 1 => l.prev[s[k]] = s[k - 1]

LEMMA PrevIn ==
    ASSUME NEW a, NEW s, NEW b, Part(a, s, b), ListAssumption,
           NEW l, Joined(l, a, s, b), NEW k \in 1 .. Len(s)
    PROVE  PrevsIn(l, a, s, b, k)
<1>0. PICK c : c = Between(a, s, b)
  OBVIOUS
<1> DEFINE n == Len(s)
<1>1. n \in Nat /\ \A i \in 1 .. n : c[i] = s[i]
  BY <1>0, PartCells
<1>2. Chained(l, c, n)
  BY <1>0 DEF Joined
<1>3. k \in 1 .. n
  OBVIOUS
<1> HIDE DEF n
<1>4. k - 1 \in 0 .. n /\ (k - 1) + 1 = k /\ (k > 1 => k - 1 \in 1 .. n)
  BY <1>1, <1>3
<1>5. l.prev[c[k]] = c[k - 1]
  BY <1>2, <1>4 DEF Chained
<1> QED
  BY <1>0, <1>1, <1>3, <1>4, <1>5 DEF PrevsIn

(* The round that moves the item at q in front of the pivot at p.          *)
IsMoved(t, u, p, q) ==
    /\ \A j \in 1 .. p - 1 : t[j] = u[j]
    /\ t[p] = u[q]
    /\ \A j \in p + 1 .. q : t[j] = u[j - 1]
    /\ \A j \in q + 1 .. Len(u) : t[j] = u[j]

LEMMA MovedInPart ==
    ASSUME ListAssumption, NEW a, NEW u, NEW b, Part(a, u, b),
           NEW l \in Links, Joined(l, a, u, b),
           NEW p \in 1 .. Len(u), NEW q \in 1 .. Len(u), p < q,
           NEW m, m = Moved(l, u[q], u[p])
    PROVE  /\ m \in Links
           /\ \E t \in Seq(Items) : SamePart(l, m, a, u, t, b) /\ IsMoved(t, u, p, q)
<1> DEFINE n == Len(u)
           x == u[q]
<1>1. /\ n \in Nat /\ u \in Seq(Items) /\ a \notin ToSet(u) /\ b \notin ToSet(u)
      /\ x \in Items /\ x \in ToSet(u) /\ p \in 1 .. n /\ q \in 1 .. n
  BY LenProperties, ElementOfSeq DEF Part, ToSet
<1>2. PICK t1 : t1 = RemoveAt(u, q)
  OBVIOUS
<1>3. PICK removed : removed = Removed(l, u[q])
  OBVIOUS
<1>4. /\ removed \in Links
      /\ Part(a, t1, b)
      /\ ToSet(t1) = ToSet(u) \ {u[q]}
      /\ Joined(removed, a, t1, b)
      /\ SameOutside(l, removed, a, ToSet(u), b)
  <2>1. RemovedIn(l, removed, a, u, b, q, t1)
    BY <1>2, <1>3, JoinedRemove
  <2> QED
    BY <2>1 DEF RemovedIn
<1>5. /\ Len(t1) = n - 1
      /\ \A i \in 1 .. n - 1 : t1[i] = IF i < q THEN u[i] ELSE u[i + 1]
  <2>1. IsTakenOut(t1, u, q)
    BY <1>1, <1>2, RemoveAtIs
  <2> QED
    BY <2>1 DEF IsTakenOut
<1> HIDE DEF n
<1>6. p \in 1 .. Len(t1) /\ t1[p] = u[p] /\ p - 1 \in 0 .. Len(t1) /\ (p - 1) + 1 = p
  BY <1>1, <1>5
<1>7. /\ removed.prev[u[p]] = Between(a, t1, b)[p - 1]
      /\ Between(a, t1, b)[p] = u[p]
  <2>1. PrevsIn(removed, a, t1, b, p)
    BY <1>4, <1>6, PrevIn
  <2> QED
    BY <1>6, <2>1 DEF PrevsIn
<1>8. m = Inserted(removed, x, Between(a, t1, b)[p - 1], Between(a, t1, b)[(p - 1) + 1])
  BY <1>3, <1>6, <1>7 DEF Moved
<1>9. PICK t : t = InsertAt(t1, (p - 1) + 1, x)
  OBVIOUS
<1> HIDE DEF x
<1>10. x \notin ToSet(t1) /\ x # a /\ x # b
  BY <1>1, <1>4 DEF x
<1>11. /\ m \in Links
       /\ Part(a, t, b)
       /\ ToSet(t) = ToSet(t1) \cup {x}
       /\ Joined(m, a, t, b)
       /\ SameOutside(removed, m, a, ToSet(t), b)
  <2>1. InsertedIn(removed, m, a, t1, b, x, t)
    BY <1>1, <1>4, <1>6, <1>8, <1>9, <1>10, JoinedInsert
  <2> QED
    BY <2>1 DEF InsertedIn
<1>12. t \in Seq(Items) /\ IsInserted(t, t1, p - 1, x)
  <2>1. t1 \in Seq(Items)
    BY <1>4 DEF Part
  <2> QED
    BY <1>1, <1>6, <1>9, <2>1, InsertAtIs
<1>13. /\ Len(t) = n
       /\ \A j \in 1 .. p - 1 : t[j] = t1[j]
       /\ t[p] = x
       /\ \A j \in p + 1 .. n : t[j] = t1[j - 1]
  <2>1. (p - 1) + 1 = p /\ (p - 1) + 2 = p + 1 /\ Len(t1) + 1 = n
    BY <1>1, <1>5
  <2> QED
    BY <1>12, <2>1 DEF IsInserted
<1>14. \A j \in 1 .. p - 1 : t[j] = u[j]
  BY <1>1, <1>5, <1>13
<1>15. \A j \in p + 1 .. q : t[j] = u[j - 1]
  <2>1. ASSUME NEW j \in p + 1 .. q PROVE t[j] = u[j - 1]
    <3>1. j \in p + 1 .. n /\ j - 1 \in 1 .. n - 1 /\ j - 1 < q
      BY <1>1
    <3> QED
      BY <1>5, <1>13, <3>1
  <2> QED
    BY <2>1
<1>16. \A j \in q + 1 .. n : t[j] = u[j]
  <2>1. ASSUME NEW j \in q + 1 .. n PROVE t[j] = u[j]
    <3>1. j \in p + 1 .. n /\ j - 1 \in 1 .. n - 1 /\ ~(j - 1 < q) /\ (j - 1) + 1 = j
      BY <1>1
    <3> QED
      BY <1>5, <1>13, <3>1
  <2> QED
    BY <2>1
<1>17. ToSet(t) = ToSet(u)
  BY <1>1, <1>4, <1>11 DEF x
<1>18. SameOutside(l, m, a, ToSet(u), b)
  BY <1>4, <1>11, <1>17 DEF SameOutside
<1>19. SamePart(l, m, a, u, t, b)
  BY <1>11, <1>13, <1>17, <1>18 DEF SamePart, n
<1> QED
  BY <1>11, <1>12, <1>13, <1>14, <1>15, <1>16, <1>19 DEF n, x, IsMoved

Round(at, pivot) ==
    IF at.item = pivot THEN at ELSE PartItem(at.links, at.item, pivot)

LEMMA PartingRound ==
    ASSUME ListAssumption, NEW l \in Links, NEW a, NEW s, NEW b, Part(a, s, b),
           NEW pivot \in Items, NEW i \in Nat, NEW at \in Rounds,
           PartingInv(at, i, l, a, s, b, pivot)
    PROVE  /\ Round(at, pivot) \in Rounds
           /\ PartingInv(Round(at, pivot), i + 1, l, a, s, b, pivot)
<1>1. PICK u \in Seq(Items) :
         /\ SamePart(l, at.links, a, s, u, b)
         /\ \E p, q \in 1 .. Len(s) : OrderedRound(u, p, q, pivot, at.item, i)
  BY DEF PartingInv
<1>2. PICK p \in 1 .. Len(s), q \in 1 .. Len(s) : OrderedRound(u, p, q, pivot, at.item, i)
  BY <1>1
<1> DEFINE n == Len(s)
           m == at.links
           x == at.item
<1>3. /\ Part(a, u, b) /\ Len(u) = n /\ ToSet(u) = ToSet(s)
      /\ Joined(m, a, u, b) /\ SameOutside(l, m, a, ToSet(s), b)
  BY <1>1 DEF SamePart
<1>4. /\ n \in Nat /\ p \in 1 .. n /\ q \in 1 .. n
      /\ m \in Links /\ x \in Cells
  BY LenProperties DEF Part, Rounds
<1>5. /\ p <= q /\ u[p] = pivot /\ u[q] = x
      /\ p = q \/ q - p + i < n
      /\ \A j \in 1 .. p - 1 : Rank[u[j]] < Rank[pivot]
      /\ \A j \in q + 1 .. n : Rank[u[j]] >= Rank[pivot]
  BY <1>2, <1>3 DEF OrderedRound
<1>6. CASE x = pivot
  <2>1. p = q
    <3>1. IsInjective(u) /\ DOMAIN u = 1 .. n
      BY <1>3, LenProperties DEF Part
    <3> QED
      BY <1>4, <1>5, <1>6, <3>1 DEF IsInjective
  <2>2. OrderedRound(u, p, q, pivot, x, i + 1)
    BY <1>3, <1>5, <2>1 DEF OrderedRound
  <2>3. Round(at, pivot) = at
    BY <1>6 DEF Round
  <2>4. PartingInv(at, i + 1, l, a, s, b, pivot)
    BY <1>1, <1>4, <2>2 DEF PartingInv
  <2> QED
    BY <2>3, <2>4
<1>7. CASE x # pivot
  <2>1. /\ p < q /\ q - p + i < n /\ q - 1 \in 1 .. n /\ q > 1
    BY <1>4, <1>5, <1>7
  <2>2. m.prev[x] = u[q - 1] /\ u[q - 1] \in Items /\ x \in Items
    <3>1. u \in Seq(Items) /\ q \in 1 .. Len(u) /\ q - 1 \in 1 .. Len(u)
      BY <1>3, <1>4, <2>1
    <3>2. u[q - 1] \in Items /\ u[q] \in Items
      BY <3>1, ElementOfSeq
    <3>3. m.prev[u[q]] = u[q - 1]
      <4>1. PrevsIn(m, a, u, b, q)
        BY <1>3, <3>1, PrevIn
      <4> QED
        BY <2>1, <4>1 DEF PrevsIn
    <3> QED
      BY <1>5, <3>2, <3>3
  <2>3. Rank[x] \in Int /\ Rank[pivot] \in Int
    BY <2>2 DEF ListAssumption
  <2> DEFINE y == m.prev[x]
  <2>4. y \in Cells /\ y = u[q - 1]
    BY <2>2 DEF Cells
  <2>5. CASE Rank[x] >= Rank[pivot]
    <3>1. Round(at, pivot) = [links |-> m, item |-> y]
      BY <1>7, <2>5 DEF Round, PartItem
    <3>2. [links |-> m, item |-> y] \in Rounds
      BY <1>4, <2>4 DEF Rounds
    <3>3. p <= q - 1 /\ (q - 1) - p + (i + 1) < n
      BY <1>4, <2>1
    <3>4. \A j \in (q - 1) + 1 .. n : Rank[u[j]] >= Rank[pivot]
      <4>1. \A j \in (q - 1) + 1 .. n : j = q \/ j \in q + 1 .. n
        BY <1>4
      <4> QED
        BY <1>5, <2>5, <4>1
    <3>5. OrderedRound(u, p, q - 1, pivot, y, i + 1)
      BY <1>3, <1>5, <2>4, <3>3, <3>4 DEF OrderedRound
    <3> HIDE DEF y, m
    <3>6. PartingInv([links |-> m, item |-> y], i + 1, l, a, s, b, pivot)
      BY <1>1, <1>4, <2>1, <3>5 DEF PartingInv, m
    <3> QED
      BY <3>1, <3>2, <3>6
  <2>6. CASE ~(Rank[x] >= Rank[pivot])
    <3> DEFINE m2 == Moved(m, x, pivot)
    <3>1. Round(at, pivot) = [links |-> m2, item |-> y]
      BY <1>7, <2>6 DEF Round, PartItem
    <3>2. m2 = Moved(m, u[q], u[p]) /\ p \in 1 .. Len(u) /\ q \in 1 .. Len(u)
      BY <1>3, <1>4, <1>5
    <3> HIDE DEF m2, y, m, x
    <3>3. /\ m2 \in Links
          /\ \E t \in Seq(Items) : SamePart(m, m2, a, u, t, b) /\ IsMoved(t, u, p, q)
      BY <1>3, <1>4, <2>1, <3>2, MovedInPart
    <3>4. PICK t \in Seq(Items) :
                /\ SamePart(m, m2, a, u, t, b)
                /\ \A j \in 1 .. p - 1 : t[j] = u[j]
                /\ t[p] = u[q]
                /\ \A j \in p + 1 .. q : t[j] = u[j - 1]
                /\ \A j \in q + 1 .. Len(u) : t[j] = u[j]
      BY <3>3 DEF IsMoved
    <3>5. /\ Part(a, t, b) /\ Len(t) = n /\ ToSet(t) = ToSet(s)
          /\ Joined(m2, a, t, b) /\ SameOutside(m, m2, a, ToSet(s), b)
      BY <1>3, <3>4 DEF SamePart
    <3>6. SameOutside(l, m2, a, ToSet(s), b)
      BY <1>3, <3>5 DEF SameOutside
    <3>7. SamePart(l, m2, a, s, t, b)
      BY <3>5, <3>6 DEF SamePart
    <3>8. p + 1 \in 1 .. n /\ p + 1 <= q /\ q - (p + 1) + (i + 1) < n
      BY <1>4, <2>1
    <3>9. t[p + 1] = pivot
      <4>1. p + 1 \in p + 1 .. q /\ (p + 1) - 1 = p
        BY <1>4, <3>8
      <4> QED
        BY <1>5, <3>4, <4>1
    <3>10. t[q] = y
      <4>1. q \in p + 1 .. q
        BY <1>4, <2>1
      <4> QED
        BY <2>4, <3>4, <4>1
    <3>11. \A j \in 1 .. (p + 1) - 1 : Rank[t[j]] < Rank[pivot]
      <4>1. \A j \in 1 .. (p + 1) - 1 : j = p \/ j \in 1 .. p - 1
        BY <1>4
      <4>2. Rank[t[p]] < Rank[pivot]
        BY <1>5, <2>3, <2>6, <3>4 DEF x
      <4> QED
        BY <1>5, <3>4, <4>1, <4>2
    <3>12. \A j \in q + 1 .. n : Rank[t[j]] >= Rank[pivot]
      BY <1>3, <1>5, <3>4
    <3>13. OrderedRound(t, p + 1, q, pivot, y, i + 1)
      BY <3>5, <3>8, <3>9, <3>10, <3>11, <3>12 DEF OrderedRound
    <3>14. PartingInv([links |-> m2, item |-> y], i + 1, l, a, s, b, pivot)
      BY <1>4, <3>7, <3>8, <3>13 DEF PartingInv
    <3>15. [links |-> m2, item |-> y] \in Rounds
      BY <2>4, <3>3 DEF Rounds
    <3> QED
      BY <3>1, <3>14, <3>15
  <2> QED
    BY <2>5, <2>6
<1> QED
  BY <1>6, <1>7

(* After the loop the pivot stands between the items less than it and the  *)
(* others.                                                                 *)
LEMMA PartitionParts ==
    ASSUME ListAssumption, NEW l \in Links, NEW a, NEW s, NEW b, Part(a, s, b),
           Joined(l, a, s, b), Len(s) # 0
    PROVE  /\ Partition(l, s[1], s[Len(s)]) \in Links
           /\ \E u \in Seq(Items) :
                 /\ SamePart(l, Partition(l, s[1], s[Len(s)]), a, s, u, b)
                 /\ \E p \in 1 .. Len(s) :
                       /\ u[p] = s[1]
                       /\ \A j \in 1 .. p - 1 : Rank[u[j]] < Rank[s[1]]
                       /\ \A j \in p + 1 .. Len(s) : Rank[u[j]] >= Rank[s[1]]
<1> DEFINE n == Len(s)
           N == Cardinality(Items)
           pivot == s[1]
           start == [links |-> l, item |-> s[n]]
           body == [at \in Rounds |-> Round(at, pivot)]
           P == [i \in Int |-> {at \in Rounds : PartingInv(at, i, l, a, s, b, pivot)}]
<1>1. s \in Seq(Items) /\ IsInjective(s) /\ n \in Nat /\ N \in Nat /\ n <= N /\ n # 0
  BY FitsItems DEF Part
<1>2. 1 \in 1 .. n /\ n \in 1 .. n
  BY <1>1
<1>3. s[1] \in Items /\ s[n] \in Items
  BY <1>1, <1>2, ElementOfSeq
<1>4. Partition(l, pivot, s[n]) = Repeated(body, start, N).links
  BY DEF Partition, Rounds, Round
<1>5. start \in P[0]
  <2>1. start \in Rounds /\ start.links = l /\ start.item = s[n]
    BY <1>3 DEF Rounds, Cells
  <2>2. SamePart(l, l, a, s, s, b)
    BY DEF SamePart, SameOutside
  <2>3. OrderedRound(s, 1, n, pivot, s[n], 0)
    BY <1>1 DEF OrderedRound
  <2> HIDE DEF start
  <2>4. PartingInv(start, 0, l, a, s, b, pivot)
    BY <1>1, <1>2, <2>1, <2>2, <2>3 DEF PartingInv
  <2> QED
    BY <2>1, <2>4
<1>6. \A i \in 0 .. N : i # N => \A at \in P[i] : body[at] \in P[i + 1]
  <2>1. ASSUME NEW i \in 0 .. N, NEW at \in P[i] PROVE body[at] \in P[i + 1]
    <3>1. i \in Nat /\ i \in Int /\ i + 1 \in Int
      BY <1>1
    <3>2. at \in Rounds /\ PartingInv(at, i, l, a, s, b, pivot)
      BY <3>1
    <3> HIDE DEF pivot
    <3>3. pivot \in Items
      BY <1>3 DEF pivot
    <3>4. /\ Round(at, pivot) \in Rounds
          /\ PartingInv(Round(at, pivot), i + 1, l, a, s, b, pivot)
      BY <3>1, <3>2, <3>3, PartingRound
    <3>5. body[at] = Round(at, pivot)
      BY <3>2
    <3> HIDE DEF body
    <3> QED
      BY <3>1, <3>4, <3>5
  <2> QED
    BY <2>1
<1> HIDE DEF body, start
<1>7. PICK at : at = Repeated(body, start, N)
  OBVIOUS
<1>8. at \in P[N]
  <2> HIDE DEF P
  <2> QED
    BY <1>1, <1>5, <1>6, <1>7, RepeatedKeeps
<1>9. at \in Rounds /\ PartingInv(at, N, l, a, s, b, pivot) /\ at.links \in Links
  BY <1>1, <1>8 DEF Rounds
<1>10. PICK u \in Seq(Items) :
          /\ SamePart(l, at.links, a, s, u, b)
          /\ \E p, q \in 1 .. Len(s) : OrderedRound(u, p, q, pivot, at.item, N)
  BY <1>9 DEF PartingInv
<1>11. PICK p \in 1 .. n, q \in 1 .. n : OrderedRound(u, p, q, pivot, at.item, N)
  BY <1>10
<1>12. p = q /\ Len(u) = n
  BY <1>1, <1>10, <1>11 DEF OrderedRound, SamePart
<1>13. /\ u[p] = s[1]
       /\ \A j \in 1 .. p - 1 : Rank[u[j]] < Rank[s[1]]
       /\ \A j \in p + 1 .. n : Rank[u[j]] >= Rank[s[1]]
  BY <1>11, <1>12 DEF OrderedRound
<1>14. Partition(l, s[1], s[n]) = at.links
  BY <1>4, <1>7
<1> QED
  BY <1>9, <1>10, <1>13, <1>14

-----------------------------------------------------------------------------
(* List_Quicksort.                                                         *)
Ascending(t) == \A i, j \in DOMAIN t : i < j => Rank[t[i]] <= Rank[t[j]]

SortsPart(l, m, a, s, b) ==
    /\ m \in Links
    /\ \E t \in Seq(Items) :
          /\ Part(a, t, b) /\ ToSet(t) = ToSet(s)
          /\ Joined(m, a, t, b) /\ SameOutside(l, m, a, ToSet(s), b)
          /\ Ascending(t)

(* A list is in order when its two sides are, and the item between them is *)
(* in the right place.                                                     *)
LEMMA AscendingAround ==
    ASSUME ListAssumption, NEW s \in Seq(Items),
           NEW u \in Seq(Items), NEW v \in Seq(Items), NEW x \in Items, IsAround(s, u, x, v),
           Ascending(u), Ascending(v),
           \A y \in ToSet(u) : Rank[y] < Rank[x],
           \A y \in ToSet(v) : Rank[y] >= Rank[x]
    PROVE  Ascending(s)
<1> DEFINE n == Len(s)
           p == Len(u)
           q == Len(v)
<1>1. /\ n \in Nat /\ p \in Nat /\ q \in Nat /\ n = p + 1 + q
      /\ DOMAIN s = 1 .. n /\ DOMAIN u = 1 .. p /\ DOMAIN v = 1 .. q
      /\ \A i \in 1 .. n : s[i] \in Items
      /\ \A i \in 1 .. p : s[i] = u[i] /\ u[i] \in ToSet(u)
      /\ s[p + 1] = x
      /\ \A i \in 1 .. q : s[p + 1 + i] = v[i] /\ v[i] \in ToSet(v)
  <2>1. /\ n \in Nat /\ p \in Nat /\ q \in Nat
        /\ DOMAIN s = 1 .. n /\ DOMAIN u = 1 .. p /\ DOMAIN v = 1 .. q
    BY LenProperties
  <2>2. \A i \in 1 .. n : s[i] \in Items
    BY ElementOfSeq
  <2>3. /\ n = p + 1 + q /\ s[p + 1] = x
        /\ \A i \in 1 .. p : s[i] = u[i]
        /\ \A i \in 1 .. q : s[p + 1 + i] = v[i]
    BY <2>1 DEF IsAround
  <2>4. \A i \in 1 .. p : u[i] \in ToSet(u)
    BY <2>1 DEF ToSet
  <2>5. \A i \in 1 .. q : v[i] \in ToSet(v)
    BY <2>1 DEF ToSet
  <2> HIDE DEF n, p, q
  <2> QED
    BY <2>1, <2>2, <2>3, <2>4, <2>5
<1> HIDE DEF n, p, q
<1>2. \A y \in Items : Rank[y] \in Int
  BY DEF ListAssumption
<1>3. ASSUME NEW i \in 1 .. n, NEW j \in 1 .. n, i < j PROVE Rank[s[i]] <= Rank[s[j]]
  <2>1. Rank[s[i]] \in Int /\ Rank[s[j]] \in Int /\ Rank[x] \in Int
    BY <1>1, <1>2
  <2>2. ASSUME NEW k \in 1 .. n, k > p + 1
        PROVE  k - (p + 1) \in 1 .. q /\ s[k] = v[k - (p + 1)] /\ Rank[s[k]] >= Rank[x]
    <3>1. k - (p + 1) \in 1 .. q /\ p + 1 + (k - (p + 1)) = k
      BY <1>1, <2>2
    <3>2. s[k] = v[k - (p + 1)] /\ v[k - (p + 1)] \in ToSet(v)
      BY <1>1, <3>1
    <3>3. Rank[v[k - (p + 1)]] >= Rank[x]
      BY <3>2
    <3> QED
      BY <3>1, <3>2, <3>3
  <2>3. ASSUME NEW k \in 1 .. n, k <= p
        PROVE  k \in 1 .. p /\ s[k] = u[k] /\ Rank[s[k]] < Rank[x]
    <3>1. k \in 1 .. p
      BY <1>1, <2>3
    <3> QED
      BY <1>1, <3>1
  <2>4. CASE j <= p
    <3>1. i \in 1 .. p /\ j \in 1 .. p /\ s[i] = u[i] /\ s[j] = u[j]
      BY <1>1, <1>3, <2>3, <2>4
    <3>2. Rank[u[i]] <= Rank[u[j]]
      BY <1>1, <1>3, <3>1 DEF Ascending
    <3> QED
      BY <3>1, <3>2
  <2>5. CASE i > p + 1
    <3>1. j > p + 1 /\ j - (p + 1) > i - (p + 1)
      BY <1>1, <1>3, <2>5
    <3>2. /\ i - (p + 1) \in 1 .. q /\ j - (p + 1) \in 1 .. q
          /\ s[i] = v[i - (p + 1)] /\ s[j] = v[j - (p + 1)]
      BY <2>2, <2>5, <3>1
    <3>3. Rank[v[i - (p + 1)]] <= Rank[v[j - (p + 1)]]
      BY <1>1, <3>1, <3>2 DEF Ascending
    <3> QED
      BY <3>2, <3>3
  <2>6. CASE i <= p + 1 /\ j > p
    <3>1. Rank[s[i]] <= Rank[x]
      <4>1. i <= p \/ i = p + 1
        BY <1>1, <2>6
      <4>2. CASE i <= p
        <5>1. Rank[s[i]] < Rank[x]
          BY <2>3, <4>2
        <5> QED
          BY <2>1, <5>1
      <4>3. CASE i = p + 1
        <5>1. s[i] = x
          BY <1>1, <4>3
        <5> QED
          BY <2>1, <5>1
      <4> QED
        BY <4>1, <4>2, <4>3
    <3>2. Rank[x] <= Rank[s[j]]
      <4>1. j > p + 1 \/ j = p + 1
        BY <1>1, <2>6
      <4>2. CASE j > p + 1
        <5>1. Rank[s[j]] >= Rank[x]
          BY <2>2, <4>2
        <5> QED
          BY <2>1, <5>1
      <4>3. CASE j = p + 1
        <5>1. s[j] = x
          BY <1>1, <4>3
        <5> QED
          BY <2>1, <5>1
      <4> QED
        BY <4>1, <4>2, <4>3
    <3> QED
      BY <2>1, <3>1, <3>2
  <2> QED
    BY <1>1, <2>4, <2>5, <2>6
<1> QED
  BY <1>1, <1>3 DEF Ascending

(* What the two fields around a part point to.                             *)
LEMMA JoinedEnds ==
    ASSUME ListAssumption, NEW a, NEW s, NEW b, Part(a, s, b), NEW l, Joined(l, a, s, b)
    PROVE  /\ Len(s) = 0 => l.next[a] = b /\ l.prev[b] = a
           /\ Len(s) # 0 => l.next[a] = s[1] /\ l.prev[b] = s[Len(s)]
<1>0. PICK c : c = Between(a, s, b)
  OBVIOUS
<1> DEFINE n == Len(s)
<1>1. n \in Nat /\ c[0] = a /\ c[n + 1] = b /\ \A i \in 1 .. n : c[i] = s[i]
  BY <1>0, PartCells
<1>2. Chained(l, c, n)
  BY <1>0 DEF Joined
<1> HIDE DEF n
<1>3. l.next[c[0]] = c[1] /\ l.prev[c[n + 1]] = c[n]
  <2>1. 0 \in 0 .. n /\ n \in 0 .. n /\ 0 + 1 = 1
    BY <1>1
  <2> QED
    BY <1>2, <2>1 DEF Chained
<1>4. CASE n = 0
  BY <1>1, <1>3, <1>4 DEF n
<1>5. CASE n # 0
  <2>1. 1 \in 1 .. n /\ n \in 1 .. n
    BY <1>1, <1>5
  <2> QED
    BY <1>1, <1>3, <1>5, <2>1 DEF n
<1> QED
  BY <1>4, <1>5

Calls == Links \X Fields \X Fields

(* One call, with f for the calls it makes.                                *)
SortCall(f, depth, call) ==
    LET l == call[1]
        front == call[2]
        back == call[3]
        pivot == At(l, front)
        parted == Partition(l, pivot, At(l, back))
        left == IF At(parted, front) = pivot THEN parted
                ELSE f[depth - 1][<<parted, front, <<"prev", pivot>>>>]
    IN  IF depth = 0 \/ At(l, back) = pivot THEN l
        ELSE IF At(left, back) = pivot THEN left
        ELSE f[depth - 1][<<left, <<"next", pivot>>, back>>]

SortsTo(f, n) == f = [depth \in 0 .. n |-> [call \in Calls |-> SortCall(f, depth, call)]]

LEMMA SortCallAlike ==
    ASSUME NEW f, NEW g, NEW depth, depth = 0 \/ f[depth - 1] = g[depth - 1], NEW call
    PROVE  SortCall(f, depth, call) = SortCall(g, depth, call)
<1>1. CASE depth = 0
  BY <1>1 DEF SortCall
<1>2. CASE f[depth - 1] = g[depth - 1]
  BY <1>2 DEF SortCall
<1> QED
  BY <1>1, <1>2

(* The sort is a function of its arguments: calls of every depth are.      *)
LEMMA SortDefined ==
    ASSUME NEW n \in Nat
    PROVE  \E f : SortsTo(f, n)
<1> DEFINE T == {k \in 0 .. n : \E f : SortsTo(f, k)}
<1>1. 0 \in T
  <2> DEFINE h == [depth \in 0 .. 0 |-> [call \in Calls |-> SortCall(0, 0, call)]]
  <2>1. ASSUME NEW depth \in 0 .. 0
        PROVE  h[depth] = [call \in Calls |-> SortCall(h, depth, call)]
    <3>1. depth = 0 /\ h[depth] = [call \in Calls |-> SortCall(0, 0, call)]
      OBVIOUS
    <3> HIDE DEF h
    <3>2. \A call : SortCall(0, 0, call) = SortCall(h, 0, call)
      BY SortCallAlike
    <3> QED
      BY <3>1, <3>2
  <2>2. h = [depth \in 0 .. 0 |-> h[depth]]
    OBVIOUS
  <2> HIDE DEF h
  <2>3. SortsTo(h, 0)
    BY <2>1, <2>2 DEF SortsTo
  <2>4. 0 \in 0 .. n
    OBVIOUS
  <2> QED
    BY <2>3, <2>4
<1>2. ASSUME NEW k \in 0 .. n, k # n, k \in T PROVE k + 1 \in T
  <2>1. PICK f : SortsTo(f, k)
    BY <1>2
  <2> DEFINE Deepest(call) == SortCall(f, k + 1, call)
             h == [depth \in 0 .. k + 1 |->
                      IF depth = k + 1 THEN [call \in Calls |-> Deepest(call)] ELSE f[depth]]
  <2>2. \A depth \in 0 .. k : depth \in 0 .. k + 1 /\ depth # k + 1 /\ h[depth] = f[depth]
    OBVIOUS
  <2>3. k + 1 \in 0 .. k + 1 /\ h[k + 1] = [call \in Calls |-> Deepest(call)]
    OBVIOUS
  <2>4. h = [depth \in 0 .. k + 1 |-> h[depth]]
    OBVIOUS
  <2> HIDE DEF h
  <2>5. ASSUME NEW depth \in 0 .. k + 1
        PROVE  h[depth] = [call \in Calls |-> SortCall(h, depth, call)]
    <3>1. depth = 0 \/ f[depth - 1] = h[depth - 1]
      <4>1. depth = 0 \/ depth - 1 \in 0 .. k
        OBVIOUS
      <4> QED
        BY <2>2, <4>1
    <3>2. ASSUME NEW call PROVE SortCall(f, depth, call) = SortCall(h, depth, call)
      <4>1. CASE depth = 0
        BY <4>1 DEF SortCall
      <4>2. CASE f[depth - 1] = h[depth - 1]
        BY <4>2 DEF SortCall
      <4> QED
        BY <3>1, <4>1, <4>2
    <3>3. CASE depth = k + 1
      BY <2>3, <3>2, <3>3
    <3>4. CASE depth # k + 1
      <4>1. depth \in 0 .. k
        BY <3>4
      <4>2. h[depth] = f[depth]
        BY <2>2, <4>1
      <4>3. f[depth] = [call \in Calls |-> SortCall(f, depth, call)]
        BY <2>1, <4>1 DEF SortsTo
      <4> QED
        BY <3>2, <4>2, <4>3
    <3> QED
      BY <3>3, <3>4
  <2>6. SortsTo(h, k + 1)
    BY <2>4, <2>5 DEF SortsTo
  <2>7. k + 1 \in 0 .. n
    BY <1>2
  <2> QED
    BY <2>6, <2>7
<1> HIDE DEF T
<1>3. 0 .. n \subseteq T
  BY <1>1, <1>2, InductionUpTo
<1>4. n \in T
  BY <1>3
<1> QED
  BY <1>4 DEF T

LEMMA QuicksortIs ==
    ASSUME ListAssumption
    PROVE  \E f : /\ SortsTo(f, Cardinality(Items))
                  /\ \A l, front, back :
                        Quicksort(l, front, back) = f[Cardinality(Items)][<<l, front, back>>]
<1> DEFINE N == Cardinality(Items)
           sorted == CHOOSE f : SortsTo(f, N)
<1>1. N \in Nat
  BY FS_CardinalityType DEF ListAssumption
<1>2. SortsTo(sorted, N)
  <2> HIDE DEF N
  <2> QED
    BY <1>1, SortDefined
<1>3. ASSUME NEW l, NEW front, NEW back
      PROVE  Quicksort(l, front, back) = sorted[N][<<l, front, back>>]
  BY DEF Quicksort, SortsTo, SortCall, Calls
<1> QED
  BY <1>2, <1>3

(* A part with at most one item is sorted as it is.                        *)
LEMMA ShortSorted ==
    ASSUME ListAssumption, NEW a, NEW s, NEW b, Part(a, s, b),
           NEW l \in Links, Joined(l, a, s, b), Len(s) <= 1
    PROVE  SortsPart(l, l, a, s, b)
<1>1. s \in Seq(Items) /\ Len(s) \in Nat /\ DOMAIN s = 1 .. Len(s)
  BY LenProperties DEF Part
<1>2. Ascending(s)
  BY <1>1 DEF Ascending
<1> QED
  BY <1>1, <1>2 DEF SortsPart, SameOutside

(* The two sides of an item.                                               *)
LEMMA SidesOf ==
    ASSUME NEW u \in Seq(Items), NEW p \in 1 .. Len(u)
    PROVE  \E v, w \in Seq(Items) :
              /\ IsAround(u, v, u[p], w) /\ Len(v) = p - 1 /\ Len(w) = Len(u) - p
              /\ \A y \in ToSet(v) : \E i \in 1 .. p - 1 : y = u[i]
              /\ \A y \in ToSet(w) : \E i \in p + 1 .. Len(u) : y = u[i]
<1> DEFINE n == Len(u)
<1>1. n \in Nat /\ DOMAIN u = 1 .. n /\ \A i \in 1 .. n : u[i] \in Items
  BY LenProperties, ElementOfSeq
<1> HIDE DEF n
<1>2. p \in 1 .. n /\ p - 1 \in Nat /\ n - p \in Nat
  BY <1>1 DEF n
<1> DEFINE v == [i \in 1 .. p - 1 |-> u[i]]
           w == [i \in 1 .. n - p |-> u[p + i]]
<1>3. v \in [1 .. p - 1 -> Items] /\ w \in [1 .. n - p -> Items]
  <2>1. \A i \in 1 .. p - 1 : u[i] \in Items
    BY <1>1, <1>2
  <2>2. \A i \in 1 .. n - p : u[p + i] \in Items
    BY <1>1, <1>2
  <2> QED
    BY <2>1, <2>2
<1>4. /\ DOMAIN v = 1 .. p - 1 /\ DOMAIN w = 1 .. n - p
      /\ \A i \in 1 .. p - 1 : v[i] = u[i]
      /\ \A i \in 1 .. n - p : w[i] = u[p + i]
  OBVIOUS
<1> HIDE DEF v, w
<1>5. v \in Seq(Items) /\ Len(v) = p - 1
  BY <1>2, <1>3, ListOfFunction
<1>6. w \in Seq(Items) /\ Len(w) = n - p
  BY <1>2, <1>3, ListOfFunction
<1>7. IsAround(u, v, u[p], w)
  <2>1. (p - 1) + 1 = p /\ n = (p - 1) + 1 + (n - p)
    BY <1>1, <1>2
  <2>2. \A i \in 1 .. n - p : u[p + i] = w[i]
    BY <1>4
  <2> QED
    BY <1>4, <1>5, <1>6, <2>1, <2>2 DEF IsAround, n
<1>8. \A y \in ToSet(v) : \E i \in 1 .. p - 1 : y = u[i]
  BY <1>4 DEF ToSet
<1>9. \A y \in ToSet(w) : \E i \in p + 1 .. n : y = u[i]
  <2>1. ASSUME NEW y \in ToSet(w) PROVE \E i \in p + 1 .. n : y = u[i]
    <3>1. PICK i \in 1 .. n - p : y = w[i]
      BY <1>4 DEF ToSet
    <3>2. p + i \in p + 1 .. n /\ y = u[p + i]
      BY <1>1, <1>2, <1>4, <3>1
    <3> QED
      BY <3>2
  <2> QED
    BY <2>1
<1> QED
  BY <1>5, <1>6, <1>7, <1>8, <1>9 DEF n

(* The calls that nest no deeper than d sort what has d items at most.     *)
Sorts(f, d) ==
    \A l \in Links : \A a, s, b :
        Part(a, s, b) /\ Joined(l, a, s, b) /\ Len(s) # 0 /\ Len(s) <= d
            => SortsPart(l, f[d][<<l, <<"next", a>>, <<"prev", b>>>>], a, s, b)

(* Sorting the side in front of the pivot leaves the side behind it alone, *)
(* and the other way round.                                                *)
LEMMA SidesSorted ==
    ASSUME ListAssumption, NEW a, NEW u, NEW b, Part(a, u, b),
           NEW v \in Seq(Items), NEW w \in Seq(Items), NEW x, IsAround(u, v, x, w),
           NEW l \in Links, Joined(l, a, u, b),
           \A y \in ToSet(v) : Rank[y] < Rank[x],
           \A y \in ToSet(w) : Rank[y] >= Rank[x],
           NEW m, SortsPart(l, m, a, v, x),
           NEW r, Joined(m, x, w, b) => SortsPart(m, r, x, w, b)
    PROVE  SortsPart(l, r, a, u, b)
<1>0. /\ ListAssumption /\ Part(a, u, b) /\ v \in Seq(Items) /\ w \in Seq(Items)
      /\ IsAround(u, v, x, w) /\ Joined(l, a, u, b)
  OBVIOUS
<1>1. /\ Part(a, v, x) /\ Part(x, w, b) /\ x \in Items
      /\ ToSet(u) = ToSet(v) \cup {x} \cup ToSet(w)
      /\ ToSet(v) \cap ToSet(w) = {}
      /\ Joined(l, a, v, x) /\ Joined(l, x, w, b)
  <2>1. SplitsAt(a, u, b, v, x, w)
    BY ONLY <1>0, SplitPart
  <2>2. JoinedSides(l, a, u, b, v, x, w)
    BY ONLY <1>0, JoinedAround
  <2> QED
    BY <1>0, <2>1, <2>2 DEF SplitsAt, JoinedSides
<1>2. /\ a \notin ToSet(u) /\ b \notin ToSet(u) /\ ToSet(u) \subseteq Cells
      /\ a \in Cells /\ b \in Cells
  BY SeqCells DEF Part, Cells
<1>3. x \notin ToSet(v) /\ x \notin ToSet(w)
  BY <1>1 DEF Part
<1>4. PICK t1 \in Seq(Items) :
         /\ Part(a, t1, x) /\ ToSet(t1) = ToSet(v)
         /\ Joined(m, a, t1, x) /\ SameOutside(l, m, a, ToSet(v), x)
         /\ Ascending(t1)
  BY DEF SortsPart
<1>5. /\ \A y \in Cells \ (ToSet(v) \cup {a}) : m.next[y] = l.next[y]
      /\ \A y \in Cells \ (ToSet(v) \cup {x}) : m.prev[y] = l.prev[y]
  BY <1>4 DEF SameOutside
<1>6. Joined(m, x, w, b)
  <2>1. \A y \in ToSet(w) \cup {x} : m.next[y] = l.next[y]
    BY <1>1, <1>2, <1>3, <1>5
  <2>2. \A y \in ToSet(w) \cup {b} : m.prev[y] = l.prev[y]
    BY <1>1, <1>2, <1>3, <1>5
  <2> QED
    BY <1>1, <2>1, <2>2, JoinedStays
<1>7. PICK t2 \in Seq(Items) :
         /\ Part(x, t2, b) /\ ToSet(t2) = ToSet(w)
         /\ Joined(r, x, t2, b) /\ SameOutside(m, r, x, ToSet(w), b)
         /\ Ascending(t2)
  BY <1>6 DEF SortsPart
<1>8. /\ \A y \in Cells \ (ToSet(w) \cup {x}) : r.next[y] = m.next[y]
      /\ \A y \in Cells \ (ToSet(w) \cup {b}) : r.prev[y] = m.prev[y]
  BY <1>7 DEF SameOutside
<1>9. Joined(r, a, t1, x)
  <2>1. \A y \in ToSet(t1) \cup {a} : r.next[y] = m.next[y]
    BY <1>1, <1>2, <1>3, <1>4, <1>8
  <2>2. \A y \in ToSet(t1) \cup {x} : r.prev[y] = m.prev[y]
    BY <1>1, <1>2, <1>3, <1>4, <1>8
  <2> QED
    BY <1>4, <2>1, <2>2, JoinedStays
<1>10. PICK t : t = (t1 \o <<x>>) \o t2
  OBVIOUS
<1>11. Part(a, t, b) /\ IsAround(t, t1, x, t2)
  <2>1. ToSet(t1) \cap ToSet(t2) = {} /\ a \notin ToSet(t2) /\ b \notin ToSet(t1)
    BY <1>1, <1>2, <1>4, <1>7
  <2>2. a # x /\ b # x
    BY <1>1, <1>2
  <2> QED
    BY <1>1, <1>4, <1>7, <1>10, <2>1, <2>2, JoinParts
<1>12. /\ ListAssumption /\ Part(a, t, b) /\ IsAround(t, t1, x, t2)
       /\ t1 \in Seq(Items) /\ t2 \in Seq(Items)
  BY <1>0, <1>11
<1>13. ToSet(t) = ToSet(u)
  <2>1. SplitsAt(a, t, b, t1, x, t2)
    BY ONLY <1>12, SplitPart
  <2>2. ToSet(t) = ToSet(t1) \cup {x} \cup ToSet(t2)
    BY <2>1 DEF SplitsAt
  <2> QED
    BY <1>1, <1>4, <1>7, <2>2
<1>14. Joined(r, a, t, b)
  <2>1. JoinedSides(r, a, t, b, t1, x, t2)
    BY ONLY <1>12, JoinedAround
  <2> QED
    BY <1>7, <1>9, <2>1 DEF JoinedSides
<1>15. t \in Seq(Items) /\ Ascending(t)
  <2>1. t \in Seq(Items)
    BY <1>11 DEF Part
  <2>2. \A y \in ToSet(t1) : Rank[y] < Rank[x]
    BY <1>4
  <2>3. \A y \in ToSet(t2) : Rank[y] >= Rank[x]
    BY <1>7
  <2>4. Ascending(t)
    BY <1>1, <1>4, <1>7, <1>11, <2>1, <2>2, <2>3, AscendingAround
  <2> QED
    BY <2>1, <2>4
<1>16. SameOutside(l, r, a, ToSet(u), b)
  <2>1. \A y \in Cells \ (ToSet(u) \cup {a}) : r.next[y] = l.next[y]
    BY <1>1, <1>5, <1>8
  <2>2. \A y \in Cells \ (ToSet(u) \cup {b}) : r.prev[y] = l.prev[y]
    BY <1>1, <1>5, <1>8
  <2> QED
    BY <2>1, <2>2 DEF SameOutside
<1>17. r \in Links
  BY <1>6 DEF SortsPart
<1> QED
  BY <1>11, <1>13, <1>14, <1>15, <1>16, <1>17 DEF SortsPart

LEMMA SortStep ==
    ASSUME ListAssumption, NEW n \in Nat, NEW f, SortsTo(f, n), NEW d \in 1 .. n,
           Sorts(f, d - 1)
    PROVE  Sorts(f, d)
<1> SUFFICES ASSUME NEW l \in Links, NEW a, NEW s, NEW b,
                    Part(a, s, b), Joined(l, a, s, b), Len(s) # 0, Len(s) <= d
             PROVE  SortsPart(l, f[d][<<l, <<"next", a>>, <<"prev", b>>>>], a, s, b)
  BY DEF Sorts
<1> DEFINE k == Len(s)
           front == <<"next", a>>
           back == <<"prev", b>>
           call == <<l, front, back>>
           x == s[1]
<1>1. /\ k \in Nat /\ k # 0 /\ 1 \in 1 .. k /\ k \in 1 .. k /\ k <= d
      /\ s \in Seq(Items) /\ IsInjective(s) /\ DOMAIN s = 1 .. k
      /\ a \in Cells /\ b \in Cells
  BY LenProperties DEF Part
<1>2. l.next[a] = s[1] /\ l.prev[b] = s[k]
  BY <1>1, JoinedEnds
<1>3. f[d][call] = SortCall(f, d, call)
  <2>1. front \in Fields /\ back \in Fields
    BY <1>1 DEF Fields
  <2>2. call \in Calls
    BY <2>1 DEF Calls
  <2>3. d \in 0 .. n
    OBVIOUS
  <2> HIDE DEF call
  <2>4. f[d] = [c \in Calls |-> SortCall(f, d, c)]
    BY <2>3 DEF SortsTo
  <2> QED
    BY <2>2, <2>4
<1>4. d # 0 /\ d - 1 \in Int
  OBVIOUS
<1>5. CASE s[k] = x
  <2>1. k = 1
    BY <1>1, <1>5 DEF IsInjective
  <2>2. SortCall(f, d, call) = l
    BY <1>2, <1>5 DEF SortCall, At
  <2>3. ListAssumption /\ Part(a, s, b) /\ l \in Links /\ Joined(l, a, s, b) /\ Len(s) <= 1
    BY <2>1
  <2>4. SortsPart(l, l, a, s, b)
    BY ONLY <2>3, ShortSorted
  <2> QED
    BY <1>3, <2>2, <2>4
<1>6. CASE s[k] # x
  <2>1. PICK m1 : m1 = Partition(l, x, s[k])
    OBVIOUS
  <2>2. PICK m2 : m2 = IF At(m1, front) = x THEN m1
                       ELSE f[d - 1][<<m1, front, <<"prev", x>>>>]
    OBVIOUS
  <2>3. PICK m3 : m3 = IF At(m2, back) = x THEN m2
                       ELSE f[d - 1][<<m2, <<"next", x>>, back>>]
    OBVIOUS
  <2>4. SortCall(f, d, call) = m3
    <3>1. At(l, front) = x /\ At(l, back) = s[k]
      BY <1>2 DEF At
    <3> HIDE DEF x, front, back
    <3>2. call[1] = l /\ call[2] = front /\ call[3] = back
      OBVIOUS
    <3> HIDE DEF call
    <3>3. SortCall(f, d, call) =
            IF d = 0 \/ At(l, back) = x THEN l
            ELSE IF At(m2, back) = x THEN m2
            ELSE f[d - 1][<<m2, <<"next", x>>, back>>]
      BY <2>1, <2>2, <3>1, <3>2 DEF SortCall
    <3> QED
      BY <1>4, <1>6, <2>3, <3>1, <3>3
  <2>5. /\ m1 \in Links
        /\ \E u \in Seq(Items) :
              /\ SamePart(l, m1, a, s, u, b)
              /\ \E p \in 1 .. Len(s) :
                    /\ u[p] = s[1]
                    /\ \A j \in 1 .. p - 1 : Rank[u[j]] < Rank[s[1]]
                    /\ \A j \in p + 1 .. Len(s) : Rank[u[j]] >= Rank[s[1]]
    <3>1. /\ Partition(l, s[1], s[Len(s)]) \in Links
          /\ \E u \in Seq(Items) :
                /\ SamePart(l, Partition(l, s[1], s[Len(s)]), a, s, u, b)
                /\ \E p \in 1 .. Len(s) :
                      /\ u[p] = s[1]
                      /\ \A j \in 1 .. p - 1 : Rank[u[j]] < Rank[s[1]]
                      /\ \A j \in p + 1 .. Len(s) : Rank[u[j]] >= Rank[s[1]]
      BY PartitionParts
    <3> QED
      BY <2>1, <3>1
  <2> HIDE DEF x
  <2>6. PICK u \in Seq(Items), p \in 1 .. k :
           /\ SamePart(l, m1, a, s, u, b)
           /\ u[p] = x
           /\ \A j \in 1 .. p - 1 : Rank[u[j]] < Rank[x]
           /\ \A j \in p + 1 .. k : Rank[u[j]] >= Rank[x]
    BY <2>5 DEF x
  <2>7. /\ Part(a, u, b) /\ Len(u) = k /\ ToSet(u) = ToSet(s)
        /\ Joined(m1, a, u, b) /\ SameOutside(l, m1, a, ToSet(s), b)
    BY <2>6 DEF SamePart
  <2>8. PICK v \in Seq(Items), w \in Seq(Items) :
           /\ IsAround(u, v, x, w) /\ Len(v) = p - 1 /\ Len(w) = k - p
           /\ \A y \in ToSet(v) : \E i \in 1 .. p - 1 : y = u[i]
           /\ \A y \in ToSet(w) : \E i \in p + 1 .. k : y = u[i]
    <3>1. u \in Seq(Items) /\ p \in 1 .. Len(u)
      BY <2>7
    <3>2. \E v, w \in Seq(Items) :
             /\ IsAround(u, v, u[p], w) /\ Len(v) = p - 1 /\ Len(w) = Len(u) - p
             /\ \A y \in ToSet(v) : \E i \in 1 .. p - 1 : y = u[i]
             /\ \A y \in ToSet(w) : \E i \in p + 1 .. Len(u) : y = u[i]
      BY ONLY <3>1, SidesOf
    <3> QED
      BY ONLY <2>6, <2>7, <3>2
  <2>9. /\ \A y \in ToSet(v) : Rank[y] < Rank[x]
        /\ \A y \in ToSet(w) : Rank[y] >= Rank[x]
    BY <2>6, <2>8
  <2>10. ListAssumption /\ Part(a, u, b) /\ v \in Seq(Items) /\ w \in Seq(Items)
         /\ IsAround(u, v, x, w)
    BY <2>7, <2>8
  <2>11. /\ Part(a, v, x) /\ Part(x, w, b)
         /\ ToSet(u) = ToSet(v) \cup {x} \cup ToSet(w)
         /\ ToSet(v) \cap ToSet(w) = {}
         /\ x \in Items
    <3>1. SplitsAt(a, u, b, v, x, w)
      BY ONLY <2>10, SplitPart
    <3> QED
      BY <3>1 DEF SplitsAt
  <2>12. Joined(m1, a, v, x) /\ Joined(m1, x, w, b)
    <3>1. JoinedSides(m1, a, u, b, v, x, w)
      BY ONLY <2>10, JoinedAround
    <3> QED
      BY <2>7, <3>1 DEF JoinedSides
  <2>13. x \notin ToSet(v) /\ x \notin ToSet(w)
    BY <2>11 DEF Part
  <2>14. /\ Len(v) \in Nat /\ Len(v) <= d - 1
         /\ Len(w) \in Nat /\ Len(w) <= d - 1
    BY <1>1, <2>6, <2>8, LenProperties
  <2>15. SortsPart(m1, m2, a, v, x)
    <3>1. CASE Len(v) = 0
      <4>1. m1.next[a] = x
        BY <2>11, <2>12, <3>1, JoinedEnds
      <4>2. m2 = m1
        BY <2>2, <4>1 DEF At
      <4>3. SortsPart(m1, m1, a, v, x)
        BY <2>5, <2>11, <2>12, <3>1, ShortSorted
      <4> QED
        BY <4>2, <4>3
    <3>2. CASE Len(v) # 0
      <4>1. m1.next[a] = v[1]
        BY <2>11, <2>12, <3>2, JoinedEnds
      <4>2. v[1] \in ToSet(v)
        BY <2>14, <3>2, LenProperties DEF ToSet
      <4>3. m1.next[a] # x
        BY <2>13, <4>1, <4>2
      <4>4. m2 = f[d - 1][<<m1, <<"next", a>>, <<"prev", x>>>>]
        BY <2>2, <4>3 DEF At
      <4>5. SortsPart(m1, f[d - 1][<<m1, <<"next", a>>, <<"prev", x>>>>], a, v, x)
        BY <2>5, <2>11, <2>12, <2>14, <3>2 DEF Sorts
      <4> QED
        BY <4>4, <4>5
    <3> QED
      BY <3>1, <3>2
  <2>16. m2 \in Links
    BY <2>15 DEF SortsPart
  <2>17. ASSUME Joined(m2, x, w, b) PROVE SortsPart(m2, m3, x, w, b)
    <3>1. CASE Len(w) = 0
      <4>1. m2.prev[b] = x
        BY <2>11, <2>17, <3>1, JoinedEnds
      <4>2. m3 = m2
        BY <2>3, <4>1 DEF At
      <4>3. SortsPart(m2, m2, x, w, b)
        BY <2>11, <2>16, <2>17, <3>1, ShortSorted
      <4> QED
        BY <4>2, <4>3
    <3>2. CASE Len(w) # 0
      <4>1. m2.prev[b] = w[Len(w)]
        BY <2>11, <2>17, <3>2, JoinedEnds
      <4>2. w[Len(w)] \in ToSet(w)
        BY <2>14, <3>2, LenProperties DEF ToSet
      <4>3. m2.prev[b] # x
        BY <2>13, <4>1, <4>2
      <4>4. m3 = f[d - 1][<<m2, <<"next", x>>, <<"prev", b>>>>]
        BY <2>3, <4>3 DEF At
      <4>5. SortsPart(m2, f[d - 1][<<m2, <<"next", x>>, <<"prev", b>>>>], x, w, b)
        BY <2>11, <2>14, <2>16, <2>17, <3>2 DEF Sorts
      <4> QED
        BY <4>4, <4>5
    <3> QED
      BY <3>1, <3>2
  <2>18. SortsPart(m1, m3, a, u, b)
    BY ONLY <2>5, <2>7, <2>9, <2>10, <2>15, <2>17, SidesSorted
  <2>19. SortsPart(l, m3, a, s, b)
    <3>1. m3 \in Links
      BY <2>18 DEF SortsPart
    <3>2. PICK t \in Seq(Items) :
             /\ Part(a, t, b) /\ ToSet(t) = ToSet(u)
             /\ Joined(m3, a, t, b) /\ SameOutside(m1, m3, a, ToSet(u), b)
             /\ Ascending(t)
      BY <2>18 DEF SortsPart
    <3>3. SameOutside(l, m3, a, ToSet(s), b)
      BY <2>7, <3>2 DEF SameOutside
    <3> QED
      BY <2>7, <3>1, <3>2, <3>3 DEF SortsPart
  <2> QED
    BY <1>3, <2>4, <2>19
<1> QED
  BY <1>5, <1>6

LEMMA SortsAll ==
    ASSUME ListAssumption, NEW n \in Nat, NEW f, SortsTo(f, n)
    PROVE  Sorts(f, n)
<1> DEFINE T == {d \in 0 .. n : Sorts(f, d)}
<1>1. 0 \in T
  <2>1. ASSUME NEW a, NEW s, NEW b, Part(a, s, b), Len(s) # 0, Len(s) <= 0
        PROVE  FALSE
    <3>1. Len(s) \in Nat
      BY <2>1, LenProperties DEF Part
    <3> QED
      BY <2>1, <3>1
  <2>2. Sorts(f, 0)
    BY <2>1 DEF Sorts
  <2> QED
    BY <2>2
<1>2. ASSUME NEW k \in 0 .. n, k # n, k \in T PROVE k + 1 \in T
  <2>1. k + 1 \in 1 .. n /\ (k + 1) - 1 = k /\ k + 1 \in 0 .. n /\ Sorts(f, k)
    BY <1>2
  <2>2. Sorts(f, k + 1)
    BY <2>1, SortStep
  <2> QED
    BY <2>1, <2>2
<1> HIDE DEF T
<1>3. 0 .. n \subseteq T
  BY <1>1, <1>2, InductionUpTo
<1>4. n \in T
  BY <1>3
<1> QED
  BY <1>4 DEF T

(* List_Sort leaves a ring of the same items in order, and every other     *)
(* ring as it was.                                                         *)
LEMMA QuicksortSorts ==
    ASSUME ListAssumption, NEW l \in Links, NEW a, NEW s, NEW b,
           Part(a, s, b), Joined(l, a, s, b), Len(s) # 0
    PROVE  SortsPart(l, Quicksort(l, <<"next", a>>, <<"prev", b>>), a, s, b)
<1>1. PICK f : /\ SortsTo(f, Cardinality(Items))
               /\ \A m, front, back :
                     Quicksort(m, front, back) = f[Cardinality(Items)][<<m, front, back>>]
  BY QuicksortIs
<1>2. Cardinality(Items) \in Nat /\ Len(s) <= Cardinality(Items)
  BY FitsItems DEF Part
<1>3. Sorts(f, Cardinality(Items))
  BY <1>1, <1>2, SortsAll
<1>4. SortsPart(l, f[Cardinality(Items)][<<l, <<"next", a>>, <<"prev", b>>>>], a, s, b)
  BY <1>2, <1>3 DEF Sorts
<1> QED
  BY <1>1, <1>4

-----------------------------------------------------------------------------
(* The rings of all heads, with their lists.                               *)
Rings(l, c) ==
    /\ l \in Links
    /\ c \in [Heads -> Seq(Items)]
    /\ \A h \in Heads : Part(h, c[h], h) /\ Joined(l, h, c[h], h)
    /\ \A g, h \in Heads : g # h => ToSet(c[g]) \cap ToSet(c[h]) = {}

(* Every cell in a list is in one list only, and the pointers of the cells *)
(* of a list and of its head make a ring.                                  *)
ListInv == Rings(links, Contents)

LEMMA ReverseIs ==
    ASSUME NEW S, NEW s \in Seq(S), NEW t, t = Reverse(s)
    PROVE  /\ t \in Seq(S) /\ Len(t) = Len(s)
           /\ \A i \in 1 .. Len(s) : t[i] = s[Len(s) + 1 - i]
           /\ ToSet(t) = ToSet(s)
           /\ IsInjective(s) => IsInjective(t)
<1> DEFINE n == Len(s)
<1>1. n \in Nat /\ DOMAIN s = 1 .. n /\ \A i \in 1 .. n : s[i] \in S
  BY LenProperties, ElementOfSeq
<1>2. t = [i \in 1 .. n |-> s[(n - i) + 1]]
  BY DEF Reverse
<1> HIDE DEF n
<1>3. \A i \in 1 .. n : (n - i) + 1 \in 1 .. n /\ (n - i) + 1 = n + 1 - i
  BY <1>1
<1>4. t \in [1 .. n -> S] /\ \A i \in 1 .. n : t[i] = s[n + 1 - i]
  BY <1>1, <1>2, <1>3
<1>5. t \in Seq(S) /\ Len(t) = n /\ DOMAIN t = 1 .. n
  BY <1>1, <1>4, ListOfFunction
<1>6. \A i \in 1 .. n : n + 1 - i \in 1 .. n /\ n + 1 - (n + 1 - i) = i
  BY <1>1
<1>7. ToSet(t) = ToSet(s)
  <2>1. ToSet(t) = {t[i] : i \in 1 .. n} /\ ToSet(s) = {s[i] : i \in 1 .. n}
    BY <1>1, <1>5 DEF ToSet
  <2>2. \A i \in 1 .. n : \E j \in 1 .. n : t[i] = s[j]
    BY <1>4, <1>6
  <2>3. \A i \in 1 .. n : \E j \in 1 .. n : s[i] = t[j]
    BY <1>4, <1>6
  <2>4. ToSet(t) \subseteq ToSet(s)
    BY <2>1, <2>2
  <2>5. ToSet(s) \subseteq ToSet(t)
    BY <2>1, <2>3
  <2> QED
    BY <2>4, <2>5
<1>8. ASSUME IsInjective(s) PROVE IsInjective(t)
  <2>1. ASSUME NEW i \in 1 .. n, NEW j \in 1 .. n, t[i] = t[j] PROVE i = j
    <3>1. s[n + 1 - i] = s[n + 1 - j]
      BY <1>4, <2>1
    <3>2. n + 1 - i = n + 1 - j
      BY <1>1, <1>6, <1>8, <3>1 DEF IsInjective
    <3> QED
      BY <1>1, <3>2
  <2> QED
    BY <1>5, <2>1 DEF IsInjective
<1> QED
  BY <1>4, <1>5, <1>7, <1>8 DEF n

(* What the walks along the pointers find.                                 *)
LEMMA RingWalks ==
    ASSUME ListAssumption, NEW h, NEW s, Part(h, s, h), NEW l, Joined(l, h, s, h)
    PROVE  /\ Walk(l.next, h) = s
           /\ Walk(l.prev, h) = Reverse(s)
           /\ l.prev[h] = h <=> s = <<>>
<1>0. PICK c : c = Between(h, s, h)
  OBVIOUS
<1>1. PICK t : t = Reverse(s)
  OBVIOUS
<1>2. PICK d : d = Between(h, t, h)
  OBVIOUS
<1> DEFINE n == Len(s)
<1>3. n \in Nat /\ c[0] = h /\ c[n + 1] = h /\ \A i \in 1 .. n : c[i] = s[i]
  BY <1>0, PartCells
<1>4. s \in Seq(Items) /\ IsInjective(s) /\ h \notin ToSet(s)
  BY DEF Part
<1>5. \A i \in 0 .. n : l.next[c[i]] = c[i + 1] /\ l.prev[c[i + 1]] = c[i]
  BY <1>0 DEF Joined, Chained
<1>6. Walk(l.next, h) = s
  BY <1>0, <1>4, <1>5, WalkIs
<1>7. /\ t \in Seq(Items) /\ Len(t) = n /\ ToSet(t) = ToSet(s) /\ IsInjective(t)
      /\ \A i \in 1 .. n : t[i] = s[n + 1 - i]
  BY <1>1, <1>4, ReverseIs
<1>8. Part(h, t, h)
  BY <1>7 DEF Part
<1>9. d[0] = h /\ d[n + 1] = h /\ \A i \in 1 .. n : d[i] = t[i]
  <2>1. d[0] = h /\ d[Len(t) + 1] = h
    BY <1>2, <1>8, PartCells
  <2>2. \A i \in 1 .. Len(t) : d[i] = t[i]
    BY <1>2, <1>8, PartCells
  <2> QED
    BY <1>7, <2>1, <2>2
<1> HIDE DEF n
<1>10. \A i \in 0 .. n + 1 : d[i] = c[n + 1 - i]
  <2>1. ASSUME NEW i \in 1 .. n PROVE d[i] = c[n + 1 - i]
    <3>1. n + 1 - i \in 1 .. n
      BY <1>3
    <3> QED
      BY <1>3, <1>7, <1>9, <3>1
  <2>2. n + 1 - 0 = n + 1 /\ n + 1 - (n + 1) = 0
    BY <1>3
  <2>3. \A i \in 0 .. n + 1 : i = 0 \/ i = n + 1 \/ i \in 1 .. n
    BY <1>3
  <2> QED
    BY <1>3, <1>9, <2>1, <2>2, <2>3
<1>11. ASSUME NEW i \in 0 .. n PROVE l.prev[d[i]] = d[i + 1]
  <2>1. /\ n - i \in 0 .. n /\ n + 1 - i = (n - i) + 1 /\ n + 1 - (i + 1) = n - i
        /\ i \in 0 .. n + 1 /\ i + 1 \in 0 .. n + 1
    BY <1>3
  <2>2. d[i] = c[(n - i) + 1] /\ d[i + 1] = c[n - i]
    BY <1>10, <2>1
  <2>3. l.prev[c[(n - i) + 1]] = c[n - i]
    BY <1>5, <2>1
  <2> QED
    BY <2>2, <2>3
<1>12. Walk(l.prev, h) = t
  <2>1. h \notin ToSet(t) /\ \A i \in 0 .. Len(t) : l.prev[d[i]] = d[i + 1]
    BY <1>4, <1>7, <1>11
  <2> QED
    BY <1>2, <1>7, <2>1, WalkIs
<1>13. l.prev[h] = h <=> s = <<>>
  <2>1. /\ Len(s) = 0 => l.next[h] = h /\ l.prev[h] = h
        /\ Len(s) # 0 => l.next[h] = s[1] /\ l.prev[h] = s[Len(s)]
    BY JoinedEnds
  <2>2. CASE Len(s) = 0
    BY <1>4, <2>1, <2>2
  <2>3. CASE Len(s) # 0
    <3>1. s[Len(s)] \in ToSet(s) /\ s # <<>>
      BY <1>3, <1>4, <2>3, LenProperties DEF ToSet, n
    <3> QED
      BY <1>4, <2>1, <2>3, <3>1
  <2> QED
    BY <2>2, <2>3
<1> QED
  BY <1>1, <1>6, <1>12, <1>13

ListsOf(l) == [head \in Heads |-> Walk(l.next, head)]

LEMMA RingsLists ==
    ASSUME ListAssumption, NEW l, NEW c, Rings(l, c)
    PROVE  ListsOf(l) = c
<1>1. \A h \in Heads : Walk(l.next, h) = c[h]
  <2>1. ASSUME NEW h \in Heads PROVE Walk(l.next, h) = c[h]
    <3>1. Part(h, c[h], h) /\ Joined(l, h, c[h], h)
      BY DEF Rings
    <3> QED
      BY <3>1, RingWalks
  <2> QED
    BY <2>1
<1>2. c = [h \in Heads |-> c[h]]
  BY DEF Rings
<1> QED
  BY <1>1, <1>2 DEF ListsOf

(* When one ring has changed, the others are as they were.                 *)
LEMMA RingChanged ==
    ASSUME ListAssumption, NEW l, NEW c, Rings(l, c), NEW h \in Heads,
           NEW m \in Links, NEW t, Part(h, t, h), Joined(m, h, t, h),
           NEW set \in SUBSET Items, SameOutside(l, m, h, set, h),
           \A g \in Heads : g # h => ToSet(c[g]) \cap (set \cup ToSet(t)) = {}
    PROVE  Rings(m, [c EXCEPT ![h] = t])
<1>1. PICK d : d = [c EXCEPT ![h] = t]
  OBVIOUS
<1>2. /\ c \in [Heads -> Seq(Items)] /\ t \in Seq(Items)
      /\ \A g \in Heads : Part(g, c[g], g) /\ Joined(l, g, c[g], g)
  BY DEF Rings, Part
<1>3. d \in [Heads -> Seq(Items)] /\ d[h] = t /\ \A g \in Heads : g # h => d[g] = c[g]
  BY <1>1, <1>2
<1>4. ASSUME NEW g \in Heads, g # h PROVE Joined(m, g, c[g], g)
  <2>1. /\ ToSet(c[g]) \subseteq Cells /\ ToSet(c[g]) \cap set = {}
        /\ g \in Cells /\ g \notin set /\ h \notin ToSet(c[g])
    <3>1. c[g] \in Seq(Items)
      BY <1>2
    <3>2. ToSet(c[g]) \subseteq Items
      BY <3>1, SeqCells
    <3>3. ToSet(c[g]) \cap set = {}
      BY <1>4
    <3>4. Heads \cap Items = {}
      BY DEF ListAssumption
    <3> QED
      BY <3>2, <3>3, <3>4 DEF Cells
  <2>2. \A x \in ToSet(c[g]) \cup {g} : m.next[x] = l.next[x] /\ m.prev[x] = l.prev[x]
    BY <1>4, <2>1 DEF SameOutside
  <2>3. Part(g, c[g], g) /\ Joined(l, g, c[g], g)
    BY <1>2
  <2> QED
    BY <2>2, <2>3, JoinedStays
<1>5. \A g \in Heads : Part(g, d[g], g) /\ Joined(m, g, d[g], g)
  BY <1>2, <1>3, <1>4
<1>6. \A f, g \in Heads : f # g => ToSet(d[f]) \cap ToSet(d[g]) = {}
  BY <1>3 DEF Rings
<1>7. Rings(m, d)
  BY <1>3, <1>5, <1>6 DEF Rings
<1> QED
  BY <1>1, <1>7

-----------------------------------------------------------------------------
(* The operations, each on one ring.                                       *)
LEMMA RingInitialize ==
    ASSUME ListAssumption, NEW l, NEW c, Rings(l, c), NEW h \in Heads
    PROVE  Rings(Initialized(l, h), [c EXCEPT ![h] = <<>>])
<1>1. PICK m : m = Initialized(l, h)
  OBVIOUS
<1>2. PICK t : t = <<>>
  OBVIOUS
<1>3. l.next \in [Cells -> Cells] /\ l.prev \in [Cells -> Cells] /\ h \in Cells
  BY DEF Rings, Links, Cells
<1>4. m.prev = [l.prev EXCEPT ![h] = h] /\ m.next = [l.next EXCEPT ![h] = h]
  BY <1>1 DEF Initialized
<1>5. m \in Links
  <2>1. m = [prev |-> m.prev, next |-> m.next]
    BY <1>1 DEF Initialized
  <2>2. m.prev \in [Cells -> Cells] /\ m.next \in [Cells -> Cells]
    BY <1>3, <1>4
  <2> QED
    BY <2>1, <2>2 DEF Links
<1>6. t \in Seq(Items) /\ Len(t) = 0 /\ ToSet(t) = {} /\ IsInjective(t)
  BY <1>2 DEF ToSet, IsInjective
<1>7. Part(h, t, h)
  BY <1>3, <1>6 DEF Part
<1>8. Joined(m, h, t, h)
  <2>1. PICK d : d = Between(h, t, h)
    OBVIOUS
  <2>2. d[0] = h /\ d[Len(t) + 1] = h
    BY <1>7, <2>1, PartCells
  <2>3. \A i \in 0 .. 0 : m.next[d[i]] = d[i + 1] /\ m.prev[d[i + 1]] = d[i]
    BY <1>3, <1>4, <1>6, <2>2
  <2> QED
    BY <1>6, <2>1, <2>3 DEF Joined, Chained
<1>9. SameOutside(l, m, h, {}, h)
  BY <1>3, <1>4 DEF SameOutside
<1>10. Rings(m, [c EXCEPT ![h] = t])
  <2>1. {} \in SUBSET Items
    OBVIOUS
  <2>2. \A g \in Heads : g # h => ToSet(c[g]) \cap ({} \cup ToSet(t)) = {}
    BY <1>6
  <2> QED
    BY <1>5, <1>7, <1>8, <1>9, <2>1, <2>2, RingChanged
<1> QED
  BY <1>1, <1>2, <1>10

(* What the rings say of one of them.                                      *)
LEMMA OneRing ==
    ASSUME ListAssumption, NEW l, NEW c, Rings(l, c), NEW h \in Heads
    PROVE  /\ l \in Links
           /\ Part(h, c[h], h) /\ Joined(l, h, c[h], h)
           /\ c[h] \in Seq(Items) /\ Len(c[h]) \in Nat /\ DOMAIN c[h] = 1 .. Len(c[h])
           /\ IsInjective(c[h]) /\ ToSet(c[h]) \in SUBSET Items
           /\ h \notin Items
           /\ \A g \in Heads : g # h => ToSet(c[g]) \cap ToSet(c[h]) = {}
<1>1. Part(h, c[h], h) /\ Joined(l, h, c[h], h) /\ c[h] \in Seq(Items) /\ l \in Links
  BY DEF Rings
<1>2. Len(c[h]) \in Nat /\ DOMAIN c[h] = 1 .. Len(c[h])
  BY <1>1, LenProperties
<1>3. IsInjective(c[h]) /\ ToSet(c[h]) \in SUBSET Items
  BY <1>1, SeqCells DEF Part
<1>4. h \notin Items
  BY DEF ListAssumption
<1>5. \A g \in Heads : g # h => ToSet(c[g]) \cap ToSet(c[h]) = {}
  BY DEF Rings
<1> QED
  BY <1>1, <1>2, <1>3, <1>4, <1>5

LEMMA RingInsert ==
    ASSUME ListAssumption, NEW l, NEW c, Rings(l, c), NEW h \in Heads,
           NEW x \in Items, \A g \in Heads : x \notin ToSet(c[g]),
           NEW k \in 0 .. Len(c[h]), NEW t, t = InsertAt(c[h], k + 1, x),
           NEW m,
           m = Inserted(l, x, Between(h, c[h], h)[k], Between(h, c[h], h)[k + 1])
    PROVE  Rings(m, [c EXCEPT ![h] = t])
<1>1. /\ l \in Links
      /\ Part(h, c[h], h) /\ Joined(l, h, c[h], h)
      /\ ToSet(c[h]) \in SUBSET Items
      /\ h \notin Items
      /\ \A g \in Heads : g # h => ToSet(c[g]) \cap ToSet(c[h]) = {}
  BY OneRing
<1>2. x \notin ToSet(c[h]) /\ x # h
  BY <1>1
<1>3. /\ m \in Links
      /\ Part(h, t, h)
      /\ ToSet(t) = ToSet(c[h]) \cup {x}
      /\ Joined(m, h, t, h)
      /\ SameOutside(l, m, h, ToSet(t), h)
  <2>1. PICK s : s = c[h]
    OBVIOUS
  <2>2. ListAssumption /\ Part(h, s, h) /\ l \in Links /\ Joined(l, h, s, h)
    BY <1>1, <2>1
  <2>3. x \in Items /\ x \notin ToSet(s) /\ x # h /\ k \in 0 .. Len(s)
    BY <1>2, <2>1
  <2>4. /\ t = InsertAt(s, k + 1, x)
        /\ m = Inserted(l, x, Between(h, s, h)[k], Between(h, s, h)[k + 1])
    BY <2>1
  <2>5. InsertedIn(l, m, h, s, h, x, t)
    BY ONLY <2>2, <2>3, <2>4, JoinedInsert
  <2> QED
    BY <2>1, <2>5 DEF InsertedIn
<1>4. ToSet(t) \in SUBSET Items
  BY <1>1, <1>3
<1>5. \A g \in Heads : g # h => ToSet(c[g]) \cap (ToSet(t) \cup ToSet(t)) = {}
  BY <1>1, <1>3
<1> QED
  BY <1>3, <1>4, <1>5, RingChanged

LEMMA RingRemove ==
    ASSUME ListAssumption, NEW l, NEW c, Rings(l, c), NEW h \in Heads,
           NEW k \in 1 .. Len(c[h]), NEW t, t = RemoveAt(c[h], k),
           NEW m, m = Removed(l, c[h][k])
    PROVE  Rings(m, [c EXCEPT ![h] = t])
<1>1. /\ l \in Links
      /\ Part(h, c[h], h) /\ Joined(l, h, c[h], h)
      /\ ToSet(c[h]) \in SUBSET Items
      /\ h \notin Items
      /\ \A g \in Heads : g # h => ToSet(c[g]) \cap ToSet(c[h]) = {}
  BY OneRing
<1>2. /\ m \in Links
      /\ Part(h, t, h)
      /\ ToSet(t) = ToSet(c[h]) \ {c[h][k]}
      /\ Joined(m, h, t, h)
      /\ SameOutside(l, m, h, ToSet(c[h]), h)
  <2>1. PICK s : s = c[h]
    OBVIOUS
  <2>2. ListAssumption /\ Part(h, s, h) /\ l \in Links /\ Joined(l, h, s, h)
    BY <1>1, <2>1
  <2>3. k \in 1 .. Len(s) /\ t = RemoveAt(s, k) /\ m = Removed(l, s[k])
    BY <2>1
  <2>4. RemovedIn(l, m, h, s, h, k, t)
    BY ONLY <2>2, <2>3, JoinedRemove
  <2> QED
    BY <2>1, <2>4 DEF RemovedIn
<1>3. \A g \in Heads : g # h => ToSet(c[g]) \cap (ToSet(c[h]) \cup ToSet(t)) = {}
  BY <1>1, <1>2
<1> QED
  BY <1>1, <1>2, <1>3, RingChanged

LEMMA RingReplace ==
    ASSUME ListAssumption, NEW l, NEW c, Rings(l, c), NEW h \in Heads,
           NEW x \in Items, \A g \in Heads : x \notin ToSet(c[g]),
           NEW k \in 1 .. Len(c[h]), NEW t, t = Exchanged(c[h], k, x),
           NEW m, m = Inserted(l, x, l.prev[c[h][k]], l.next[c[h][k]])
    PROVE  Rings(m, [c EXCEPT ![h] = t])
<1>1. /\ l \in Links
      /\ Part(h, c[h], h) /\ Joined(l, h, c[h], h)
      /\ ToSet(c[h]) \in SUBSET Items
      /\ h \notin Items
      /\ \A g \in Heads : g # h => ToSet(c[g]) \cap ToSet(c[h]) = {}
  BY OneRing
<1>2. x \notin ToSet(c[h]) /\ x # h
  BY <1>1
<1>3. /\ m \in Links
      /\ Part(h, t, h)
      /\ ToSet(t) = (ToSet(c[h]) \ {c[h][k]}) \cup {x}
      /\ Joined(m, h, t, h)
      /\ SameOutside(l, m, h, ToSet(c[h]) \cup {x}, h)
  <2>1. PICK s : s = c[h]
    OBVIOUS
  <2>2. ListAssumption /\ Part(h, s, h) /\ l \in Links /\ Joined(l, h, s, h)
    BY <1>1, <2>1
  <2>3. x \in Items /\ x \notin ToSet(s) /\ x # h /\ k \in 1 .. Len(s)
    BY <1>2, <2>1
  <2>4. t = Exchanged(s, k, x) /\ m = Inserted(l, x, l.prev[s[k]], l.next[s[k]])
    BY <2>1
  <2>5. ReplacedIn(l, m, h, s, h, k, x, t)
    BY ONLY <2>2, <2>3, <2>4, JoinedReplace
  <2> QED
    BY <2>1, <2>5 DEF ReplacedIn
<1>4. ToSet(c[h]) \cup {x} \in SUBSET Items
  BY <1>1
<1>5. \A g \in Heads : g # h => ToSet(c[g]) \cap ((ToSet(c[h]) \cup {x}) \cup ToSet(t)) = {}
  BY <1>1, <1>3
<1> QED
  BY <1>3, <1>4, <1>5, RingChanged

(* An empty ring stays as it is, any other one gets sorted.                *)
LEMMA RingSort ==
    ASSUME ListAssumption, NEW l, NEW c, Rings(l, c), NEW h \in Heads,
           NEW m, m = Quicksort(l, <<"next", h>>, <<"prev", h>>)
    PROVE  \E t \in Seq(Items) :
              /\ Rings(m, [c EXCEPT ![h] = t])
              /\ ToSet(t) = ToSet(c[h]) /\ IsInjective(t) /\ Ascending(t)
<1>1. /\ l \in Links
      /\ Part(h, c[h], h) /\ Joined(l, h, c[h], h)
      /\ c[h] \in Seq(Items) /\ Len(c[h]) \in Nat
      /\ ToSet(c[h]) \in SUBSET Items
      /\ \A g \in Heads : g # h => ToSet(c[g]) \cap ToSet(c[h]) = {}
  BY OneRing
<1>2. SortsPart(l, m, h, c[h], h)
  <2>1. CASE Len(c[h]) # 0
    BY <1>1, <2>1, QuicksortSorts
  <2>2. CASE Len(c[h]) = 0
    <3>1. l.next[h] = h /\ l.prev[h] = h
      BY <1>1, <2>2, JoinedEnds
    <3>2. m = l
      <4>1. PICK f : /\ SortsTo(f, Cardinality(Items))
                     /\ \A p, front, back :
                           Quicksort(p, front, back) = f[Cardinality(Items)][<<p, front, back>>]
        BY QuicksortIs
      <4>2. PICK n : n = Cardinality(Items)
        OBVIOUS
      <4>3. n \in Nat
        BY <4>2, FS_CardinalityType DEF ListAssumption
      <4>4. PICK call : call = <<l, <<"next", h>>, <<"prev", h>>>>
        OBVIOUS
      <4>5. call \in Calls
        BY <1>1, <4>4 DEF Calls, Fields, Cells
      <4>6. f[n] = [d \in Calls |-> SortCall(f, n, d)]
        BY <4>1, <4>2, <4>3 DEF SortsTo
      <4>7. f[n][call] = SortCall(f, n, call)
        BY <4>5, <4>6
      <4>8. At(l, <<"next", h>>) = h /\ At(l, <<"prev", h>>) = h
        BY <3>1 DEF At
      <4>9. SortCall(f, n, call) = l
        BY <4>4, <4>8 DEF SortCall
      <4> QED
        BY <4>1, <4>2, <4>4, <4>7, <4>9
    <3>3. SortsPart(l, l, h, c[h], h)
      <4>1. ListAssumption /\ Part(h, c[h], h) /\ l \in Links /\ Joined(l, h, c[h], h)
            /\ Len(c[h]) <= 1
        BY <1>1, <2>2
      <4> QED
        BY ONLY <4>1, ShortSorted
    <3> QED
      BY <3>2, <3>3
  <2> QED
    BY <2>1, <2>2
<1>3. PICK t \in Seq(Items) :
         /\ Part(h, t, h) /\ ToSet(t) = ToSet(c[h])
         /\ Joined(m, h, t, h) /\ SameOutside(l, m, h, ToSet(c[h]), h)
         /\ Ascending(t)
  BY <1>2 DEF SortsPart
<1>4. m \in Links
  BY <1>2 DEF SortsPart
<1>5. \A g \in Heads : g # h => ToSet(c[g]) \cap (ToSet(c[h]) \cup ToSet(t)) = {}
  BY <1>1, <1>3
<1>6. Rings(m, [c EXCEPT ![h] = t])
  BY <1>1, <1>3, <1>4, <1>5, RingChanged
<1>7. IsInjective(t)
  BY <1>3 DEF Part
<1> QED
  BY <1>3, <1>6, <1>7

-----------------------------------------------------------------------------
(* The actions.                                                            *)
LEMMA ContentsAre == Contents = ListsOf(links)
BY DEF Contents, ListsOf

LEMMA ListBecomes ==
    ASSUME ListAssumption, NEW d, Rings(links', d)
    PROVE  Contents' = d /\ ListInv'
<1>1. Contents' = ListsOf(links')
  BY ContentsAre DEF Contents, ListsOf
<1>2. ListsOf(links') = d
  BY RingsLists
<1> QED
  BY <1>1, <1>2 DEF ListInv

LEMMA InLists ==
    ASSUME ListAssumption, ListInv
    PROVE  /\ \A x \in Items : x \notin Linked => \A h \in Heads : x \notin ToSet(Contents[h])
           /\ \A x \in Linked :
                 \E h \in Heads : \E i \in 1 .. Len(Contents[h]) : Contents[h][i] = x
           /\ \A h \in Heads : /\ Contents[h] \in Seq(Items)
                               /\ DOMAIN Contents[h] = 1 .. Len(Contents[h])
<1>1. \A h \in Heads : /\ Contents[h] \in Seq(Items)
                       /\ DOMAIN Contents[h] = 1 .. Len(Contents[h])
  BY LenProperties DEF ListInv, Rings
<1>2. \A x \in Linked : \E h \in Heads : x \in ToSet(Contents[h])
  BY DEF Linked
<1>3. \A h \in Heads : \A x \in ToSet(Contents[h]) :
         \E i \in 1 .. Len(Contents[h]) : Contents[h][i] = x
  BY <1>1 DEF ToSet
<1> QED
  BY <1>1, <1>2, <1>3 DEF Linked

(* The neighbours of an item, or of a head, by their places in the list.   *)
LEMMA RingNeighbours ==
    ASSUME ListAssumption, NEW l, NEW c, Rings(l, c), NEW h \in Heads,
           NEW s, s = c[h], NEW r, r = Between(h, s, h)
    PROVE  /\ r[0] = h /\ r[Len(s) + 1] = h
           /\ \A i \in 1 .. Len(s) : r[i] = s[i]
           /\ l.next[h] = r[1] /\ l.prev[h] = r[Len(s)]
           /\ \A i \in 1 .. Len(s) : l.prev[s[i]] = r[i - 1] /\ l.next[s[i]] = r[i + 1]
<1>1. Part(h, s, h) /\ Joined(l, h, s, h)
  BY OneRing
<1>2. /\ Len(s) \in Nat
      /\ r[0] = h /\ r[Len(s) + 1] = h /\ \A i \in 1 .. Len(s) : r[i] = s[i]
  BY <1>1, PartCells
<1> DEFINE n == Len(s)
<1>3. \A i \in 0 .. n : l.next[r[i]] = r[i + 1] /\ l.prev[r[i + 1]] = r[i]
  BY <1>1 DEF Joined, Chained
<1> HIDE DEF n
<1>4. n \in Nat /\ 0 \in 0 .. n /\ n \in 0 .. n
  BY <1>2 DEF n
<1>5. l.next[h] = r[1] /\ l.prev[h] = r[n]
  <2>1. l.next[r[0]] = r[0 + 1] /\ l.prev[r[n + 1]] = r[n]
    BY <1>3, <1>4
  <2> QED
    BY <1>2, <2>1 DEF n
<1>6. ASSUME NEW i \in 1 .. n PROVE l.prev[s[i]] = r[i - 1] /\ l.next[s[i]] = r[i + 1]
  <2>1. i \in 0 .. n /\ i - 1 \in 0 .. n /\ (i - 1) + 1 = i
    BY <1>4
  <2>2. l.next[r[i]] = r[i + 1] /\ l.prev[r[i]] = r[i - 1]
    BY <1>3, <2>1
  <2> QED
    BY <1>2, <2>2 DEF n
<1> QED
  BY <1>2, <1>5, <1>6 DEF n

LEMMA InitializeStep ==
    ASSUME ListAssumption, ListInv, NEW head \in Heads, Initialize(head)
    PROVE  Contents' = [Contents EXCEPT ![head] = <<>>] /\ ListInv'
<1>1. Rings(Initialized(links, head), [Contents EXCEPT ![head] = <<>>])
  BY RingInitialize DEF ListInv
<1>2. Rings(links', [Contents EXCEPT ![head] = <<>>])
  BY <1>1 DEF Initialize
<1> QED
  BY <1>2, ListBecomes

LEMMA InsertedStep ==
    ASSUME ListAssumption, ListInv, NEW head \in Heads, NEW item \in Items,
           item \notin Linked,
           NEW k \in 0 .. Len(Contents[head]),
           links' = Inserted(links, item, Between(head, Contents[head], head)[k],
                             Between(head, Contents[head], head)[k + 1])
    PROVE  /\ Contents' = [Contents EXCEPT ![head] = InsertAt(Contents[head], k + 1, item)]
           /\ ListInv'
<1>1. \A g \in Heads : item \notin ToSet(Contents[g])
  BY InLists
<1>2. PICK t : t = InsertAt(Contents[head], k + 1, item)
  OBVIOUS
<1>3. PICK m : m = links'
  OBVIOUS
<1>4. Rings(m, [Contents EXCEPT ![head] = t])
  BY <1>1, <1>2, <1>3, RingInsert DEF ListInv
<1> QED
  BY <1>2, <1>3, <1>4, ListBecomes

(* Where InsertAt puts an item at an end.                                  *)
LEMMA InsertedAtEnds ==
    ASSUME NEW S, NEW s \in Seq(S), NEW x \in S
    PROVE  /\ InsertAt(s, Len(s) + 1, x) = Append(s, x)
           /\ InsertAt(s, 0 + 1, x) = <<x>> \o s
<1>1. Len(s) \in Nat
  BY LenProperties
<1>2. PICK t : t = InsertAt(s, Len(s) + 1, x)
  OBVIOUS
<1>3. PICK u : u = InsertAt(s, 0 + 1, x)
  OBVIOUS
<1>4. Len(s) \in 0 .. Len(s) /\ 0 \in 0 .. Len(s)
  BY <1>1
<1>5. t \in Seq(S) /\ IsInserted(t, s, Len(s), x)
  BY <1>2, <1>4, InsertAtIs
<1>6. u \in Seq(S) /\ IsInserted(u, s, 0, x)
  BY <1>3, <1>4, InsertAtIs
<1>7. t = Append(s, x)
  <2>1. /\ Append(s, x) \in Seq(S) /\ Len(Append(s, x)) = Len(s) + 1
        /\ \A i \in 1 .. Len(s) : Append(s, x)[i] = s[i]
        /\ Append(s, x)[Len(s) + 1] = x
    BY AppendProperties
  <2>2. /\ Len(t) = Len(s) + 1 /\ \A i \in 1 .. Len(s) : t[i] = s[i]
        /\ t[Len(s) + 1] = x
    BY <1>5 DEF IsInserted
  <2>3. \A i \in 1 .. Len(s) + 1 : i = Len(s) + 1 \/ i \in 1 .. Len(s)
    BY <1>1
  <2>4. \A i \in 1 .. Len(t) : t[i] = Append(s, x)[i]
    BY <2>1, <2>2, <2>3
  <2> QED
    BY <1>5, <2>1, <2>2, <2>4, SeqEqual
<1>8. u = <<x>> \o s
  <2>1. PICK v : v = <<x>> \o s
    OBVIOUS
  <2>2. <<x>> \in Seq(S) /\ Len(<<x>>) = 1 /\ <<x>>[1] = x
    OBVIOUS
  <2>3. v \in Seq(S) /\ IsConcat(v, <<x>>, s)
    BY <2>1, <2>2, ConcatIs
  <2>4. /\ Len(v) = 1 + Len(s) /\ v[1] = x /\ \A i \in 1 .. Len(s) : v[1 + i] = s[i]
    BY <2>2, <2>3 DEF IsConcat
  <2>5. /\ Len(u) = Len(s) + 1 /\ u[1] = x
        /\ \A i \in 2 .. Len(s) + 1 : u[i] = s[i - 1]
    BY <1>6 DEF IsInserted
  <2>6. ASSUME NEW i \in 1 .. Len(u) PROVE u[i] = v[i]
    <3>1. CASE i = 1
      BY <2>4, <2>5, <3>1
    <3>2. CASE i # 1
      <4>1. i \in 2 .. Len(s) + 1 /\ i - 1 \in 1 .. Len(s) /\ 1 + (i - 1) = i
        BY <1>1, <2>5, <3>2
      <4> QED
        BY <2>4, <2>5, <4>1
    <3> QED
      BY <3>1, <3>2
  <2>7. u = v
    BY <1>1, <1>6, <2>3, <2>4, <2>5, <2>6, SeqEqual
  <2> QED
    BY <2>1, <2>7
<1> QED
  BY <1>2, <1>3, <1>7, <1>8

LEMMA InsertBackStep ==
    ASSUME ListAssumption, ListInv, NEW head \in Heads, NEW item \in Items,
           InsertBack(head, item)
    PROVE  /\ Contents' = [Contents EXCEPT ![head] = Append(Contents[head], item)]
           /\ ListInv'
<1>1. PICK s : s = Contents[head]
  OBVIOUS
<1>2. PICK r : r = Between(head, s, head)
  OBVIOUS
<1>3. s \in Seq(Items) /\ Len(s) \in Nat
  BY <1>1, InLists, LenProperties
<1>4. r[Len(s) + 1] = head /\ links.prev[head] = r[Len(s)]
  BY <1>1, <1>2, RingNeighbours DEF ListInv
<1>5. links' = Inserted(links, item, r[Len(s)], r[Len(s) + 1])
  BY <1>4 DEF InsertBack
<1>6. Len(s) \in 0 .. Len(s) /\ item \notin Linked
  BY <1>3 DEF InsertBack
<1>7. /\ Contents' = [Contents EXCEPT ![head] = InsertAt(s, Len(s) + 1, item)]
      /\ ListInv'
  BY <1>1, <1>2, <1>5, <1>6, InsertedStep
<1> QED
  BY <1>1, <1>3, <1>7, InsertedAtEnds

LEMMA InsertFrontStep ==
    ASSUME ListAssumption, ListInv, NEW head \in Heads, NEW item \in Items,
           InsertFront(head, item)
    PROVE  /\ Contents' = [Contents EXCEPT ![head] = <<item>> \o Contents[head]]
           /\ ListInv'
<1>1. PICK s : s = Contents[head]
  OBVIOUS
<1>2. PICK r : r = Between(head, s, head)
  OBVIOUS
<1>3. s \in Seq(Items) /\ Len(s) \in Nat
  BY <1>1, InLists, LenProperties
<1>4. r[0] = head /\ links.next[head] = r[0 + 1]
  BY <1>1, <1>2, RingNeighbours DEF ListInv
<1>5. links' = Inserted(links, item, r[0], r[0 + 1])
  BY <1>4 DEF InsertFront
<1>6. 0 \in 0 .. Len(s) /\ item \notin Linked
  BY <1>3 DEF InsertFront
<1>7. /\ Contents' = [Contents EXCEPT ![head] = InsertAt(s, 0 + 1, item)]
      /\ ListInv'
  BY <1>1, <1>2, <1>5, <1>6, InsertedStep
<1> QED
  BY <1>1, <1>3, <1>7, InsertedAtEnds

(* The list and the place of an item that is in one.                       *)
IsAt(item, head, i) ==
    /\ head \in Heads /\ i \in 1 .. Len(Contents[head])
    /\ Contents[head][i] = item

LEMMA InsertBeforeStep ==
    ASSUME ListAssumption, ListInv, NEW self \in Items, NEW other \in Items,
           InsertBefore(self, other), NEW head, NEW i, IsAt(other, head, i)
    PROVE  /\ Contents' = [Contents EXCEPT ![head] = InsertAt(Contents[head], i, self)]
           /\ ListInv'
<1>1. PICK s : s = Contents[head]
  OBVIOUS
<1>2. PICK r : r = Between(head, s, head)
  OBVIOUS
<1>3. s \in Seq(Items) /\ Len(s) \in Nat /\ i \in 1 .. Len(s) /\ s[i] = other /\ head \in Heads
  BY <1>1, InLists, LenProperties DEF IsAt
<1>4. r[i] = other /\ links.prev[other] = r[i - 1]
  BY <1>1, <1>2, <1>3, RingNeighbours DEF ListInv
<1>5. i - 1 \in 0 .. Len(s) /\ (i - 1) + 1 = i
  BY <1>3
<1>6. links' = Inserted(links, self, r[i - 1], r[(i - 1) + 1]) /\ self \notin Linked
  BY <1>4, <1>5 DEF InsertBefore
<1>7. /\ Contents' = [Contents EXCEPT ![head] = InsertAt(s, (i - 1) + 1, self)]
      /\ ListInv'
  BY <1>1, <1>2, <1>3, <1>5, <1>6, InsertedStep
<1> QED
  BY <1>1, <1>5, <1>7

LEMMA InsertAfterStep ==
    ASSUME ListAssumption, ListInv, NEW self \in Items, NEW other \in Items,
           InsertAfter(self, other), NEW head, NEW i, IsAt(other, head, i)
    PROVE  /\ Contents' = [Contents EXCEPT ![head] = InsertAt(Contents[head], i + 1, self)]
           /\ ListInv'
<1>1. PICK s : s = Contents[head]
  OBVIOUS
<1>2. PICK r : r = Between(head, s, head)
  OBVIOUS
<1>3. s \in Seq(Items) /\ Len(s) \in Nat /\ i \in 1 .. Len(s) /\ s[i] = other /\ head \in Heads
  BY <1>1, InLists, LenProperties DEF IsAt
<1>4. r[i] = other /\ links.next[other] = r[i + 1]
  <2>1. r[i] = s[i]
    BY <1>1, <1>2, <1>3, RingNeighbours DEF ListInv
  <2>2. links.next[s[i]] = r[i + 1]
    BY <1>1, <1>2, <1>3, RingNeighbours DEF ListInv
  <2> QED
    BY <1>3, <2>1, <2>2
<1>5. i \in 0 .. Len(s)
  BY <1>3
<1>6. links' = Inserted(links, self, r[i], r[i + 1]) /\ self \notin Linked
  BY <1>4 DEF InsertAfter
<1>7. /\ Contents' = [Contents EXCEPT ![head] = InsertAt(s, i + 1, self)]
      /\ ListInv'
  BY <1>1, <1>2, <1>3, <1>5, <1>6, InsertedStep
<1> QED
  BY <1>1, <1>7

LEMMA ReplaceStep ==
    ASSUME ListAssumption, ListInv, NEW self \in Items, NEW other \in Items,
           Replace(self, other), NEW head, NEW i, IsAt(self, head, i)
    PROVE  /\ Contents' = [Contents EXCEPT ![head] = Exchanged(Contents[head], i, other)]
           /\ ListInv'
<1>1. head \in Heads /\ i \in 1 .. Len(Contents[head]) /\ Contents[head][i] = self
  BY DEF IsAt
<1>2. \A g \in Heads : other \notin ToSet(Contents[g])
  BY InLists DEF Replace
<1>3. PICK t : t = Exchanged(Contents[head], i, other)
  OBVIOUS
<1>4. PICK m : m = links'
  OBVIOUS
<1>5. m = Inserted(links, other, links.prev[Contents[head][i]], links.next[Contents[head][i]])
  BY <1>1, <1>4 DEF Replace
<1>6. Rings(m, [Contents EXCEPT ![head] = t])
  BY <1>1, <1>2, <1>3, <1>5, RingReplace DEF ListInv
<1> QED
  BY <1>3, <1>4, <1>6, ListBecomes

LEMMA RemoveItemStep ==
    ASSUME ListAssumption, ListInv, NEW self \in Items,
           RemoveItem(self), NEW head, NEW i, IsAt(self, head, i)
    PROVE  /\ Contents' = [Contents EXCEPT ![head] = RemoveAt(Contents[head], i)]
           /\ ListInv'
<1>1. head \in Heads /\ i \in 1 .. Len(Contents[head]) /\ Contents[head][i] = self
  BY DEF IsAt
<1>2. PICK t : t = RemoveAt(Contents[head], i)
  OBVIOUS
<1>3. PICK m : m = links'
  OBVIOUS
<1>4. m = Removed(links, Contents[head][i])
  BY <1>1, <1>3 DEF RemoveItem
<1>5. Rings(m, [Contents EXCEPT ![head] = t])
  BY <1>1, <1>2, <1>4, RingRemove DEF ListInv
<1> QED
  BY <1>2, <1>3, <1>5, ListBecomes

LEMMA SortStepOf ==
    ASSUME ListAssumption, ListInv, NEW head \in Heads, Sort(head)
    PROVE  /\ \E t \in Seq(Items) :
                 /\ Contents' = [Contents EXCEPT ![head] = t]
                 /\ ToSet(t) = ToSet(Contents[head]) /\ IsInjective(t) /\ Ascending(t)
           /\ ListInv'
<1>1. PICK m : m = links'
  OBVIOUS
<1>2. m = Quicksort(links, <<"next", head>>, <<"prev", head>>)
  BY <1>1 DEF Sort
<1>3. PICK t \in Seq(Items) :
         /\ Rings(m, [Contents EXCEPT ![head] = t])
         /\ ToSet(t) = ToSet(Contents[head]) /\ IsInjective(t) /\ Ascending(t)
  BY <1>2, RingSort DEF ListInv
<1>4. Contents' = [Contents EXCEPT ![head] = t] /\ ListInv'
  BY <1>1, <1>3, ListBecomes
<1> QED
  BY <1>3, <1>4

LEMMA LinkedAt ==
    ASSUME ListAssumption, ListInv, NEW item \in Linked
    PROVE  \E head, i : IsAt(item, head, i)
BY InLists DEF IsAt

LEMMA ListStep ==
    ASSUME ListAssumption, ListInv, [ListNext]_links
    PROVE  ListInv'
<1>1. ASSUME NEW head \in Heads, Initialize(head) PROVE ListInv'
  BY <1>1, InitializeStep
<1>2. ASSUME NEW head \in Heads, Sort(head) PROVE ListInv'
  BY <1>2, SortStepOf
<1>3. ASSUME NEW head \in Heads, NEW item \in Items, InsertBack(head, item) PROVE ListInv'
  BY <1>3, InsertBackStep
<1>4. ASSUME NEW head \in Heads, NEW item \in Items, InsertFront(head, item) PROVE ListInv'
  BY <1>4, InsertFrontStep
<1>5. ASSUME NEW self \in Items, NEW other \in Items, InsertBefore(self, other)
      PROVE  ListInv'
  <2>1. other \in Linked
    BY <1>5 DEF InsertBefore
  <2>2. PICK head, i : IsAt(other, head, i)
    BY <2>1, LinkedAt
  <2> QED
    BY <1>5, <2>2, InsertBeforeStep
<1>6. ASSUME NEW self \in Items, NEW other \in Items, InsertAfter(self, other)
      PROVE  ListInv'
  <2>1. other \in Linked
    BY <1>6 DEF InsertAfter
  <2>2. PICK head, i : IsAt(other, head, i)
    BY <2>1, LinkedAt
  <2> QED
    BY <1>6, <2>2, InsertAfterStep
<1>7. ASSUME NEW self \in Items, NEW other \in Items, Replace(self, other)
      PROVE  ListInv'
  <2>1. self \in Linked
    BY <1>7 DEF Replace
  <2>2. PICK head, i : IsAt(self, head, i)
    BY <2>1, LinkedAt
  <2> QED
    BY <1>7, <2>2, ReplaceStep
<1>8. ASSUME NEW item \in Items, RemoveItem(item) PROVE ListInv'
  <2>1. item \in Linked
    BY <1>8 DEF RemoveItem
  <2>2. PICK head, i : IsAt(item, head, i)
    BY <2>1, LinkedAt
  <2> QED
    BY <1>8, <2>2, RemoveItemStep
<1>9. ASSUME UNCHANGED links PROVE ListInv'
  <2>1. Contents' = Contents
    BY <1>9 DEF Contents
  <2> QED
    BY <1>9, <2>1 DEF ListInv
<1> QED
  BY <1>1, <1>2, <1>3, <1>4, <1>5, <1>6, <1>7, <1>8, <1>9 DEF ListNext

LEMMA ListStart ==
    ASSUME ListAssumption, ListInit
    PROVE  ListInv /\ Contents = [head \in Heads |-> <<>>]
<1>1. PICK c : c = [head \in Heads |-> <<>>]
  OBVIOUS
<1>2. \A cell \in Cells : links.next[cell] = cell /\ links.prev[cell] = cell
  BY DEF ListInit
<1>3. links \in Links
  BY DEF ListInit, Links
<1>4. ASSUME NEW h \in Heads PROVE Part(h, <<>>, h) /\ Joined(links, h, <<>>, h)
  <2>1. PICK t : t = <<>>
    OBVIOUS
  <2>2. t \in Seq(Items) /\ Len(t) = 0 /\ ToSet(t) = {} /\ IsInjective(t)
    BY <2>1 DEF ToSet, IsInjective
  <2>3. Part(h, t, h)
    BY <2>2 DEF Part, Cells
  <2>4. PICK d : d = Between(h, t, h)
    OBVIOUS
  <2>5. d[0] = h /\ d[Len(t) + 1] = h
    BY <2>3, <2>4, PartCells
  <2>6. \A i \in 0 .. 0 : links.next[d[i]] = d[i + 1] /\ links.prev[d[i + 1]] = d[i]
    BY <1>2, <2>2, <2>5 DEF Cells
  <2>7. Joined(links, h, t, h)
    BY <2>2, <2>4, <2>6 DEF Joined, Chained
  <2> QED
    BY <2>1, <2>3, <2>7
<1>5. c \in [Heads -> Seq(Items)] /\ \A h \in Heads : c[h] = <<>> /\ ToSet(c[h]) = {}
  BY <1>1 DEF ToSet
<1>6. Rings(links, c)
  BY <1>3, <1>4, <1>5 DEF Rings
<1>7. Contents = c
  BY <1>6, ContentsAre, RingsLists
<1> QED
  BY <1>1, <1>6, <1>7 DEF ListInv

(* At any time every head has a list: the pointers of its items and its    *)
(* own make a ring, and no item is in two.                                 *)
THEOREM List_Inv == ListSpec => []ListInv
<1>1. ASSUME ListAssumption, ListInit PROVE ListInv
  BY <1>1, ListStart
<1>2. ASSUME ListAssumption, ListInv, [ListNext]_links PROVE ListInv'
  BY <1>2, ListStep
<1> QED
  BY <1>1, <1>2, ListAssumption, PTL DEF ListSpec

LEMMA InvRingsClosed ==
    ASSUME ListAssumption, ListInv
    PROVE  RingsClosed
<1>1. ASSUME NEW head \in Heads
      PROVE  /\ Walk(links.prev, head) = Reverse(Contents[head])
             /\ IsEmpty(head) <=> Contents[head] = <<>>
  <2>1. PICK s : s = Contents[head]
    OBVIOUS
  <2>2. Part(head, s, head) /\ Joined(links, head, s, head)
    BY <2>1, OneRing DEF ListInv
  <2>3. Walk(links.prev, head) = Reverse(s) /\ (links.prev[head] = head <=> s = <<>>)
    BY <2>2, RingWalks
  <2> QED
    BY <2>1, <2>3 DEF IsEmpty
<1> QED
  BY <1>1 DEF RingsClosed

(* The rings are closed both ways, whatever has been inserted, replaced,   *)
(* removed and sorted before.                                              *)
THEOREM List_RingsClosed == ListSpec => []RingsClosed
<1>1. ASSUME ListAssumption, ListInv PROVE RingsClosed
  BY <1>1, InvRingsClosed
<1> QED
  BY <1>1, ListAssumption, List_Inv, PTL

-----------------------------------------------------------------------------
(* A removed item still points to its old neighbours, and they are one and *)
(* the same only around a list of one.                                     *)
LEMMA RemovedNeighbours ==
    ASSUME ListAssumption, ListInv, NEW item \in Items, RemoveItem(item)
    PROVE  links'.prev[item] = links'.next[item]
              <=> \E head \in Heads : Contents[head] = <<item>>
<1>1. item \in Linked /\ links' = Removed(links, item)
  BY DEF RemoveItem
<1>2. PICK head, i : IsAt(item, head, i)
  BY <1>1, LinkedAt
<1>3. PICK s : s = Contents[head]
  OBVIOUS
<1>4. PICK r : r = Between(head, s, head)
  OBVIOUS
<1>5. /\ head \in Heads /\ i \in 1 .. Len(s) /\ s[i] = item /\ s \in Seq(Items)
      /\ Len(s) \in Nat /\ DOMAIN s = 1 .. Len(s)
  BY <1>2, <1>3, InLists, LenProperties DEF IsAt
<1>6. Part(head, s, head) /\ links \in Links
  BY <1>3, <1>5, OneRing DEF ListInv
<1>7. r[0] = head /\ r[Len(s) + 1] = head /\ Distinct(r, Len(s))
  BY <1>4, <1>6, PartCells
<1>8. r[i] = item
  <2>1. \A j \in 1 .. Len(s) : r[j] = s[j]
    BY <1>4, <1>6, PartCells
  <2> QED
    BY <1>5, <2>1
<1>9. links.prev[item] = r[i - 1] /\ links.next[item] = r[i + 1]
  <2>1. links.prev[s[i]] = r[i - 1]
    BY <1>3, <1>4, <1>5, RingNeighbours DEF ListInv
  <2>2. links.next[s[i]] = r[i + 1]
    BY <1>3, <1>4, <1>5, RingNeighbours DEF ListInv
  <2> QED
    BY <1>5, <2>1, <2>2
<1> DEFINE n == Len(s)
<1>10. /\ n \in Nat /\ i \in 1 .. n
       /\ r \in [0 .. n + 1 -> Cells]
       /\ \A j, k \in 0 .. n : r[j] = r[k] => j = k
       /\ \A j, k \in 1 .. n + 1 : r[j] = r[k] => j = k
  BY <1>5, <1>7 DEF Distinct
<1>11. r[0] = r[n + 1]
  BY <1>7
<1> HIDE DEF n
<1>12. r[i - 1] # r[i] /\ r[i + 1] # r[i]
  <2>1. i - 1 \in 0 .. n /\ i \in 0 .. n /\ i - 1 # i
    BY <1>10
  <2>2. i + 1 \in 1 .. n + 1 /\ i \in 1 .. n + 1 /\ i + 1 # i
    BY <1>10
  <2>3. r[i - 1] # r[i]
    BY <1>10, <2>1
  <2>4. r[i + 1] # r[i]
    BY <1>10, <2>2
  <2> QED
    BY <2>3, <2>4
<1>13. links'.prev[item] = r[i - 1] /\ links'.next[item] = r[i + 1]
  <2>1. PICK y, z : y = r[i - 1] /\ z = r[i + 1]
    OBVIOUS
  <2>2. links.prev[item] = y /\ links.next[item] = z /\ y # item /\ z # item
    BY <1>8, <1>9, <1>12, <2>1
  <2>3. /\ links'.prev = [links.prev EXCEPT ![z] = y]
        /\ links'.next = [links.next EXCEPT ![y] = z]
    BY <1>1, <2>2 DEF Removed
  <2>4. links.prev \in [Cells -> Cells] /\ links.next \in [Cells -> Cells] /\ item \in Cells
    BY <1>6 DEF Links, Cells
  <2>5. links'.prev[item] = y /\ links'.next[item] = z
    BY <2>2, <2>3, <2>4
  <2> QED
    BY <2>1, <2>5
<1>14. r[i - 1] = r[i + 1] <=> n = 1
  <2>1. CASE n = 1
    <3>1. i - 1 = 0 /\ i + 1 = n + 1
      BY <1>10, <2>1
    <3> QED
      BY <1>11, <2>1, <3>1
  <2>2. CASE n # 1
    <3>1. i + 1 \in 0 .. n \/ i - 1 \in 1 .. n + 1
      BY <1>10, <2>2
    <3>2. /\ i - 1 \in 0 .. n /\ i + 1 \in 1 .. n + 1 /\ i - 1 # i + 1
      BY <1>10
    <3>3. r[i - 1] # r[i + 1]
      BY <1>10, <3>1, <3>2
    <3> QED
      BY <2>2, <3>3
  <2> QED
    BY <2>1, <2>2
<1>15. n = 1 <=> \E h \in Heads : Contents[h] = <<item>>
  <2>1. ASSUME n = 1 PROVE \E h \in Heads : Contents[h] = <<item>>
    <3>1. i = 1
      BY <1>10, <2>1
    <3>2. <<item>> \in Seq(Items) /\ Len(<<item>>) = 1 /\ <<item>>[1] = item
      OBVIOUS
    <3>3. Len(s) = 1 /\ s[1] = item
      BY <1>5, <2>1, <3>1 DEF n
    <3>4. \A j \in 1 .. Len(s) : s[j] = <<item>>[j]
      BY <3>2, <3>3
    <3>5. s = <<item>>
      BY <1>5, <3>2, <3>3, <3>4, SeqEqual
    <3> QED
      BY <1>3, <1>5, <3>5
  <2>2. ASSUME NEW h \in Heads, Contents[h] = <<item>> PROVE n = 1
    <3>1. item \in ToSet(Contents[h])
      BY <2>2 DEF ToSet
    <3>2. item \in ToSet(s)
      BY <1>5 DEF ToSet
    <3>3. h = head
      BY <1>3, <1>5, <3>1, <3>2 DEF ListInv, Rings
    <3> QED
      BY <1>3, <2>2, <3>3 DEF n
  <2> QED
    BY <2>1, <2>2
<1> QED
  BY <1>13, <1>14, <1>15

(* Whoever has removed an item can tell from the item alone whether its    *)
(* list has become empty.                                                  *)
THEOREM List_NeighboursTellLast == ListSpec => NeighboursTellLast
<1>1. ASSUME ListAssumption, ListInv
      PROVE  \A item \in Items :
                RemoveItem(item) =>
                    (links'.prev[item] = links'.next[item]
                        <=> \E head \in Heads : Contents[head] = <<item>>)
  BY <1>1, RemovedNeighbours
<1> QED
  BY <1>1, ListAssumption, List_Inv, PTL DEF NeighboursTellLast

-----------------------------------------------------------------------------
(* The refinement.                                                         *)
LEMMA PlainListings == \A S : Plain!SetToSeqs(S) = SetToSeqs(S)
<1>1. ASSUME NEW S PROVE Plain!Cardinality(S) = Cardinality(S)
  BY DEF Plain!Cardinality, Cardinality
<1> QED
  BY <1>1 DEF SetToSeqs, Plain!SetToSeqs

LEMMA PlainLinked == Plain!Linked = Linked
<1>1. \A s : Plain!ToSet(s) = ToSet(s)
  BY DEF Plain!ToSet, ToSet
<1> QED
  BY <1>1 DEF Plain!Linked, Linked

LEMMA PlainStep ==
    ASSUME ListAssumption, ListInv, [ListNext]_links
    PROVE  [Plain!Next]_Contents
<1>1. ASSUME NEW head \in Heads, Initialize(head) PROVE Plain!Initialize(head)
  BY <1>1, InitializeStep DEF Plain!Initialize, Plain!Becomes
<1>2. ASSUME NEW head \in Heads, Sort(head) PROVE Plain!Sort(head)
  <2>1. PICK t \in Seq(Items) :
           /\ Contents' = [Contents EXCEPT ![head] = t]
           /\ ToSet(t) = ToSet(Contents[head]) /\ IsInjective(t) /\ Ascending(t)
    BY <1>2, SortStepOf
  <2>2. t \in SetToSeqs(ToSet(t))
    <3>1. t \in Seq(ToSet(t))
      BY LenProperties DEF ToSet
    <3> QED
      BY <2>1, <3>1, SetOfList
  <2>3. t \in Plain!SetToSeqs(Plain!ToSet(Contents[head]))
    <3>1. Plain!ToSet(Contents[head]) = ToSet(Contents[head])
      BY DEF Plain!ToSet, ToSet
    <3> QED
      BY <2>1, <2>2, <3>1, PlainListings
  <2>4. \A i, j \in DOMAIN t : i < j => Rank[t[i]] <= Rank[t[j]]
    BY <2>1 DEF Ascending
  <2>5. Plain!Becomes(head, t)
    BY <2>1 DEF Plain!Becomes
  <2> QED
    BY <2>3, <2>4, <2>5 DEF Plain!Sort
<1>3. ASSUME NEW head \in Heads, NEW item \in Items, InsertBack(head, item)
      PROVE  Plain!InsertBack(head, item)
  <2>1. item \notin Plain!Linked
    BY <1>3, PlainLinked DEF InsertBack
  <2>2. Contents' = [Contents EXCEPT ![head] = Append(Contents[head], item)]
    BY <1>3, InsertBackStep
  <2> QED
    BY <2>1, <2>2 DEF Plain!InsertBack, Plain!Becomes
<1>4. ASSUME NEW head \in Heads, NEW item \in Items, InsertFront(head, item)
      PROVE  Plain!InsertFront(head, item)
  <2>1. item \notin Plain!Linked
    BY <1>4, PlainLinked DEF InsertFront
  <2>2. Contents' = [Contents EXCEPT ![head] = <<item>> \o Contents[head]]
    BY <1>4, InsertFrontStep
  <2> QED
    BY <2>1, <2>2 DEF Plain!InsertFront, Plain!Becomes, Plain!Cons
<1>5. ASSUME NEW self \in Items, NEW other \in Items, InsertBefore(self, other)
      PROVE  Plain!InsertBefore(self, other)
  <2>1. other \in Linked /\ self \notin Plain!Linked
    BY <1>5, PlainLinked DEF InsertBefore
  <2>2. PICK head, i : IsAt(other, head, i)
    BY <2>1, LinkedAt
  <2>3. Contents' = [Contents EXCEPT ![head] = InsertAt(Contents[head], i, self)]
    BY <1>5, <2>2, InsertBeforeStep
  <2>4. head \in Heads /\ i \in DOMAIN Contents[head] /\ Contents[head][i] = other
    BY <2>2, InLists DEF IsAt
  <2>5. Plain!Becomes(head, Plain!InsertAt(Contents[head], i, self))
    BY <2>3 DEF Plain!Becomes, Plain!InsertAt, InsertAt
  <2> QED
    BY <2>1, <2>4, <2>5 DEF Plain!InsertBefore, Plain!InListOf
<1>6. ASSUME NEW self \in Items, NEW other \in Items, InsertAfter(self, other)
      PROVE  Plain!InsertAfter(self, other)
  <2>1. other \in Linked /\ self \notin Plain!Linked
    BY <1>6, PlainLinked DEF InsertAfter
  <2>2. PICK head, i : IsAt(other, head, i)
    BY <2>1, LinkedAt
  <2>3. Contents' = [Contents EXCEPT ![head] = InsertAt(Contents[head], i + 1, self)]
    BY <1>6, <2>2, InsertAfterStep
  <2>4. head \in Heads /\ i \in DOMAIN Contents[head] /\ Contents[head][i] = other
    BY <2>2, InLists DEF IsAt
  <2>5. Plain!Becomes(head, Plain!InsertAt(Contents[head], i + 1, self))
    BY <2>3 DEF Plain!Becomes, Plain!InsertAt, InsertAt
  <2> QED
    BY <2>1, <2>4, <2>5 DEF Plain!InsertAfter, Plain!InListOf
<1>7. ASSUME NEW self \in Items, NEW other \in Items, Replace(self, other)
      PROVE  Plain!Replace(self, other)
  <2>1. self \in Linked /\ other \notin Plain!Linked
    BY <1>7, PlainLinked DEF Replace
  <2>2. PICK head, i : IsAt(self, head, i)
    BY <2>1, LinkedAt
  <2>3. Contents' = [Contents EXCEPT ![head] = Exchanged(Contents[head], i, other)]
    BY <1>7, <2>2, ReplaceStep
  <2>4. head \in Heads /\ i \in DOMAIN Contents[head] /\ Contents[head][i] = self
    BY <2>2, InLists DEF IsAt
  <2>5. Plain!Becomes(head, [Contents[head] EXCEPT ![i] = other])
    BY <2>3 DEF Plain!Becomes, Exchanged
  <2> QED
    BY <2>1, <2>4, <2>5 DEF Plain!Replace, Plain!InListOf
<1>8. ASSUME NEW item \in Items, RemoveItem(item) PROVE Plain!RemoveItem(item)
  <2>1. item \in Linked
    BY <1>8 DEF RemoveItem
  <2>2. PICK head, i : IsAt(item, head, i)
    BY <2>1, LinkedAt
  <2>3. Contents' = [Contents EXCEPT ![head] = RemoveAt(Contents[head], i)]
    BY <1>8, <2>2, RemoveItemStep
  <2>4. head \in Heads /\ i \in DOMAIN Contents[head] /\ Contents[head][i] = item
    BY <2>2, InLists DEF IsAt
  <2>5. Plain!Becomes(head, Plain!RemoveAt(Contents[head], i))
    BY <2>3 DEF Plain!Becomes, Plain!RemoveAt, RemoveAt
  <2> QED
    BY <2>4, <2>5 DEF Plain!RemoveItem, Plain!InListOf
<1>9. ASSUME UNCHANGED links PROVE UNCHANGED Contents
  BY <1>9 DEF Contents
<1> QED
  BY <1>1, <1>2, <1>3, <1>4, <1>5, <1>6, <1>7, <1>8, <1>9 DEF ListNext, Plain!Next

(* What the functions do to the pointers is what their names say they do   *)
(* to a list; in particular List_Sort, which moves items about while it    *)
(* holds the addresses of its neighbours' pointers, leaves the same items, *)
(* in ascending order.                                                     *)
THEOREM List_Refines == ListSpec => ListsSpec
<1>1. ASSUME ListAssumption, ListInit PROVE Plain!Init
  BY <1>1, ListStart DEF Plain!Init
<1>2. ASSUME ListAssumption, ListInv, [ListNext]_links PROVE [Plain!Next]_Contents
  BY <1>2, PlainStep
<1> QED
  BY <1>1, <1>2, ListAssumption, List_Inv, PTL DEF ListSpec, ListsSpec, Plain!Spec
=============================================================================
