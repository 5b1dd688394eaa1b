------------------------------ MODULE IOPoller ------------------------------
(***************************************************************************)
(* The I/O poller (src/Source/IOPoller.c) with the calls it queues         *)
(* (src/Source/Async.c), as IO.c and ThreadPool.c use it.                  *)
(*                                                                         *)
(* A watch is a struct on the stack of the fiber that waits, linked into   *)
(* the event of its file descriptor.  Setting and clearing watches only    *)
(* notes in the event what epoll ought to be told, and links the event     *)
(* into the dirty list; the next tick tells epoll, and frees events nobody *)
(* watches.  epoll keeps a pointer to the event.                           *)
(***************************************************************************)
EXTENDS Integers, FiniteSets, SequencesExt

CONSTANTS FDs, Watches,
          Lasting,     \* watches whose callback leaves them set
          NotSet,      \* the target of a watch that is not in use
          MaxEvents    \* the events epoll_wait returns at most

Conditions == {"readable", "writable"}

ASSUME IOPollerAssumption ==
    /\ IsFiniteSet(FDs)
    /\ NotSet \notin FDs \X Conditions /\ Lasting \subseteq Watches
    /\ MaxEvents \in Nat \ {0}

VARIABLES
    target,            \* the descriptor and condition of every watch in use
    eventVector,       \* the descriptors that have an IOEvent
    flags,             \* event->flags: what epoll was told
    pendingFlags,      \* event->pendingFlags: what it ought to be told
    watchList,         \* event->watchListHeads
    dirtyEventList,    \* the events the next tick looks at
    interest,          \* in the kernel: what epoll watches each descriptor for
    ready,             \* in the kernel: what each open descriptor is ready for
    open,              \* the open descriptors
    phase,             \* of the loop: fibers, epoll_wait, or the queued calls
    calls              \* the watches whose callbacks are queued

eventVars == <<eventVector, flags, pendingFlags, watchList, dirtyEventList>>
kernelVars == <<interest, ready, open>>
vars == <<target, eventVars, kernelVars, phase, calls>>

Unwatched == [condition \in Conditions |-> <<>>]

-----------------------------------------------------------------------------
Init ==
    /\ target = [watch \in Watches |-> NotSet]
    /\ eventVector = {}
    /\ flags = [fd \in FDs |-> {}] /\ pendingFlags = [fd \in FDs |-> {}]
    /\ watchList = [fd \in FDs |-> Unwatched]
    /\ dirtyEventList = <<>>
    /\ interest = [fd \in FDs |-> {}] /\ ready = [fd \in FDs |-> {}]
    /\ open = {}
    /\ phase = "fibers"
    /\ calls = <<>>

(* Mutant: the event is linked into the dirty list again.                  *)
MarkDirtyAgain(fd) == dirtyEventList' = Append(dirtyEventList, fd)

(* if (List_IsEmpty(&event->listItem)) List_InsertBack(dirty list, event)  *)
MarkDirty(fd) ==
    dirtyEventList' = IF fd \in ToSet(dirtyEventList)
                      THEN dirtyEventList ELSE Append(dirtyEventList, fd)

(* A fiber is about to wait for an open descriptor.  A new event, and it   *)
(* alone, starts from nothing.                                             *)
SetWatch(watch, fd, condition) ==
    /\ phase = "fibers"
    /\ target[watch] = NotSet /\ fd \in open
    /\ target' = [target EXCEPT ![watch] = <<fd, condition>>]
    /\ LET old == fd \in eventVector
           pending == IF old THEN pendingFlags[fd] ELSE {}
           lists == IF old THEN watchList[fd] ELSE Unwatched
       IN /\ eventVector' = eventVector \cup {fd}
          /\ flags' = [flags EXCEPT ![fd] = IF old THEN @ ELSE {}]
          /\ pendingFlags' = [pendingFlags EXCEPT ![fd] = pending \cup {condition}]
          /\ watchList' = [watchList EXCEPT
                ![fd] = [lists EXCEPT ![condition] = Append(@, watch)]]
          /\ IF condition \in pending THEN UNCHANGED dirtyEventList
                                      ELSE MarkDirty(fd)
    /\ UNCHANGED <<kernelVars, phase, calls>>

(* Mutants: the condition is dropped although others wait for it; the      *)
(* watch and not its event is linked into the dirty list.                  *)
ClearWatchOfOthers(watch) ==
    /\ target[watch] # NotSet
    /\ target' = [target EXCEPT ![watch] = NotSet]
    /\ LET fd == target[watch][1]
           condition == target[watch][2]
       IN /\ watchList' = [watchList EXCEPT
                ![fd][condition] = RemoveFirst(@, watch)]
          /\ pendingFlags' = [pendingFlags EXCEPT ![fd] = @ \ {condition}]
          /\ MarkDirty(fd)
    /\ UNCHANGED <<eventVector, flags, kernelVars>>

ClearWatchDirtied(watch) ==
    /\ target[watch] # NotSet
    /\ target' = [target EXCEPT ![watch] = NotSet]
    /\ watchList' = [watchList EXCEPT
          ![target[watch][1]][target[watch][2]] = RemoveFirst(@, watch)]
    /\ MarkDirty(watch)
    /\ UNCHANGED <<eventVector, flags, pendingFlags, kernelVars>>

(* The last watch for a condition takes the condition with it.             *)
ClearWatch(watch) ==
    /\ target[watch] # NotSet
    /\ target' = [target EXCEPT ![watch] = NotSet]
    /\ LET fd == target[watch][1]
           condition == target[watch][2]
           rest == RemoveFirst(watchList[fd][condition], watch)
       IN /\ watchList' = [watchList EXCEPT ![fd][condition] = rest]
          /\ \/ /\ rest = <<>>
                /\ pendingFlags' = [pendingFlags EXCEPT ![fd] = @ \ {condition}]
                /\ MarkDirty(fd)
             \/ /\ rest # <<>>
                /\ UNCHANGED <<pendingFlags, dirtyEventList>>
    /\ UNCHANGED <<eventVector, flags, kernelVars>>

(* WaitForFD takes its watch back when no timeout can be set.              *)
GiveUpWatch(watch) == phase = "fibers" /\ ClearWatch(watch) /\ UNCHANGED <<phase, calls>>

(* Mutant: the event does not learn that epoll has been told.              *)
ClearWatchesUntold(fd) ==
    /\ target' = [watch \in Watches |->
          IF target[watch] # NotSet /\ target[watch][1] = fd
          THEN NotSet ELSE target[watch]]
    /\ \/ /\ fd \in eventVector
          /\ watchList' = [watchList EXCEPT ![fd] = Unwatched]
          /\ pendingFlags' = [pendingFlags EXCEPT ![fd] = {}]
          /\ MarkDirty(fd)
          /\ interest' = [interest EXCEPT ![fd] = {}]
       \/ /\ fd \notin eventVector
          /\ UNCHANGED <<watchList, pendingFlags, dirtyEventList, interest>>
    /\ UNCHANGED <<eventVector, flags>>

(* Close: the event forgets its watches and epoll the descriptor.  Whoever *)
(* waits is not told; such a watch is never heard of again.                *)
ClearWatches(fd) ==
    /\ target' = [watch \in Watches |->
          IF target[watch] # NotSet /\ target[watch][1] = fd
          THEN NotSet ELSE target[watch]]
    /\ \/ /\ fd \in eventVector
          /\ watchList' = [watchList EXCEPT ![fd] = Unwatched]
          /\ pendingFlags' = [pendingFlags EXCEPT ![fd] = {}]
          /\ MarkDirty(fd)
          /\ interest' = IF flags[fd] = {} THEN interest
                                           ELSE [interest EXCEPT ![fd] = {}]
          /\ flags' = [flags EXCEPT ![fd] = {}]
       \/ /\ fd \notin eventVector
          /\ UNCHANGED <<watchList, pendingFlags, dirtyEventList, interest, flags>>
    /\ UNCHANGED eventVector

Close(fd) ==
    /\ phase = "fibers"
    /\ fd \in open
    /\ ClearWatches(fd)
    /\ open' = open \ {fd}
    /\ ready' = [ready EXCEPT ![fd] = {}]
    /\ UNCHANGED <<phase, calls>>

(* A fiber opens a descriptor; the kernel hands out a closed one again.    *)
Open(fd) ==
    /\ phase = "fibers"
    /\ fd \notin open
    /\ open' = open \cup {fd}
    /\ UNCHANGED <<target, eventVars, interest, ready, phase, calls>>

-----------------------------------------------------------------------------
(* IOPoller_Tick up to epoll_wait: every dirty event is brought up to date *)
(* and freed if it ends up without flags.                                  *)
TellEpoll ==
    /\ phase = "fibers"
    /\ LET dirty == ToSet(dirtyEventList)
           unused == {fd \in dirty : pendingFlags[fd] = {}}
           stale == {fd \in dirty : flags[fd] # pendingFlags[fd]}
       IN /\ interest' = [fd \in FDs |->
                IF fd \in stale THEN pendingFlags[fd] ELSE interest[fd]]
          /\ flags' = [fd \in FDs |->
                IF fd \in stale THEN pendingFlags[fd] ELSE flags[fd]]
          /\ eventVector' = eventVector \ unused
    /\ dirtyEventList' = <<>>
    /\ phase' = "epoll"
    /\ UNCHANGED <<target, pendingFlags, watchList, ready, open, calls>>

(* epoll_wait was interrupted; the loop ticks again.                       *)
Interrupted ==
    /\ phase = "epoll"
    /\ phase' = "fibers"
    /\ UNCHANGED <<target, eventVars, kernelVars, calls>>

ReadyFDs == {fd \in FDs : ready[fd] \cap interest[fd] # {}}

(* The descriptors epoll_wait returns with: those that are ready for       *)
(* something they are watched for, all of them if the array of events      *)
(* holds them and as many as it holds if not; none when the wait time is   *)
(* over.                                                                   *)
Returned(fds) ==
    /\ fds \subseteq ReadyFDs /\ Cardinality(fds) <= MaxEvents
    /\ fds # ReadyFDs => Cardinality(fds) = MaxEvents

(* The callbacks of the watches of each descriptor are queued, in whatever *)
(* order epoll has the descriptors.  An error or a hangup counts as both   *)
(* conditions.                                                             *)
CallsOf(fds) ==
    LET listOf(fd, condition) ==
            IF condition \in ready[fd] THEN watchList[fd][condition] ELSE <<>>
    IN FlattenSeq([i \in DOMAIN fds |->
           listOf(fds[i], "readable") \o listOf(fds[i], "writable")])

QueueCalls ==
    /\ phase = "epoll"
    /\ \E some \in SUBSET ReadyFDs :
          /\ Returned(some)
          /\ \E fds \in SetToSeqs(some) : calls' = CallsOf(fds)
    /\ phase' = "calls"
    /\ UNCHANGED <<target, eventVars, kernelVars>>

(* Mutant: a call stays queued when it has been made.                      *)
DispatchCallAgain ==
    /\ phase = "calls" /\ calls # <<>>
    /\ IF Head(calls) \in Lasting THEN UNCHANGED <<target, eventVars, kernelVars>>
                                  ELSE ClearWatch(Head(calls))
    /\ UNCHANGED <<phase, calls>>

(* Async_DispatchCalls: the callback of a wait clears its watch first.     *)
DispatchCall ==
    /\ phase = "calls" /\ calls # <<>>
    /\ calls' = Tail(calls)
    /\ IF Head(calls) \in Lasting THEN UNCHANGED <<target, eventVars, kernelVars>>
                                  ELSE ClearWatch(Head(calls))
    /\ UNCHANGED phase

(* Back to the fibers.                                                     *)
EndRound ==
    /\ phase = "calls" /\ calls = <<>>
    /\ phase' = "fibers"
    /\ UNCHANGED <<target, eventVars, kernelVars, calls>>

(* The world makes an open descriptor ready, or not ready.                 *)
ReadinessChanges ==
    /\ \E fd \in open, conditions \in SUBSET Conditions :
          ready' = [ready EXCEPT ![fd] = conditions]
    /\ UNCHANGED <<target, eventVars, interest, open, phase, calls>>

Next ==
    \/ \E watch \in Watches :
          \/ GiveUpWatch(watch)
          \/ \E fd \in FDs, condition \in Conditions : SetWatch(watch, fd, condition)
    \/ \E fd \in FDs : Close(fd) \/ Open(fd)
    \/ TellEpoll \/ Interrupted \/ QueueCalls \/ DispatchCall \/ EndRound
    \/ ReadinessChanges

Spec == Init /\ [][Next]_vars

-----------------------------------------------------------------------------
(* Type correctness of the poller.                                         *)
IOPollerTypeOK ==
    /\ target \in [Watches -> (FDs \X Conditions) \cup {NotSet}]
    /\ eventVector \subseteq FDs /\ open \subseteq FDs
    /\ {flags, pendingFlags, interest, ready} \subseteq [FDs -> SUBSET Conditions]
    /\ watchList \in [FDs -> [Conditions -> Seq(Watches)]]
    /\ dirtyEventList \in Seq(FDs)
    /\ phase \in {"fibers", "epoll", "calls"}
    /\ calls \in Seq(Watches)

(* While the loop waits, epoll watches each descriptor for exactly what    *)
(* some watch waits for: no wait is deaf, and no condition without a waiter*)
(* makes the loop spin.  And only descriptors with an event are left in    *)
(* epoll, whose pointers to freed events would dangle.                     *)
EpollKnowsTheWatches ==
    phase = "epoll" =>
        \A fd \in FDs :
            /\ interest[fd] = {condition \in Conditions :
                    \E watch \in Watches : target[watch] = <<fd, condition>>}
            /\ interest[fd] # {} => fd \in eventVector /\ fd \in open

(* epoll_ctl never fails, which would be fatal: what the poller believes   *)
(* it told epoll is what epoll knows, so it never adds what is there nor   *)
(* changes or deletes what is not; and it only speaks of open descriptors. *)
EpollAgrees ==
    /\ \A fd \in FDs : interest[fd] = (IF fd \in eventVector THEN flags[fd] ELSE {})
    /\ \A fd \in eventVector \ open : flags[fd] = {} /\ pendingFlags[fd] = {}

(* A change is never forgotten: an event that epoll has to be told about,  *)
(* or that is to be freed, is on the dirty list, once; and every list it   *)
(* refers to exists.                                                       *)
DirtyWhenChanged ==
    /\ IsInjective(dirtyEventList)
    /\ ToSet(dirtyEventList) \subseteq eventVector
    /\ \A fd \in eventVector :
          flags[fd] # pendingFlags[fd] \/ pendingFlags[fd] = {}
              => fd \in ToSet(dirtyEventList)

(* To the fibers the poller is a watch service, whatever the order in      *)
(* which watches are set and cleared and descriptors closed and handed out *)
(* again between two ticks: a tick queues the watches that are due of      *)
(* every descriptor, or of as many descriptors as epoll_wait returns at    *)
(* most, no other watch and none twice; and a queued callback's watch is   *)
(* still set when its turn comes, whose struct would be gone with its      *)
(* stack frame.                                                            *)
Abstract == INSTANCE WatchService

WatchServiceSpec == Abstract!Spec
=============================================================================
