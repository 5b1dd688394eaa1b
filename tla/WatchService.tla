---------------------------- MODULE WatchService ----------------------------
(***************************************************************************)
(* What the I/O poller promises, without events, flags and epoll: a tick   *)
(* queues the callback of every watch whose descriptor is ready for what   *)
(* it was set for, of no other watch, and of none twice.  If that is so of *)
(* more than MaxEvents descriptors it is done for that many of them, and   *)
(* for all watches of those.  Between a tick and the callbacks nothing is  *)
(* set or closed.                                                          *)
(***************************************************************************)
EXTENDS Integers, FiniteSets, SequencesExt

CONSTANTS FDs, Watches,
          Lasting,     \* watches whose callback leaves them set
          NotSet,      \* the target of a watch that is not in use
          MaxEvents    \* the descriptors a tick looks at, at most

Conditions == {"readable", "writable"}

VARIABLES target,      \* the descriptor and condition of every watch in use
          ready,       \* what each open descriptor is ready for
          open,        \* the open descriptors
          calls        \* the watches whose callbacks are queued

vars == <<target, ready, open, calls>>

Init ==
    /\ target = [watch \in Watches |-> NotSet]
    /\ ready = [fd \in FDs |-> {}]
    /\ open = {}
    /\ calls = <<>>

SetWatch(watch, fd, condition) ==
    /\ calls = <<>>
    /\ target[watch] = NotSet /\ fd \in open
    /\ target' = [target EXCEPT ![watch] = <<fd, condition>>]
    /\ UNCHANGED <<ready, open, calls>>

ClearWatch(watch) ==
    /\ target[watch] # NotSet
    /\ target' = [target EXCEPT ![watch] = NotSet]
    /\ UNCHANGED <<ready, open, calls>>

WatchesOf(fd) ==
    {watch \in Watches : target[watch] # NotSet /\ target[watch][1] = fd}

(* The watches of a descriptor that is closed are forgotten.               *)
Close(fd) ==
    /\ calls = <<>>
    /\ fd \in open
    /\ target' = [watch \in Watches |->
                     IF watch \in WatchesOf(fd) THEN NotSet ELSE target[watch]]
    /\ open' = open \ {fd}
    /\ ready' = [ready EXCEPT ![fd] = {}]
    /\ UNCHANGED calls

Open(fd) ==
    /\ calls = <<>>
    /\ fd \notin open
    /\ open' = open \cup {fd}
    /\ UNCHANGED <<target, ready, calls>>

Due == {watch \in Watches :
          target[watch] # NotSet /\ target[watch][2] \in ready[target[watch][1]]}

DueAt(fds) == {watch \in Due : target[watch][1] \in fds}

DueFDs == {target[watch][1] : watch \in Due}

Poll ==
    /\ calls = <<>>
    /\ \E fds \in SUBSET DueFDs :
          /\ Cardinality(fds) <= MaxEvents
          /\ fds # DueFDs => Cardinality(fds) = MaxEvents
          /\ calls' \in SetToSeqs(DueAt(fds))
    /\ UNCHANGED <<target, ready, open>>

Dispatch ==
    /\ calls # <<>>
    /\ calls' = Tail(calls)
    /\ target' = IF Head(calls) \in Lasting THEN target
                 ELSE [target EXCEPT ![Head(calls)] = NotSet]
    /\ UNCHANGED <<ready, open>>

ReadinessChanges(fd) ==
    /\ fd \in open
    /\ \E conditions \in SUBSET Conditions :
          ready' = [ready EXCEPT ![fd] = conditions]
    /\ UNCHANGED <<target, open, calls>>

Next ==
    \/ \E watch \in Watches :
          \/ calls = <<>> /\ ClearWatch(watch)
          \/ \E fd \in FDs, condition \in Conditions : SetWatch(watch, fd, condition)
    \/ \E fd \in FDs : Close(fd) \/ Open(fd) \/ ReadinessChanges(fd)
    \/ Poll \/ Dispatch

Spec == Init /\ [][Next]_vars
=============================================================================
