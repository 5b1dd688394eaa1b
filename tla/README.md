# A verification of Pixy

Pixy is a small C library of cooperative fibers: one thread runs all fibers and
an event loop, blocking calls suspend the calling fiber, and two worker threads
take over what cannot be waited for otherwise (name resolution). This directory
holds TLA+ models of its components, the TLC configurations that check them,
and proofs checked by TLAPS. Line numbers refer to `src/Source` unless said
otherwise.

## Inventory

| component | state | operations | made correct by |
|---|---|---|---|
| Scheduler (`Scheduler.c`) | active fiber, ready list, dead list, fiber count; per fiber one list item and a pointer to its saved context | AddFiber, AddAndRunFiber, Yield, Suspend, Resume, Unresume, Exit, Tick | a fiber is in one place; a switch lands in a live frame; the count is right; ready fibers run |
| Semaphore (`Semaphore.c`) | value between two bounds, a waiter list per direction | Initialize, Down, Up | value in bounds; wakeups neither lost nor doubled; first come first served |
| Event (`Event.c`) | a waiter list | WaitFor, Trigger | only blocked fibers resumed, each once; waiters reached |
| Event loop (`Runtime.c`) | the four global objects, the queue of calls | main, Loop, the fiber calls, SleepCurrentFiber | order of tick, wait, I/O callbacks, timeouts; ends when and only when no fiber is left |
| Async (`Async.c`) | queue of callbacks | AddCall, DispatchCalls | each call made once, for something that still exists |
| I/O poller (`IOPoller.c`) | one event per watched descriptor, watches linked into it, dirty list; epoll's own interest list | SetWatch, ClearWatch, ClearWatches, Tick | epoll watches exactly what is waited for; no freed event or watch is used |
| Timer (`Timer.c`) | heap of timeouts | SetTimeout, ClearTimeout, CalculateWaitTime, Tick | due timeouts fire, once, in order; the loop does not oversleep |
| Heap (`Heap.c`) | slots, slot numbers in the nodes | Insert, Adjust, Remove, ShrinkToFit | heap order; slot numbers current |
| Thread pool (`ThreadPool.c`) | work list under a mutex and a condition variable, pipe, workers, stop signal | Start, Stop, PostWork, the worker's loop, WorkerCallback | each work done and delivered once; no worker sleeps beside work; stopping ends |
| Blocking I/O (`IO.c`) | contexts on the stacks of waiting fibers | the wrappers of read, write, ..., Close, GetAddrInfo, GetNameInfo; WaitForFD and its three callbacks; DoWork | the fiber is resumed exactly once, by I/O or by its timeout |
| Memory pool (`MemoryPool.c`) | chunks on two lists, linked free slots | AllocateBlock, FreeBlock, ShrinkToFit | a block has one owner; shrinking finds every free chunk |
| Vector, List (`Vector.c`, `List.c`, `List.h`) | arrays that grow by powers of two; intrusive lists | SetLength, Expand; insertion, removal, Sort | sizes suffice; linked items form one ring |

How they interact. A fiber calls semaphore, event, timer, poller or pool and
suspends itself in the scheduler. It is resumed by another fiber (Semaphore,
Event) or by a callback of the loop (timeout, watch, finished work). Because one
thread runs fibers and loop, a call is atomic up to the point where it gives the
processor away; interleaving is between fibers at those points, between the
rounds of the loop, and, for the thread pool only, between threads. Waiter
records, watches, timeouts and works are structs on the stacks of suspended
fibers, so resuming a fiber while one is still linked, or twice, corrupts
memory; nothing in the code checks for it. `PROJECT.json` lists the hazards line
by line under "hazards".

## Modules

| module | models | notes |
|---|---|---|
| `Scheduler` | Scheduler.c | one action per call |
| `Semaphore` | Semaphore.c on `Scheduler` (EXTENDS) | implements `BoundedSemaphore` |
| `BoundedSemaphore` | what a semaphore promises | abstract, without scheduler |
| `Event` | Event.c on `Scheduler` (EXTENDS) | |
| `ThreadPool` | ThreadPool.c, DoWork of IO.c, the end of main | implements `WorkService` |
| `WorkService` | what the pool promises | abstract, without threads |
| `IO` | the waiting calls of IO.c, Runtime.c, on `Scheduler` (EXTENDS) | composes scheduler, poller, timer and pool |
| `WatchService` | what the poller promises | abstract; used by `IO`, implemented by `IOPoller` |
| `TimeoutService` | what the timer promises | abstract; used by `IO`, implemented by `Timer` |
| `Loops` | a loop of the code | the body applied to the loop's variables as often as the loop can go round |
| `Vector` | Vector_SetLength | arithmetic on words, as sets of bits |
| `Heap` | Heap.c on `Vector` (EXTENDS) | the two sifting loops by `Loops` |
| `Timer` | Timer.c on `Heap` (EXTENDS), its place in Loop | implements `TimeoutService` |
| `IOPoller` | IOPoller.c, Async.c, Close of IO.c, epoll | epoll is the external part; implements `WatchService` |
| `List` | List.h, List.c | pointers; implements `Lists` |
| `Lists` | what the lists promise | abstract; sequences, as in all other modules |
| `MemoryPool` | MemoryPool.c | |
| `ListTheorems` | lemmas about sequences | cited by all proofs |
| `SchedulerProofs`, `SemaphoreProofs`, `EventProofs`, `IOProofs`, `ThreadPoolProofs`, `IOPollerProofs`, `TimerProofs` | proofs | extending the modules they are about: `IOPollerProofs` the poller, the memory pool its events come from and the lists they are all linked into, `TimerProofs` the timer and its heap |
| `MC*` | values for the constants | |

**Scheduler.** The variables are the fields of `struct Scheduler`, plus two facts
that decide whether the C program is defined: which regions are allocated, and,
per fiber, whether `context` is NULL ("start"), points to the `jmp_buf` of a call
still in progress ("saved"), or to a frame that has been left ("stale"). Lists
are sequences, front first: InsertBack is Append, InsertFront is Cons, removal of
the front Head and Tail. A switch makes the target's context stale, for the frame
is left as soon as the call returns. Going back to the loop frees the dead list
in the same step (221-233), since nothing can come between `longjmp` and the loop
over it. Resume and Unresume have the guard of their assertion only; that their
argument is a suspended, or a resumed, fiber is a duty of the callers, which
SchedulerNext assumes and the modules of the callers are checked for: they apply
the raw calls and check FiberInOnePlace.

**Semaphore.** Down has three actions: it finds the value at the bound and waits,
it takes, or it continues after having been resumed (DownWoken, 59-78). Since the
caller suspends in the middle, the first and the last are separate steps, and
other fibers run between them. UnresumeFront on a fiber that is not ready would
corrupt the list in C and is a no-op here; WakeupsMatchValue says that it does
not occur. OtherCalls and OtherResume are everything else fibers do, such as
sleeping or I/O, so that ready, suspended and dead fibers that have nothing to do
with the semaphore are in the lists too.

**Event.** WaitFor is one step, for it does nothing after the suspension. Trigger
on an empty list changes nothing.

**ThreadPool.** A work is named by the fiber whose stack it lies on. A critical
section is one step: nothing blocks inside it but `pthread_cond_wait`, where the
worker is in state "waiting". Signalling picks any waiting worker, and a waiting
worker may wake by itself. StopSignal is the list item of that name. The main
thread posts, receives batches, ends the loop when no fiber is left
(Runtime.c:136), inserts the stop signal, joins, and takes the signal off.

**IO.** The composition: fibers that make calls, and the loop. A wait's watch and
timeout lie on the stack of the waiting fiber, so they are named by it; `call`
says which call a fiber is in, for it tries again when it is resumed (BeginCall,
WaitAgain, ReturnFromCall are the passes of the loops in Read, Write and so on;
Connect waits once). The phases are the statements of Loop: LoopTick, LoopPoll,
DispatchIO for each call the poller queued, TimerTick, DispatchTimeout for each
call the timer queued. WatchService and TimeoutService are instantiated, and their
actions are conjuncts of IO's: IO is checked with what the poller and the timer
promise, and IOPoller and Timer are checked to keep the promises. The pool is
two sets, of works that are posted and of works that are done; its pipe is a
descriptor with a watch that stays set. `finished` works leave in any batches, as
ThreadPool allows. What a callback does is undefined when it takes the wrong words
of a stack frame for its record (WaitForFDCallback3, below); the phase is then
"faulted" and nothing goes on. A call that needs no wait, or cannot get the memory
to wait, changes nothing and takes no step.

**Vector, Heap, Timer.** The slots are a sequence; of the segments they are stored in there
are the numbers the code keeps (numberOfSegments, numberOfSlots, and the size and length of
the vector of pointers), for it is those that decide whether a slot exists. SiftUpOnce and
SiftDownOnce are the bodies of the two sifting loops and change nothing when the loop has
ended; SiftNodeUp and SiftNodeDown repeat them as often as a node can be moved (a slot
number less, or more, each time). FireTop is the body of the loop of Timer_Tick in the same
way, and NextPowerOfTwo's loop is Smear, on the set of the bits that are set; Bits and
Number translate between a word and that set by shifting. An allocation fails at any time.
`key` holds the due time of the inserted nodes. Timer splits a round of the loop where time
passes: fibers run and set timeouts ("run"), the loop waits at most CalculateWaitTime, I/O
callbacks clear timeouts ("dispatch"), Timer_Tick fires what is due. UINT64_MAX is Never,
one more than any time.

**IOPoller.** `interest` is what the kernel knows, `flags` what the poller
believes it knows, `pendingFlags` what it ought to know. An event that is freed
leaves eventVector. A round is: fibers set and take back watches, open and close
descriptors; TellEpoll works the dirty list off; epoll_wait is interrupted or
returns ready descriptors, whose callbacks are queued; they are made one by one. At most
MaxEvents descriptors are returned, the length of `evs` (8192, 212-213): all that are ready
if they fit, else as many as fit, any of them (Returned). WatchService promises no more: the
due watches of a descriptor are called all or not at all, and none is passed over while
there is room (DueAt). The watch of the thread pool stays set when its callback has run
(Lasting).

**List.** Every cell has a `prev` and a `next`. The functions write pointers and
look at nothing else; which items are linked is known to the callers, whose duty
it is in `List` as well (guards with Linked). What an item that was removed
points to is kept, since IOPoller_ClearWatch looks at it. List_Quicksort gets the
addresses of two pointer fields, which are pairs of a direction and a cell. It is a
function of the nesting depth, since a call sorts parts that are shorter than its own and
calls nest no deeper than there are items; PartItem is the body of its loop.

**MemoryPool.** Free slots are the sequence in which they are linked, the next one
first. A slot is a number, counted from the end of the chunk, where MemoryPool_IncreaseChunks
starts; Offset is where the block begins. LinkNext is the body of its loop, with the test
that the next block does not begin in the header (170), and LinkedSlots the whole loop. A new
chunk is put on the (empty) usable list by the step that takes a block from it.

## What is checked

All runs finish within a minute or so; each explores its whole state space, but for
iopoller, which explores what is reached with at most two events dirty at a time (FewDirty).

| run | bounds | shows |
|---|---|---|
| scheduler | 4 regions | FiberInOnePlace, ContextValid, CountMatches; ReadyRuns |
| semaphore | 4 regions; bounds (0,0), (0,1), (-1,1), any initial value | ValueInBounds, WakeupsMatchValue, WaitersBlocked; implements BoundedSemaphore with its liveness |
| event | 4 regions | WaitersSuspended; TriggeredWaiterRuns |
| threadpool | 4 fibers, 2 workers, pipe and batch of 2 | WorkInOnePlace, NoSleepBesideWork, StopFindsNoWork; StopCompletes; implements WorkService with its liveness |
| io | 3 fibers, 2 descriptors, 2 events per wait | RecordsOfBlockedFibers, FiberInOnePlace, CallbacksDefined, LoopEndsClean; OnlyCloseForgets (steps) |
| io_liveness | 2 fibers, 1 descriptor and the pool's pipe, 1 event per wait | WaitsEnd |
| io_timed_wait | 2 fibers, 1 descriptor, 2 events per wait | TimedWaitReturns is violated, see below |
| heap | 6 nodes, 3 keys, segments of 2 slots, words of 7 bits | HeapOrdered, SlotNumbersRight, SlotsExist |
| timer | 3 timeouts, times 0..3, delays -1..2 | TickFiresWhatIsDue, WaitEndsInTime (steps); implements TimeoutService with its liveness |
| iopoller | 3 descriptors, 3 watches, one of them lasting, 2 events per wait, 2 dirty events | EpollKnowsTheWatches, EpollAgrees, DirtyWhenChanged; implements WatchService |
| list | 2 lists, 5 items, 2 of them equal in the order | RingsClosed; implements Lists; NeighboursTellLast (steps) |
| memorypool | 3 chunks of 9 bytes, headers and blocks of 2, so 3 slots and a byte to spare | SlotsAccountedFor, ChunkOnRightList; ShrinkLeavesNoFreeChunk (steps) |

threadpool, timer and iopoller check the module's type invariant, too. All type invariants
are proved.

Why the bounds are enough to be of interest. Four fibers allow two waiters on one side of a
semaphore, a third that was woken and a fourth that barges in; exited fibers' regions are
reused, so histories are not bounded. The semaphore's bounds cover one that can never move,
a binary and a counting one, and a minimum that is not zero. Two workers are what is
compiled in (ThreadPool.h:18); a pipe of two instead of 8192 makes it full while both
workers hold works. Six nodes are the fewest with which removal has to sift up; they fill
three segments, whose pointers a vector of four holds. Words of seven bits are wider than
the sizes that occur, and for all of them the rounding of sizes is compared with the power
of two it is meant to find (RoundingAssumption, which is also proved). In io two fibers wait
for the same, a third closes the descriptor, or a sleeper, a worker and a waiter meet in one
round; liveness is per fiber, so one and another that uses the processor are enough for
WaitsEnd. Five items are enough for List_Sort to have parts on both sides of a pivot that
are sorted again. Two watches on one condition, both conditions of one descriptor, reuse
of a number between two ticks, and three ready descriptors where two fit need the sizes of
iopoller; two dirty events are enough for one to be freed beside another. In io_liveness one
event per wait makes the pipe and the descriptor compete for it.

Symmetry is used for nodes, chunks, in io for fibers and descriptors, and in iopoller for
descriptors and the watches of fibers; no run with symmetry checks liveness. The view of list
drops the pointers of items that are not linked, which nothing reads before they are written.

Deadlock is not checked in scheduler, semaphore, event, threadpool and the three io
runs: these programs end, or all their fibers wait.

Every property has a mutant: an operator, marked as such in the module, that
changes one definition the way a plausible bug would, with which TLC finds the
property violated.

### Timed waits

WaitForFDCallback3 (IO.c:456-471) is called when the timeout of a wait expires. It
declares the record it is given with the fiber first, WaitForFD (392-398) has it
behind the watch and the timeout. So the callback takes the second list pointer
and the condition of the watch for its two list pointers, writes through them, and
would resume the first list pointer as a fiber. `IO` has both layouts
(WaitContext, Callback3Context), and WaitForFDCallback3 only does what it is meant
to do if it finds the words it looks for. The run io_timed_wait shows that
TimedWaitReturns, "a wait that times out returns", which the `timeout` of all calls
in IO.h and the test of `context.ok` in WaitForFD (415-418) are about, does not
hold. The other properties of IO are stated such that they hold up to the fault.
With the layout of WaitForFD in the callback all of them hold, TimedWaitReturns
included; the loop, the poller and the timer are then right about waits with
timeouts, as long as their descriptor is not closed under them: the callback would
still clear a watch that Close has made the event forget (IO.c:315), for which the
guard of ClearWatch then leaves no step.

### Closed descriptors

Close forgets the watches of a descriptor (IOPoller_ClearWatches) and does not
resume who waits. OnlyCloseForgets says that this, and nothing the loop does, takes
a record away from a fiber without resuming it. It makes an exception of Close, so no
property covers what Close does to the waiters: a fiber that waits without timeout for a
descriptor that another one closes waits for ever, and one that waits with a timeout is
called back into WaitForFDCallback3, which faults before it comes to clear the watch that
was forgotten. No comment or test promises otherwise.

## Fairness

- The loop ticks again and again (weak fairness of Tick): it does nothing that
  blocks but epoll_wait, which a ready fiber does not reach. A fiber that gets the
  processor again and again gives it up again and again (strong fairness of
  GiveUp, LeaveProcessor): the library has no preemption and can only promise
  progress to programs that cooperate. DownWoken and UpWoken are the rest of a
  library call, which does not block.
- ThreadPool: the operating system runs the threads and lets everyone who waits
  for the mutex (folded into the critical section) have it; a write that waits
  for room in the pipe gets its turn although others write too (strong fairness
  of WriteWork: the kernel wakes waiting writers in order); a work's function
  returns; the loop comes back to a readable pipe. Spurious wakeups are not
  assumed to happen.
- Timer: time passes and the loop goes round (weak fairness of the step that
  changes the phase).
- IO: the loop does its next step (weak fairness of Loop; an interrupted wait is
  called again). As long as it goes round, the two it asks in every round keep their
  promises. epoll reports a descriptor that stays due in the end, though more are ready than
  fit into one wait: it goes round them (EpollReports; epoll_wait(2) says so). A timeout that
  stays set expires: that is TimeoutService's own fairness, WF of Expire, for which Timer
  is checked (TimerExpires). A timeout that is set and cleared again and again, as by a fiber
  whose timed waits are always served in time, need not expire. Without either the run
  fails. Nothing is assumed of the fibers: WaitsEnd has as premise that they block all at once
  again and again. Neither yielding nor adding a fiber and exiting is enough, for a ready
  fiber is switched to without the loop (Scheduler.c:123), and TLC finds the loop starved
  without the premise. So WaitsEnd says nothing of a program whose fibers never let the loop
  have its turn; no property does.

## What is proved

`SchedulerProofs` proves, for any set of regions and any number of steps, the four
safety invariants of the scheduler (Scheduler_TypeOK, Scheduler_FiberInOnePlace,
Scheduler_ContextValid, Scheduler_CountMatches). None is inductive alone: the
count stays right only if the dead list holds no live fiber; a resumed fiber's
context is right only if it was in one place. Their conjunction with "finitely
many regions are allocated" (SchedulerInv) is. There is one lemma per call; Suspend
and Exit share SwitchAway_Inv about the choice both end with. ResumeFiber_Inv and
UnresumeFiber_Inv have the callers' duty as an assumption, and are cited by the
proofs about the callers. A second set of lemmas, one per call again and named
`*_Keeps`, says what a call does to a fiber blocked in another one: it stays live,
no more and no less awake, and with its context valid.

`SemaphoreProofs` proves, for any fibers, any bounds and any initial value within
them, ValueInBounds, WakeupsMatchValue, WaitersBlocked and the scheduler's
FiberInOnePlace under the semaphore's calls. They need each other, and the
scheduler's invariant: a woken waiter changes the value without looking, so
ValueInBounds needs that nobody is awake at the bound (WakeupsMatchValue), which
needs that UnresumeFront finds the front of the list ready, which needs waiters
that are recorded once; and the scheduler's invariant needs that whoever the
semaphore resumes is suspended. The conjunction (SemaphoreInv) is inductive. The
two directions are alike; the lemmas about "ready" as a parameter (ResumeFront_,
UnresumeFront_, RemoveWoken_Consistent) serve both, and FinishDown_Inv,
FinishUp_Inv are about the end all paths of a call share. Semaphore_Refines is the
safety part of the refinement: every step is a step of BoundedSemaphore or leaves
its state alone; a woken waiter being the front makes DownWoken a ServeDown.

`EventProofs` proves WaitersSuspended and FiberInOnePlace for the event, from the
same lemmas.

`IOProofs` proves the four invariants of the composition and its action property,
for any fibers and descriptors. RecordsOfBlockedFibers is what the others rest on: a
callback resumes whoever a record names, so the scheduler's invariant holds only if
records lie on the stacks of suspended fibers, once; and they do only if nothing
resumes a fiber but its record's callback, and no two callbacks of one fiber are
queued. The last is due to the order of the loop and not to any test in a callback.
QueuesInTurn states it: I/O calls are queued only until the timer is asked, timeouts'
calls only until the fibers run. The conjunction with the scheduler's invariant, the
types and LoopEndsClean (IOInv) is inductive; the `*_Keeps` lemmas say that the steps of
other fibers leave the suspended ones alone. LoopEndsClean needs CountMatches: the loop
looks at fiberCount only, and with a count of zero nobody lives who could have a
record. OnlyCloseForgets is proved with the invariant, action by action
(AllRemembered). CallbacksDefined is about the calls a callback makes, Timer_ClearTimeout
and the reading of the pipe, which check nothing: a second invariant on top of the first
(WaitsInv) says that a timed wait has its timeout as long as it has its watch, and that
the pipe is readable exactly while there are results. With it no guard of
WatchService or TimeoutService hides a callback the code would run into.

`ThreadPoolProofs` proves the pool's invariants for any number of fibers and workers and
any size of the pipe and of a batch. They are inductive together with one more: the stop
signal is on the list only when the pool is being stopped (SignalOnlyToStop), without
which a worker might stop beside works. NoSleepBesideWork is the argument for signalling
only when the list was empty: a worker that leaves the list nonempty signals, so somebody
is always on the way. ThreadPool_Refines is the safety part of the refinement. The queue
of WorkService is the work list until the loop ends, and empty after: by then no work is
listed (StopFindsNoWork), and what is on the list is the stop signal.

`IOPollerProofs` proves the poller's invariants for any watches and any finite set of
descriptors, and the whole of its refinement (WatchServiceSpec has no liveness). An event
agrees with the watches linked into it (WatchesLinked), a watched descriptor is open and
has an event (WatchedExists), the poller's flags agree with epoll (EpollAgrees), and
events whose flags are out of date are dirty (DirtyWhenChanged); none of the four is
inductive without the others, nor is EpollKnowsTheWatches, which follows from them when the
dirty list is empty (ToldBeforeWait). That a tick queues each due watch of the descriptors
epoll_wait returned, and each once, needs that a watch is linked once, that lists of different
events share none, that the ready descriptors are those with a due watch (ReadyAreDue), and the
lemma about concatenating lists (ListFlatten).

The second part of `IOPollerProofs` proves SlotsAccountedFor, ChunkOnRightList and
ShrinkLeavesNoFreeChunk for any number of chunks and any sizes of chunk, header and block. The
loop over a new chunk links as many blocks as the sizes allow, which is what the code counts
on (SlotsCounted, AllLinked). ShrinkLeavesNoFreeChunk needs
FreeInFront, that no free chunk is behind one in use on the usable list, which
MemoryPool_FreeBlock keeps up with its look at the previous chunk; with one slot per chunk a
chunk becomes usable and free at once and is put at the back, which is right only because
all usable chunks are free then.

The third part of `IOPollerProofs` proves RingsClosed and NeighboursTellLast for any heads,
items and ranks, and the whole of the refinement of `Lists` by the pointers (ListsSpec has no
liveness): every other module takes lists for sequences, and this is why it may.
The invariant (ListInv) is about a list as a sequence between two cells that are both its
head: it holds each item once and not the head (Part), each two cells that follow each other
in it point to each other (Joined), and lists share no item (Rings). Between two cells that
need not be the same, Part and Joined also describe what a call of List_Quicksort sorts.
Its loop is proved with RepeatedKeeps: what is in front of the pivot is less, what the
loop has passed is not, and each round comes nearer to the pivot (PartingInv). A call
writes no pointers but those of the items of its part and the two that lead into it
(SameOutside); so what sorting one side does leaves the other side joined, although both are
reached through fields of the pivot (SidesSorted), and InductionUpTo on the nesting depth
gives that a call sorts every part with no more items than the depth (QuicksortSorts).
List_Sort of an empty list writes nothing.

`TimerProofs` proves the heap for any nodes, any integer keys and any segment length, and
the timer on top of it for any times. The loops are reasoned about with RepeatedKeeps
(`ListTheorems`). The invariant of a sifting loop is
about the array with the sifted node put where it would go (Filled): it holds the right
nodes with the right numbers, and only one slot may be out of order, towards its parent
(OrderedButUp) or towards its children (OrderedButDown), while its children and its parent
are in order with each other. Both loops end within their rounds because the slot number
falls, or grows. SiftNodeUpOrders and SiftNodeDownOrders carry InsertedOrders,
AdjustedOrders and RemovedOrders, and those Heap_HeapOrdered and Heap_SlotNumbersRight,
which are inductive together (HeapInv). Removal is the case that needs both directions: the
last node comes from another branch and may be smaller than the parent of the slot it is
moved into. An adjusted node goes up or down but never both: Heap_AdjustNode takes
another node in its slot for a sign that it went up, which SiftNodeUpOrders shows to be
right.

SlotsExist rests on Vector_RoundsToPower, that NextPowerOfTwo computes what its name says for
words of any width. The number before has a highest bit (TopExists); the loop sets all bits
below it, twice as many each round, and none above (SmearFills); that is one less than a
power (NumberOfLowest), and no smaller power is large enough. Zero becomes the
largest word and overflows to zero again (RoundsZero), as does what is larger than half the
range of a word. The inductive invariant (SegmentsInv) has the
relation of the vector's length to its size besides, because Vector_SetLength does nothing
when the size stays the same, and that there are no more segments than nodes, without which
the size of the vector might not fit in a word.

For the timer, the top is least (TopIsLeast), so the loop of Timer_Tick fires in the order
of the due times and leaves nothing that is due (DueFirst is its invariant), and a wait that
looks at the top only ends before anything is overdue (TimerWaits). Below it the heap keeps
its order and its slots (Timer_HeapOrdered, Timer_SlotsExist), although a tick removes any number
of nodes at once. Timer_Refines is the safety part of
the refinement of TimeoutService.

`ListTheorems` proves what the list operations, and the operators of SequencesExt they are
modelled by, do to the set of linked items, to their order and to the absence of
duplicates. InductionUpTo is induction over the numbers up to a bound, stated of a set
instead of a predicate; with it the recursive function FlattenSeq is made of is reasoned
about. RepeatedKeeps is the rule for loops: what holds before
a loop, and is kept by each round, holds after it, which a family of sets P[i], the states
after i rounds, states without an operator as parameter.

Every inductive invariant, and each of its parts, was checked by TLC on the
instance of the component's run before it was proved.

Assumptions on constants: NoFiber is no region (NoFiberAssumption), the bounds of the
semaphore are integers (BoundsAssumption; not even in order, since Init has no state when they
are not), the names that stand for "none" are none of the values they stand beside
(IOAssumption, IOPollerAssumption, ThreadPoolAssumption), there are finitely many descriptors
(IOPollerAssumption), sizes are positive numbers (ThreadPoolAssumption, HeapAssumption, and
MaxEvents in IOAssumption and IOPollerAssumption), a block fits into a chunk behind its
header, as MemoryPool_Initialize asserts (MemoryPoolAssumption), keys are integers
(HeapAssumption), pointers to one segment per node, and one more, take no more than half of
the memory that words address (SizeAssumption; a node is part of a Timeout, which is larger
than two pointers), there are finitely many items, none of them is a head, and their ranks are
integers (ListAssumption), and delays are no longer than the bound on the clock
(TimerAssumption).

Only model-checked:

- liveness, and the refinements as far as they are liveness (BoundedSemaphore,
  WorkService, TimeoutService), which are out of the prover's reach;
- TimedWaitReturns, which does not hold.

## Not modelled

- Failing allocations and other system calls, except in Heap: either they change
  nothing and the call returns false, or they end the program. (main ignores the
  result of the first AddFiber, Runtime.c:52; with no memory for it the program does
  nothing. It returns a status that is not set when the first fiber leaves by
  ExitCurrentFiber instead of returning, Runtime.c:59.)
- The bytes that are read and written, and the arguments and results of calls.
- Vector_Expand, and the zeroing of new elements. Vector_Expand has no caller in the library;
  nor have Heap_AdjustNode, Heap_ShrinkToFit, List_Sort and MemoryPool_ShrinkToFit, which
  are modelled, so what is shown of them is about calls that do not occur yet.
- The width of the counters of type int (fibers, nodes, segments), which are natural
  numbers here: they would overflow with 2^31 fibers or timeouts at once.
- Logging, macros, samples.
- Semaphores and events used from more than one object, and together with I/O: to
  `Semaphore` and `Event` all I/O is OtherCalls and OtherResume.
- The stack switch in assembly, and what setjmp and longjmp do to registers; stack
  overflow of a fiber.
