# Verification of the ZS285A kernel and its services

TLA+ specifications, TLC runs and TLAPS proofs for the operating-system kernel
of the Actions ZS285A SDK (`src/sdk014_ZS285A`), a fork of Zephyr 1.9 for a
single-core MIPS audio SoC, and for the services right above it: application
messages, properties and the non-volatile store. The SDK is about a million
lines, most of it vendored (Zephyr subsystems, HALs, fonts, binary codec and
Bluetooth libraries). What everything rests on is `kernel/`: threads, wait
queues, timeouts and the objects built from them; what a device must not lose
is in the NVRAM store. This project specifies those parts.

## 1. The system

### Execution model

One processor. Threads have priorities (a smaller number is higher; negative is
cooperative). Kernel code protects itself with `irq_lock()`; mutexes use the
scheduler lock, which stops other threads and not interrupts. The clock
interrupt expires timeouts *with interrupts open between its steps*, and an
interrupt of higher priority may nest in it (`enable_irq_nest()` in
`arch/mips/core/irq_manage.c`). So the actors are: threads, interrupt handlers,
and the clock interrupt, whose steps interleave with the interrupt handlers'.

### Components

| component | state | operations | talks to | hard part | correctness |
|---|---|---|---|---|---|
| wait queues (`ksched.h`, `sched.c`) | one priority-ordered list per object, thread state bits | pend, find first to unpend, unpend | timeouts, ready queue | waiters whose timeout is marked and not yet handled are still on the list | list, bits and marks agree; order by priority and arrival |
| timeouts (`timeout_q.h`, `sys_clock.c`) | `_timeout_q` with delta ticks, the local list `expired`, `_handling_timeouts` | add, abort, announce a tick, remaining time | everything that waits | insert and remove in the middle; interrupts open during the two passes | exact deadlines, each handled once, in order |
| semaphore (`sem.c`) | count, limit, wait queue | give, take, reset | wait queues | a give by a nested interrupt meets a marked waiter | no lost wake-up, no lost or doubled unit, order, every timed wait ends |
| message queue (`msg_q.c`) | ring buffer, two pointers, count, *one* wait queue for both sides | put, get, purge | wait queues | who waits is inferred from the count | no confusion of readers and writers; fifo, exactly once |
| queue / fifo / lifo (`queue.c`, `slist.h`) | singly linked list, wait queue | append, prepend, append list, get, remove, cancel wait | wait queues, work queues | head/tail/links at the boundaries; `append` reads the tail outside the lock | nothing lost, list well formed, order |
| delayed work (`work_q.c`) | flags PENDING and RUNNING, attached queue, timeout, list | submit, cancel, cancel_sync, timeout, the queue thread | queue, timeouts | four actors touch the flags; several of the tests are not atomic | flags and lists agree; queued work is run; cancel_sync means finished |
| mutex (`mutex.c`) | owner, lock count, original priority, wait queue | lock, unlock | wait queues, scheduler | priority inheritance with waiters that time out | one owner, no inversion, priorities revert |
| timer (`timer.c`) | timeout, period, status, wait queue | start, stop, status_get, status_sync, remaining_get | timeouts, wait queues | the handler re-arms in the middle of the clock interrupt; stop has two halves | exact periods; the first waiter is released by expiry or stop |
| memory pool (`mempool.c`) | free list and free bits per level, wait queue | alloc, free | wait queues | split and recombine one level at a time, decisions outside the lock | no memory lost or given twice, partners always joined, waiters woken |
| mailbox (`mailbox.c`), stack (`stack.c`) | two queues of threads, real and dummy; a stack of descriptors | put, async_put, get, data_get, data_block_get, clear_msg | wait queues, timeouts, pool, semaphores | dummy threads stand for senders; messages kept for later; a walk that lets others run | everyone in one place, no missed match, order, blocks freed once |
| message manager (`msg_manager.c`, `os_wrapper.c`) | pool of message buffers, a semaphore per buffer and per synchronous call | send_async, send_sync, receive, drop_all | mailbox | two pools of the same size, freed in order; a semaphore on the sender's stack | never waits for a descriptor, no buffer lost, synchronous calls answered |
| NVRAM (`nvram_config.c`) | a log of items in flash segments; bitmap, offsets in RAM | set, get, clear_all, start-up | flash, property cache | loss of power between and within flash operations | completed sets survive; RAM matches flash; no overrun |
| property cache (`property_cache.c`, `property_manager.c`) | write-back entries with a flush request | get, set, flush, flush_req, clear_user_info | NVRAM | a value may be in the cache, the store, or refused by the store | read your writes, flushed values survive, a clear forgets |
| memory slab, alert, pipes | free list; counters; ring | alloc, free; send, recv; put, get | wait queues, work | hand-over to a waiter; partial transfers | (planned) |
| ready queue, thread life cycle, thread timers | bitmap, cache, lists | add, remove, yield, suspend, abort | everything | cache of the next thread | (planned) |
| start-up, idle, devices, atomics, statistics | tables | | | | not modelled: straight-line code |
| other Actions components (`ext/actions/component`), applications (`samples/bt_box`), drivers, subsystems | per manager | messages, callbacks | kernel objects | mostly glue to binary libraries | not modelled |

`PROJECT.json` lists every component with its status, every run, the map from
definitions to source lines, and the hazards: the places where this code is
hard to test, with the properties that watch them.

## 2. Modules

| module | models | composed with |
|---|---|---|
| `KThreads` | threads, an object's wait queue, thread timeouts and the clock interrupt's two passes; no specification of its own | extended by the objects |
| `KSem` | `sem.c` | `KThreads`; refines `AbsSem` |
| `KMsgq` | `msg_q.c` | `KThreads`; refines `AbsMsgq` |
| `KQueue` | `queue.c` over an explicit `slist.h` list | `KThreads`; refines `AbsFifo` |
| `KTimeoutQ` | `timeout_q.h`, `handle_timeouts()`, `_timeout_remaining_get()`; no specification of its own | refines `AbsTimers` |
| `KTimer` | `timer.c` | `KTimeoutQ`, and a wait queue per timer |
| `KMemPool` | `mempool.c` | |
| `KMailbox` | `mailbox.c`, and `stack.c` for the descriptors | its own queues, since dummy threads wait in them |
| `MsgManager` | `msg_manager.c`, the messages of `os_wrapper.c` | `KMailbox` |
| `KNvram` | `nvram_config.c`, flash and loss of power | |
| `KProperty` | `property_cache.c`, `property_clear_user_info()` | abstracts `KNvram` (a map) |
| `KWork` | `work_q.c` | abstracts `KQueue` (a sequence per queue) and `KTimeoutQ` (armed / called / inactive) |
| `KMutex` | `mutex.c`, and which thread runs | its own wait queue, since priorities change |
| `AbsSem`, `AbsMsgq`, `AbsFifo`, `AbsTimers` | what a caller is promised | |
| `DataLemmas` | lemmas on sequences (inserting, removing, order, members), least numbers and recursive functions; no component | used by the proof modules |
| `KWaitQProofs` | lemmas on the wait queue and the clock interrupt; theorems on the three objects that wait on it: semaphore, message queue, queue | extends `KSem`, `KMsgq`, `KQueue` |
| `KTimerProofs` | theorems on the timeout queue and the timers | extends `KTimer` |
| `KMutexProofs` | theorems on the mutex, and on the property cache that is used under one | extends `KMutex`, `KProperty` |
| `KWorkProofs`, `KMemPoolProofs`, `KNvramProofs` | theorems on delayed work, the memory pool, the NVRAM driver | extend their component |
| `MailboxProofs` | theorems on the mailbox and on the message manager above it | extends `MsgManager` |
| `MC*` | the small instances for TLC | |

### State and actions

*Atomicity.* A section under `irq_lock()` is one action. Everything the code
does with interrupts open is a step of its own: each entry that the clock
interrupt collects and each it handles, the two halves of `k_queue_append()`,
the steps of `work_q_main()`, the two tests in `k_delayed_work_cancel_sync()`,
the look at the next waiter and the adjustment in `k_mutex_lock()`, the two
halves of `k_timer_stop()`, each level of a search, split or recombination in
the memory pool, the match and the disposal of a mailbox message, and each flash
operation of the NVRAM driver.

*Type invariants.* Each module has one, the first conjunct of its structural
invariant (`NoLostWakeup`, `WaitersMatchBuffer`, `ListWhole`, `PendingIsHeld`,
`MutualExclusion`, `SyncServed`, `MapMatchesFlash`, `FlushedSurvives`,
`SendersAccounted`, `BuffersAccounted`, `MemoryConserved`).

`KThreads`. `waitq` is the object's list; `tstate` the state bits; `tmo` the
thread's `delta_ticks_from_prev` (`_INACTIVE`, on the queue, `_EXPIRED`);
`clock` and `expired` are the progress and the local list of
`handle_timeouts()`; `ret` is the value `_Swap()` returns. `ahead` is history.
Which timeouts expire together is left open (any set of armed ones), which
`KTimeoutQ` justifies. Threads act only when `clock = "idle"`, interrupts
always. Which ready thread runs is left open too: a larger set of behaviours
than the scheduler produces, so what holds here holds under any scheduling.

`KSem`: `Give` (`k_sem_give`, `_sem_give_non_preemptible`), `Take`, `IsrTake`,
`Reset`, `SemKill` (`k_thread_abort`), `SemClock`.

`KMsgq`: `Put`, `Get`, `IsrPut`, `IsrGet`, `Purge`, `MsgqKill`, `MsgqClock`.
`data[t]` is the memory the caller passed (through `swap_data`), so handing a
message to a blocked reader is a write into the reader's memory, as in the code.

`KQueue`: `head`, `tail` and `next` are the pointers. `AppendStart`/`AppendEnd`
are the read of the tail and the locked insertion, between which any other
operation may come, of threads and of interrupts; `Prepend`, `AppendList`,
`QueueGet`, `QueueIsrGet`, `RemoveItem`, `CancelWait`, `QueueKill`,
`QueueClock`. The list operations are those of `slist.h`, links of removed items
included. `where` is history; an item that an overtaken append hung behind one
that has left the list is "lost" (`Astray`). `AbsFifo` has the same two steps: an
append whose last item is still last goes to the end, one that was overtaken goes
behind the item it had found, to the front if it had found none, and only if that
item has left to the end or nowhere. `CONFIG_POLL` is off, as in the product
configurations.

`KTimeoutQ`: `q` and `delta` are the delta list; `Add`, `Stop` (in its two
cases: the entry is on `_timeout_q`, or already on the local list), `Announce`,
`Collect`, `CollectDone`, `Handle`, `Advance`, `HandleDone`. `cur` and `nxt` are
the two pointers of `SYS_DLIST_FOR_EACH_CONTAINER_SAFE`. `rem` and `earlier`
are history: the ticks really left, and who was due in the same tick first.
The tick is announced one at a time, as `acts_timer.c` does.

`KTimer` extends it: `period`, `status` and `waitq` of each k_timer; `handler`
and `step` say how far `_timer_expiration_handler()` is (`HandleTimer`,
`Rearm`, `ExpiryReturns`). `Start`, `StopNow` (interrupts, expiry functions),
`StopStart`/`StopEnd` (threads), `StatusGet`, `SyncStart`/`SyncReturn`. The
timeouts that are not k_timers are those of threads and work and come and go
freely (`OtherTimeouts`). `since` and `overlooked` are history: the ticks since
the last expiry, and who was left waiting when another was released. A duration
of 0 runs the handler inside `k_timer_start()`, as `_add_timeout()` does.
Excluded: operations on a k_timer by an interrupt that nests in the clock
interrupt (see section 5).

`KMemPool`: `bits` and `list` per level; a thread in a call is at a `pc`:
`Alloc`, `Scan` (one level per step, without a lock), `Take`, `Break`, `Pend`,
`Expire`, `Retry`; `Free`, `FreeBlock` (one level per step), `Wake`. `missed` is
history: who was passed over by a wake-up. `k_malloc()`/`k_free()` only add a
header. Two premises, which `K_MEM_POOL_DEFINE` (`kernel.h:3508`) does not
enforce and the heap pool of `mempool.c:374` meets: the sizes of the levels are
exact quarters, so that `block_fits()` is always true; and `NMax < 32`, because
from 32 large blocks on `get_bit_ptr()` uses the inline word for level 0, whose
bits do not fit in it, and a set of free blocks is no longer what the bits say.

`KMailbox`: `txq` and `rxq` hold threads and, in `txq`, the dummy threads of the
asynchronous descriptors; `tx[s]` and `rx[t]` are the message descriptors;
`free` and `poolq` the stack of descriptors and those who wait for one. `Put`,
`AsyncAlloc`/`AsyncPut`, `Get`, `DataCheck`, `DataGet`, `Give`, `Timeout`, and
the walk of `k_mbox_clear_msg()` (`ClearStart`, `ClearOne`, `ClearEnd`), which
holds `irqLocked` until a wake-up swaps. Data is "data" or a "block" of a pool;
`out` is history, the blocks that are not released. Timeouts are atomic here:
`KThreads` has the two passes. `prio` of a dummy thread is what the last sender
left in it. Senders are threads: the branches of `_mbox_message_put()` for
interrupts are left out because its only callers in the product, the sends of
`os_wrapper.c`, assert that they are not in one (lines 168 and 196). `Dispose`
frees the block and tells the sender in one step; what lies between is the
receiver's own.

`MsgManager` extends it by `buf` (the buffer a sender has got), `syncing` and
`syncSem` (the semaphore on the stack of a synchronous sender), `got` (a message
received, with its callback), `dropped` (history). Messages are sent to a thread
or to anyone; the list of listeners is left out.

`KNvram`: `hdr` and `items` are the flash, `cur`, `seqId`, `woff` and `map` are
`region_info`; `pc` is the next flash operation of the call in progress. `Boot`,
`SetStart`, `WriteItem`, `WriteData`, `MarkOld`; `Erase`, `WriteHeader`, `Copy`,
`CopyDone` for a purge; `ClearAllStart`, `EraseAll`; `Clear` for the segments
erased at start; `Crash` anywhere, with what an interrupted erase or program
leaves. `acked` and `exposed` are history: what a client may rely on, and the
names caught in a window in which the code loses values (operator `Exposes`).

`KProperty`: `cache`, `nvram` and the flush in progress. `Set`, `FlushStart`,
`FlushReq`, `DealStart`, `FlushEntry`, `FlushEnd`, `ClearStart`, `ClearErase`,
`Reset`. A set of length zero is a set to `None`: the entry is used and empty, a
get returns nothing, and a flush deletes the item in the store. Names that are
prefixes of each other share an entry in the code; that relation is the constant
`Matches`, and a name is `Separate` if it is no prefix of another and has none.

`KWork`: the flags, the attached queue, the list, and the thread of each queue
step by step (`WorkerGet`, `WorkerFlag`, `WorkerCall`, `HandlerSubmit`,
`HandlerReturn`, `WorkerDone`); `Submit`, `Cancel`, `Expire`, `Timeout`;
`SyncStart`, `SyncCancel`, `SyncReturn`, `SyncRetry` for cancel_sync.
`WorkerNoHandler` is the `continue` for an item whose handler is NULL (the set
`NoHandler`): both flags stay set, so that the item can never be submitted or
cancelled again. `calling` is the item whose timeout the clock interrupt has made
inactive and whose `work_timeout()` it is about to run; threads stand still then,
but an interrupt that nests may submit and cancel, also that very item. `raced`
is history, the items to which this happened; `wild` are those that went to the
queue at address NULL, or whose active timeout was linked a second time.

`KMutex`: the mutex's fields, `prio` of each thread, `cur` = `_current`.
`Reschedule` and `Dispatch` are part of every action that can change who runs.
`LockNow`, `LockWait`, `LockGot`, `LockTimedOut`, `LockAdjust`,
`UnlockNested`, `Unlock`; `Sleep`, `Yield`, `WakeUp` for what threads do
otherwise; the clock interrupt as in `KThreads`. `fault` is set when
`mutex->owner` is followed while NULL, and the model ends there.

## 3. Runs

| run | instance and bounds | what it shows |
|---|---|---|
| `sem` | 3 threads, two of equal priority; limit 2 | `NoLostWakeup`, `WaitqConsistent`, `GrantInOrder`, refinement of `AbsSem`; `TimedTakeReturns` |
| `timer` | 1 k_timer and 2 other timeouts of up to 3 ticks, 2 threads, durations and periods up to 2, status modulo 3 | `RemainingExact` (the deltas never drift), `SameTickInOrder`, `PeriodExact`, `SyncServed`, refinement of `AbsTimers`, `TimeoutHandled` |
| `msgq` | 2 threads, 2 message values, ring of 2 | `WaitersMatchBuffer`, `RingConsistent`, refinement of `AbsMsgq` |
| `queue` | 2 threads, 3 items, 2 appenders that anything may overtake | `ListWhole`, refinement of `AbsFifo` |
| `work` | 2 items, one without a handler, 1 queue, 1 caller of cancel_sync, self-resubmission, nested interrupts | `PendingIsHeld`, `NeverNullQueue`, `PendingEnds`, `SyncMeansFinished` |
| `mutex` | 3 threads (priorities 0, 2, 3; ceiling 1), nesting to 2 | `MutualExclusion`, `WaitersHaveOwner`, `NoInversion`, `BoostJustified` |
| `nvram` | 2 names, 2 values, 3 segments of 5 slots, sequence numbers modulo 6, 2 losses of power | `CommittedSurvives`, `MapMatchesFlash`, `NeverOverruns` |
| `property` | 3 keys, one a prefix of another; no value, one value and one too big for the store; 2 entries | `ReadYourWrites`, `FlushedSurvives`, `ClearForgets` |
| `mailbox` | 3 threads, two of equal priority, 1 descriptor, 1 semaphore; the highest thread clears | `SendersAccounted`, `NoMissedMatch`, `OfferedInOrder`, `BlocksSettled` |
| `msgmgr` | a server and 2 clients, 2 descriptors, 2 buffers | `PoolNeverWaits`, `BuffersAccounted`, `SyncAnswered`, `SyncReturns` |
| `mempool` | 2 threads, 1 block of level 0, 3 levels, 1 block per thread | `MemoryConserved`, `NoFragments`, `WaitersOverlooked` |
| `mempool_again` | as `mempool` | violated: a caller that waits forever gets -EAGAIN (`ForeverWaits`) |

All state spaces are finite and searched completely. Why the bounds are enough:
the interesting cases of a wait queue need a served waiter, one whose timeout is
marked, and one behind it (three threads; two where readers and writers already
double the cases); the delta list needs an entry before, at and after the one
that changes; the linked list has three shapes (empty, one, more); inheritance
needs an owner, a waiter and a thread between them. A purge of NVRAM needs a
segment that fills up and a next one that is not empty (three segments, so that
the log goes round); the second loss of power hits the recovery from the first.
The mailbox needs a queue in which a thread and a dummy thread wait together,
and a thread that waits for a descriptor. The pool needs a split and a
recombination across two levels while another thread is in the middle of its
own. The cache needs a key that shares entries with another and one that does
not, in competition for entries; nothing in it compares values, so that besides
no value one that the store takes and one that it refuses are enough. The
history of the keys that no property speaks of is left out of that run's view
(`Seen`): nothing depends on it. Each `MC*` module says what its instance was
chosen for. Each property of a passing run has a mutant: a plausible slip in the
code, translated (the operators marked `Mutant:`), under which TLC finds the
property violated.

`mutex`, `mailbox` and `msgmgr` do not check for deadlock because the model ends
at a fault (`mutex`) or because everyone may wait for a message nobody sends;
`mempool` because both threads may wait for memory the other keeps. `timer` runs
with `StopsExpired = FALSE` and `mailbox` lets only the highest thread clear:
outside those windows the properties are what the code guarantees, and section 5
says what happens inside them. In `queue`, `work` and `property` the windows are
part of the model: the run says what the code guarantees in spite of them, and
section 5 names the property that the documentation states and the code does not
keep.

### Fairness

* `sem`: the clock interrupt goes on (weak fairness of handling and ending), and
  an armed timeout is eventually collected. This one is strong fairness:
  collecting is not possible while the interrupt is in its second pass, but is
  again after each, since the hardware timer keeps ticking and every timeout has
  a finite number of ticks. Nothing is assumed of givers or takers.
* `timer`: the hardware timer keeps interrupting and its handler makes progress
  (weak fairness of `TimerAnnounce` and `TimerClockStep`). `TimeoutHandled`
  excepts a timeout that is started anew again and again.
* `msgmgr`: every thread that is inside a call, or has a message to handle, is
  run again and again, and a server receives again and again (strong fairness:
  another thread may hold the lock or be running in between). Nothing is assumed
  of clients that send. `SyncReturns` needs the raised priority of synchronous
  senders: without it a stream of asynchronous messages starves them.
* `work`: each queue thread is scheduled between interrupts (strong fairness),
  handlers return, and an interrupt entered is left. `PendingEnds` excepts an
  item that is submitted again and again: that moves it to the end each time.

## 4. Proofs

Each theorem holds for every value of the constants that the named assumption of
its module allows: any number of threads, items or keys, any priorities, any
size of ring, pool, cache or store. Each property was first checked by TLC on
the instance of its run. The layout is the same throughout: one lemma per
action, under it one step per conjunct the action can disturb, and a theorem
that puts the three facts of an inductive invariant together.

| theorem | states | besides the module's assumption |
|---|---|---|
| `SemWaitqConsistent`, `SemNoLostWakeup`, `SemGrantInOrder` | the properties of `sem` of those names | |
| `SemImplementsAbsSem` | `SemSpec` implements `AbsSem` | |
| `MsgqWaitersMatchBuffer` | `WaitersMatchBuffer` | |
| `MsgqImplementsAbsMsgq` | `MsgqSpec` implements `AbsMsgq` | |
| `QueueListWhole` | `ListWhole` | |
| `QueueImplementsAbsFifo` | `QueueSpec` implements `AbsFifo` | |
| `TimerRemainingExact`, `TimerSameTickInOrder`, `TimerPeriodExact`, `TimerSyncServed` | the safety properties of `timer` | nobody stops a timeout that is already marked (`~StopsExpired`) |
| `TimersImplementAbsTimers` | `TimerSpec` implements `AbsTimers` | the same |
| `MutexMutualExclusion`, `MutexWaitersHaveOwner`, `MutexBoostJustified` | the properties of `mutex` | |
| `MutexNoInversion` | `NoInversion` | the priorities are bounded on one side, as the kernel's are |
| `WorkPendingIsHeld`, `WorkNeverNullQueue` | `PendingIsHeld`, `NeverNullQueue` | |
| `WorkSyncMeansFinished` | `SyncMeansFinished` | one work queue |
| `PropertyReadYourWrites`, `PropertyFlushedSurvives`, `PropertyClearForgets` | the properties of `property`, which are about each key that is no prefix of another and has none as its prefix, whatever the others do | |
| `NvramNeverOverruns`, `NvramMapMatchesFlash`, `NvramCommittedSurvives` | the properties of `nvram` | |
| `PoolMemoryConserved`, `PoolNoFragments`, `PoolWaitersOverlooked` | the properties of `mempool` | |
| `MailboxSendersAccounted`, `MailboxNoMissedMatch`, `MailboxOfferedInOrder`, `MailboxBlocksSettled` | the properties of `mailbox` | |
| `MsgPoolNeverWaits`, `MsgBuffersAccounted`, `MsgSyncAnswered` | the safety properties of `msgmgr` | |

`~StopsExpired` and the single work queue are windows of section 5: outside them
the code guarantees the property, inside them it does not. No hypothesis is
empty: each run is an instance of its theorems.

### The arguments

*Semaphore.* `SemIInv` is `SemTypeOK`, `ThreadInv`, `NoneLeftWaiting` and
`PendingReturn`. `NoLostWakeup`, which is the first and the third, is not
inductive alone: that a give wakes a thread that really waits, and that a
timeout changes no live waiter, needs
`WaitqConsistent`; that the first live waiter is the right one needs
`WaitqSorted` (order of arrival within a priority, by the history variable);
that a timed-out thread returns -EAGAIN, as the refinement wants, needs
`PendingReturn` (a pending thread's return value is still what `_Swap()` set).
The refinement counts a marked waiter as already timed out. `KWaitQProofs` begins
with one lemma per operation of `KThreads` (pend, wake, abort, wake all, the clock
steps) saying that it keeps `ThreadInv`; they mention no object.

*Message queue.* `MsgqIInv` is `ThreadInv`, `WaitersMatchBuffer` and `Blocked` (a
blocked call is a put or a get that still has -EAGAIN). The step that matters is
a put that finds the ring not full: whoever waits then waits to read, so the
ring is empty and handing the message over keeps the order. The refinement
mapping is the region of the ring from the read pointer on; `RingConsistent`
and a lemma on the remainder say that the write pointer is its end, wherever it
wraps.

*Queue.* `ListWhole` speaks of the list that a walk over the links finds
(`Chain`, a recursive function), which says nothing about how an insertion
changes it. `LinkedList(c, h, t, nx)` says of a given sequence `c` that head,
tail and every link are those of `c`; a least counterexample on the number of
turns shows that the walk then finds `c`, and each operation of `slist.h` has a
lemma that names the sequence it leaves. An append that is overtaken may insert
after an item that is no longer the last or no longer there: its lemma (`Placed`)
goes through what `sys_slist_insert()` finds in the link of that item, and a link
that is NULL leads to the end of the list, wherever the item is. `QueueIInv` adds
`AppendInv` (each append under way has an item of its own, and not after itself)
and the parts of the semaphore's invariant. The refinement also needs
`EmptyHanded`: a thread that waits has not been given anything.

*Timeouts and timers.* That the differences of the delta list add up to the
deadlines is a statement about sums; `Exact` says instead, of each entry, that
its difference leads from the deadline of its predecessor to its own. That is
local, so an insertion or a removal in the middle is checked at two entries, and
a least counterexample turns it into what the loop of
`_timeout_remaining_get()` adds up. `TimeoutInv` has besides: each timeout is
inactive, on the queue or marked (`StateInv`); the marked ones are those that
the walk over the local list has still ahead of it (`WalkInv`); those of one
tick are in reverse order of starting on the queue and in order of starting on
the local list (`EarlierInv`). `TimerInv` adds the timers: the ticks since the
last expiry and those left make up the period (`PeriodInv`), and who waits, and
was overlooked (`WaitInv`, `ServedInv`).

*NVRAM.* `NeverOverruns` is not a matter of one write: nothing in the code checks
for room after a purge, so the argument is about how many items a purge copies.
`SegsInv`: among the complete items of a segment all but as many as there were
losses of power have different names (one more between the new item and the mark
on the old one), so the assumption on `Slots` leaves room. `RingInv`: the
sequence numbers of the valid segments count back from the current one modulo
their range, so a restart finds the newest. The rest is one conjunct per flash
operation that may come next: what is already copied, which item is about to be
marked, which segments are cleared. For the names that are in none of the three
windows of section 5, `Agrees` says that a segment holds what clients know;
`Durable` is what a loss of power leaves of it.

*Memory pool.* `MemoryConserved` counts the owners of each smallest block.
`TileInv` says it of the blocks: those that are free, held or in the hands of a
call have no smallest block in common (`Apart`) and leave none out (`Covers`);
splitting and joining replace one block by its four quarters or the reverse. A
block of a level is an interval of smallest blocks whose length is a power of
four. `NoFragments` uses it: the three quarters that `break_block()` frees cannot
find the fourth one free. `SeenInv` is the part about decisions outside the
lock: a level that a thread has seen empty stays empty, or a wake-up is coming,
or the thread counts as overlooked.

*Mutex.* `QueuesInv` says that list, states and timeouts agree and that the wait
queue is in the order of the original priorities; `CallInv` ties the thread's
place in the call to them; `PrioInv` has both halves of inheritance: a raised
priority has someone who asks for it (a live waiter, or one that gave up and has
not yet adjusted), and an owner is at least as high as each waiter and the
ceiling allow. The second half is what an adjustment after a timeout can
disturb, since it looks at the next waiter only: that this one is the highest
left needs the order of the queue. `NoInversion` adds `SchedInv`, that the
running thread is a highest ready one unless it is cooperative.

*Delayed work.* `Held(w)` says of one item where it is: on a list or in the
hands of a queue thread only while its flag is set and only at the queue it is
attached to. `Sound(w)` is the converse, for items not in `raced`: a pending
item is in such a place (or was dropped for want of a handler) and its timeout
is inactive, and what counts down or is being called has a queue. The part for
raced items is what `k_queue_remove()` in a cancel needs, so the invariant holds
with nested interrupts and not only without them. `CallsHaveItem` gives each
call of cancel_sync its item. `SyncInv` follows `k_delayed_work_cancel_sync()`
between its two tests: the item stays cleared unless someone submits it
(`Settled`), and `RunInv` says that RUNNING is set while the handler runs. With
several queues an item detached while its handler runs may go to a second one
(section 5), hence one queue.

*Property cache.* `PropertyIInv` is about one separate key at a time: `NameInv`: at
most one entry has it; that entry, or else the store, has the latest value (too
big values stay in the cache). `SinceInv`: the latest value and the stored
one are both among those the key had since its last completed flush, and a flush
in progress has left behind its position only values the store refuses.
`ClearInv` does the same for a clear.

*Mailbox.* `ListsInv` (no repetitions), `TypesInv` and `Acc`, which accounts for
everyone: `ThreadInv` (a pending thread is in exactly one of the two queues, the
queue for descriptors, or held by one receiver), `HandInv` and `HeldInv` (what a
receiver holds, and who holds a sender), `AsyncInv` and `PoolInv` (a descriptor
is free, being filled, queued or held). On top of that `BlocksInv`, `MatchInv`
(no pair that fits waits) and `OrderInv` (by the history variable `ahead`, the
queue follows the priorities the senders had, dummy threads included).

*Message manager.* `MsgInv` adds to `IInv`: a buffer's semaphore is 1, or one of
a sender, a message or a receiver has the buffer (`BufInv`, `SemInv`); each call
that waits for an answer has a message or callback under way or was dropped
(`SyncInv`); and nobody waits for a descriptor. The last needs a pigeonhole
argument (`PoolEnough`): each descriptor in use has a buffer of its own, the
sender holds one more, so there is a free descriptor. The assumption used,
`Cardinality(Sems) <= Cardinality(Asyncs)`, is that both pools are sized by
`CONFIG_NUM_MBOX_ASYNC_MSGS`; the argument also shows why the order of release
matters (descriptor first, buffer second).

### Recursive functions

Recursive functions define the walk over the links of a queue, what is left of an
appended list after its first items went to waiters, the sum of the differences
up to a timeout, and the powers of four of the memory pool. The library's
induction theorems cannot be used with these provers. Instead the proofs show
that a function with the recursive equation exists (by an explicit solution, or
`RecursionExists` in `DataLemmas`) and compare it with what it should be at the
least argument at which they would differ (`LeastNatural`).

### Only model-checked

* Liveness under fairness, which is out of the reach of these provers:
  `TimedTakeReturns`, `TimeoutHandled`, `PendingEnds`, `SyncReturns`.
* What the code does inside the windows of section 5: the properties marked "Not
  guaranteed" have counterexamples, not proofs.

Every other property of a passing run is stated by a theorem.

## 5. Observed while modelling

### Windows that the passing runs exclude

The code does not guard against these; the modules state the property that fails
(marked "Not guaranteed"), and TLC finds the counterexample with the setting
given, by adding the property to the run's configuration.

* `timeout_q.h:113`: the walk over the expired timeouts has read the next entry
  before it calls an expiry function; if that stops the next timeout, it is
  handled all the same, and `_EXPIRED` is added to whatever node follows, or to
  the stack. `StoppedNotHandled`, `timer` with `StopsExpired = TRUE`.
  (`kernel.h:1114` "stops a running timer prematurely", callable by interrupts.)
* `timer.c:225`: asked for a timeout that `handle_timeouts()` has collected but
  not handled, `_timeout_remaining_get()` walks past the end of the queue.
  `RemainingDefined`, `timer`.
* `mutex.c:182`: a waiter that timed out adjusts the priority of an owner that
  is NULL because it has unlocked meanwhile. `OwnerToAdjust`, `mutex`.
* `mailbox.c:499`: `k_mbox_clear_msg()` keeps a pointer to the next sender while
  `_mbox_message_dispose()` may swap, with the lock given up; a sender taken off
  the queue by then is disposed of twice. `ClearStaysOnQueue`, `mailbox` with
  `Clearers = {t2}`.
* `timer.c:55` with an interrupt that nests in the clock interrupt: a
  `k_timer_start()` between the moment the timeout is inactive and its re-arming
  links it twice, a `k_timer_stop()` there has no effect, and `status += 1` is
  not locked. Not in the model.

### Windows that the models contain

The runs have the properties that hold in spite of these. What the documentation
states and the code does not keep is a property of its own, marked "Not
guaranteed", with a configuration under which TLC finds the counterexample
(`tlc -config QueueOvertaken.cfg MCKQueue`, and so on).

* `queue.c:140`: `k_queue_append()` reads the tail outside the lock, and
  `kernel.h:1393` lets interrupts append. If another item is appended in between
  and the one it found is taken, the new item hangs behind one that is not on the
  list, and is lost; the list itself stays whole. `NoItemLost`,
  `QueueOvertaken.cfg`.
* `work_q.c:86`: a cancel by an interrupt (`kernel.h:2201`) that nests between
  the expiry and `work_timeout()` returns 0 and makes that submit to the queue at
  address NULL; so only for that item (`NeverNullQueue`). `NoWildWrite`,
  `WorkNested.cfg`.
* `work_q.c:175`: a handler that resubmits its item between the two tests of
  `k_delayed_work_cancel_sync()` leaves it armed or queued although 0 is returned
  (`kernel.h:2222` "Work item countdown canceled"). `SyncEndsResubmission`,
  `WorkSync.cfg`.
* `work_q.c:47`: an item without a handler keeps both flags: it can never be
  submitted again, a cancel returns -EBUSY and cancel_sync waits its time out.
* `property_cache.c:45`: names are compared over the length of the name asked
  for, so a key that is a prefix of a cached one reads and overwrites the other
  (`MIC_GAIN` and `MIC_GAIN_BOOST`, `property_manager.h:54`), although
  `property_get()` is to return the value of the target key (line 106).
  `TargetKeyRead`, `PropertyKeys.cfg` with `MCKProperty`.
* `mempool.c:304`: -EAGAIN for a caller that waits forever. `ForeverWaits`, the
  run `mempool_again`.

### Other observations

* Each expiry and each stop of a timer releases only the first thread in
  `k_timer_status_sync()`; after the last expiry of a one-shot timer the others
  wait forever (`overlooked` in `SyncServed`). The comment at `timer.c:76` that
  this is the only place a thread leaves that queue overlooks `timer.c:148`.
* NVRAM loses values in three windows (`Exposes` in `KNvram`): during the copy
  of a purge, because the new segment is valid before it is filled; between the
  new item and the marking of the old one; and during clear_all, where an older
  segment may still be marked valid. `item_check_validity()` marks a bad item at
  its offset within the segment, not within the region (`nvram_config.c:576`).
  Nothing checks for room after a purge: `NeverOverruns` holds because the
  assumption on `Slots` leaves room. `nvram_config_set_factory()`,
  `_get_factory()` and `_clear()` use `nvram_buf` without `nvram_lock`.
* Values longer than `NVRAM_MAX_DATA_SIZE` are accepted by the property cache,
  never reach the store and survive a clear. `property_set_int()` and its
  siblings return -EACCES after a successful set; the loop at
  `property_manager.c:138` never runs; the `mem_malloc()` at
  `property_cache.c:142` is not checked.
* `msg_manager_drop_all_msg()` wakes a synchronous sender out of the mailbox and
  nobody gives its semaphore: it waits forever (`dropped` in `SyncAnswered`).
  Two threads that send each other synchronous messages wait for each other.
  `msg_manager_remove_listener()` uses the listener after the lock is released.
* `k_mbox_get_pending_msg_cnt()` does not count messages to anyone.
* In the memory pool a block freed between a failed attempt and the wait wakes
  nobody, and breaking a block wakes nobody (`missed` in `WaitersOverlooked`);
  the timeout of the second wait is a number of ticks passed as milliseconds
  (`mempool.c:313`); a request larger than the largest block waits forever.
* `timeout_q.h:184` says timeouts of one tick are processed in reverse order;
  `sys_clock.c:270` reverses them again, and `SameTickInOrder` shows the order
  is that of starting.
* `k_msgq_purge()` also wakes blocked *readers*, with -ENOMSG, which
  `kernel.h:2805` documents as "Returned without waiting".
* `k_queue_cnt_sum()` counts the links from head to tail: one less than the
  elements of a queue that is not empty (`kernel.h:1403`).
* `k_delayed_work_submit_to_queue()` restarts the countdown of an item that is
  already queued; `kernel.h:2267` says resubmission fails then. A cancel during
  the handler detaches the item (`work_q.c:156`), after which a second queue may
  run it at the same time, against the comment at line 103.
* `new_prio_for_inheritance()` applies the ceiling to the owner's own priority
  too: when a waiter times out and another still waits, an owner above
  `CONFIG_PRIORITY_CEILING` (with the default 0, any cooperative one) is set
  *down* to the ceiling until it unlocks.

## 6. Plan

1. Done: `KThreads`, `KSem`, `KTimeoutQ` with `KTimer`, `KMsgq`, `KQueue`,
   `KWork`, `KMutex`, `KMemPool`, `KMailbox` with `MsgManager`, `KNvram`,
   `KProperty`, the abstract specifications; every safety property, action
   property and refinement that a passing run checks proved.
2. Model later: `KMemSlab` (hand-over to a waiter, on `KThreads`), `KSched`
   (ready-queue bitmap and cache against a reference), `KAlert` (composition of
   `KSem` and `KWork`), pipes, priority changes of a pending thread in `KMutex`.

## 7. Not modelled

Tickless operation, `CONFIG_POLL` and `CONFIG_THREAD_TIMER` (off in the
products), start-up code, assembly and device drivers except NVRAM (registers),
Zephyr's subsystems (vendored), fonts and tables, and the managers and
applications above the message manager: they are event glue to codec and
Bluetooth libraries delivered as binaries, so what they rely on is not in the
repository. The listeners of the message manager only turn names into threads.
