# Verification of the SMP kernel in this repository

The repository is an early SMP version of the FreeRTOS kernel (V10.4.3) for a
multi-core RISC-V chip, with a demo of three tasks.  The program's own logic is
the kernel: `src/src/freertos/tasks.c` (scheduler), `list.c` and `queue.c`, with
`src/src/port/heap_1.c` and `src/inc/fifo.hpp` beside it.  The port layer
(`port_smp.c`) consists of empty stubs, so the kernel is verified against the
contract it asks of a port: two locks, an interrupt a core can raise at another
one, interrupts that can be disabled.

`src/inc/FreeRTOSConfig.h` is set for the demo: one core, two priorities, no task
notifications, a heap of 4096 bytes.  The kernel is written for any values of these
settings; the modules have them as constants, and the instances below choose those
with which the code is hard.

## 1. Inventory

| component | state it keeps | operations | interacts with |
|---|---|---|---|
| SMP scheduler core, `tasks.c` | `pxCurrentTCBs`, each TCB's `xTaskRunState` and `uxPriority`, ready lists, `uxTopReadyPriority`, delayed, suspended and termination lists, `xYieldPendings`, `uxSchedulerSuspended`, `xPendedTicks` | create, delete, suspend, resume, set priority, delay, suspend and resume the scheduler, tick, context switch, idle loop | every other component through ready lists and `prvYieldForTask`; the port through its locks, `portYIELD`, `portYIELD_CORE` |
| Lists, `list.c` | links between items, walking index, number of items | insert at the end, insert sorted, remove, walk | tasks.c, queue.c |
| Delays and timeouts, `tasks.c` | `xTickCount`, `xNumOfOverflows`, two delayed lists, `xNextTaskUnblockTime` | `vTaskDelay`, `xTaskDelayUntil`, `xTaskIncrementTick`, `xTaskCheckForTimeOut`, `xTaskCatchUpTicks`, `xTaskAbortDelay` | the tick, event lists |
| Event lists, `tasks.c` | event list item of each task, `xPendingReadyList` | place on and remove from an event list | queues; `xTaskResumeAll` |
| Queues and semaphores, `queue.c` | ring of items, two waiting lists, `cRxLock`, `cTxLock` | send, receive, peek, reset, the ISR variants, lock and unlock | event lists, scheduler suspension |
| Mutexes, `queue.c`, `tasks.c` | holder, recursion count, `uxBasePriority`, `uxMutexesHeld` | take, give, inherit, disinherit, disinherit after a timeout | queues, ready lists |
| Notifications, `tasks.c` | `ulNotifiedValue`, `ucNotifyState` | notify, wait, take, clear, ISR variants | ready lists, delays, `xPendingReadyList` |
| Heap, `heap_1.c` | `xNextFreeByte` | `pvPortMalloc` | scheduler suspension |
| Boot and demo, `main.cpp`, `tasks.c` | number of tasks, idle task handles, `xSchedulerRunning` | `start_freertos`, `xTaskCreate`, `vTaskStartScheduler`, `prvCreateIdleTasks` | heap, ready lists |
| Byte fifo, `fifo.hpp` | two indices | write, read, reset | the application's UART code |
| Number printing, `print.cpp` | - | integers to decimal and hexadecimal digits | UART |

What is hard in it:

* Cores run the kernel at the same time.  A task takes the task lock and then the
  ISR lock; an interrupt handler takes the ISR lock only.  `uxSchedulerSuspended`
  is read under either.
* A core is asked to yield by another core and answers later.  Between the two,
  `xTaskRunState` is `taskTASK_YIELDING`, the core still executes the task, and
  further requests, ticks, suspensions and deletions may reach it.
* `prvCheckForRunStateChange` gives locks and the suspension back in the middle of
  `vTaskSuspendAll` or `vTaskEnterCritical`, lets the task be switched out, and
  takes them again.
* A task may suspend or delete itself and still executes until its next switch.
* Counters wrap or are narrow: the tick count, queue locks of eight bits.
* Blocking calls check, leave the critical section and block: events, timeouts
  and resets come in between.
* A list has one index, which the scheduler and functions that look for tasks move.
* A lent priority has to be taken back, whichever way the wait for the mutex ended.

What makes each component correct: the scheduler keeps one core for each running
task, loses no yield, runs the highest priorities, frees no task in use, and is
suspended by one task at a time; lists stay rings, sorted where they are;
a delayed task wakes at its time across the wrap of the tick count; a
queue hands over every item once and in order and leaves no waiter asleep that it
could serve; an inherited priority lasts as long as a waiter needs it; a
notification is not lost; memory has one owner; a scheduler that runs has an idle task
for each core; the fifo hands over every item once.

## 2. Modules

| module | what it is |
|---|---|
| `SmpKernel` | the scheduler core: cores, locks, yields, task states |
| `Ticks` | the tick count, delays and timeouts |
| `SleepClock` | abstract: a clock that never wraps, on which tasks sleep; `Ticks` implements it |
| `EventLists` | the waiting lists of queues and mutexes, as sequences in the order of urgency |
| `Queue` | a queue, counting semaphore or mailbox with its waiting tasks and locks |
| `Channel` | abstract: a bounded sequence of items; `Queue` implements it |
| `Mutex` | mutexes, recursive mutexes, priority inheritance |
| `Notify` | task notifications |
| `Lists` | `list.c` as memory with links, and how the scheduler and walks use it |
| `TaskOrder` | abstract: the orders in which ready tasks run and delayed tasks wake; `Lists` implements it |
| `Boot` | heap, creation of tasks, start of the scheduler |
| `Fifo` | the ring buffer `fifo<T>` |
| `BoundedQueue` | abstract: what a fifo promises; `Fifo` implements it |
| `MCSmpKernel`, `MCTicks`, `MCQueue`, `MCMutex`, `MCLists`, `MCData` | constants and instances for TLC |
| `SmpKernelProofs`, `TicksProofs`, `EventListTheorems`, `QueueProofs`, `MutexProofs`, `NotifyProofs`, `ListsProofs`, `DataProofs` | theorems |

How they fit together.  Each module keeps the state its questions are about and leaves
open what the others decide.  `SmpKernel` decides which task runs on which core, and
shows that one task at a time has the scheduler suspended; every other module takes
that for granted and lets any ready task run next, which allows more orders than any
choice of priorities does.  `Ticks` decides when a block time ends; in `Queue`, `Mutex` and `Notify` it may
end at any moment.  `Lists` shows that the links of list.c make rings, from which
a core gets the first task from the index on and the tick the smallest value, as `TaskOrder` has it: `SmpKernel` uses sequences,
`Ticks` sets with a smallest value, `EventLists` sorted sequences for them.  `EventLists`
is shared by `Queue` and `Mutex`.

### SmpKernel

State.  Each variable of `tasks.c` has a variable of the same name;
`uxPriority` and `xTaskRunState` are TCB fields.  The delayed list and the
suspended list are sets (the order of neither decides anything here); ready lists
and the termination list are sequences.  A ready list starts with the task its
index would give next: `prvSelectHighestPriorityTask` starts at the head and moves
the chosen task to the end.  Four variables stand for the port and for the places
where the code can be interleaved:

| variable | stands for |
|---|---|
| `taskLock`, `isrLock` | the port locks, and who holds them |
| `yieldIRQ[c]` | an interrupt that `portYIELD_CORE(c)` raised and core c has not taken |
| `isr[c]` | the interrupt handler that core c is in |
| `pc[t]` | where task t stands in the kernel: outside, at the end of a critical section, in the steps of `vTaskSuspendAll`, in the suspended region, in `xTaskResumeAll` |

Steps.  A critical section of a task holds both locks, so nobody else can read or
write what it changes and it is one step: taking both locks, the body, giving them
back.  What comes after it, the look at `xYieldPendings` at the end of
`vTaskExitCritical`, is a step of its own, with interrupts enabled.  A task that
finds in `vTaskEnterCritical` that it was asked to yield gives both locks back and
waits for its switch: there the step is not enabled.  `vTaskSuspendAll` and the
check of the run state behind it, the switch, each turn of the loop that
unblocks delayed tasks, the time slicing, and each part of
`xTaskResumeAll` are steps of their own, because another core can step in between, or
because they are loops.

| action | code |
|---|---|
| `vTaskSuspend`, `vTaskResume`, `vTaskDelete`, `vTaskPrioritySet`, `prvAddNewTaskToReadyList` | the functions of these names, called by the task on core c |
| `vTaskExitCritical`, `vTaskYieldWithinAPI`, `taskYIELD`, `prvIdleTask` | the places where a task yields |
| `YieldInterrupt`, `vTaskSwitchContext` with `prvSelectHighestPriorityTask` | a core takes the yield interrupt, gets both locks, and switches |
| `vTaskSuspendAll`, `prvCheckForRunStateChange`, `Reacquire` | suspending the scheduler, giving the suspension back, taking it again |
| `prvAddCurrentTaskToDelayedList` | `vTaskDelay` inside its suspended region |
| `xTaskResumeAll`, `SliceTime` and `UnblockTask` in it, `ResumeAllDone` | resuming the scheduler, with the pended ticks |
| `TickInterrupt`, `PendTick`, `UnblockTask`, `SliceTime` | the timer interrupt and `xTaskIncrementTick` |
| `prvCheckTasksWaitingTermination` | the idle task of core 0 frees a deleted task |

Abstractions.  A delayed task may be woken by any tick, so every order of wake-ups
is covered and the tick count is not kept (`Ticks` keeps it).  Which kernel functions
each task calls, on which tasks and with which priorities, is any choice from
`UsedAPI`.  Left out: core affinity, preemption disabling, `xTaskResumeFromISR`
(`Notify` has it), event lists, mutexes.

What the port has to do, and the model assumes: a lock is held by one core; the
yield interrupt is taken when the core has interrupts enabled; `portYIELD` of a
core in its own code enters `vTaskSwitchContext` at once.

### Ticks and SleepClock

`SmpKernel` answers on which core a task runs and forgets when it wakes; `Ticks`
answers when it wakes and forgets cores and priorities: a ready task may run at any
time, one task at a time has the scheduler suspended, and ticks and events come from
interrupts.

State.  The variables of `tasks.c` have their names.  `TickType` is
`0 .. portMAX_DELAY`, and all sums and differences of tick values wrap (`Wrap`, `Minus`).
The two delayed lists are sets: `xItemValue` gives their order, and the code only ever
looks at the head, which is a smallest value (`IsHeadValue`).  The item value of a task
on no delayed list is kept at 0, since nothing reads it there.  `xTicksToWait` and
`xTimeOut` are locals of `xQueueReceive`, `pxPreviousWakeTime` is the variable a periodic
task passes to `xTaskDelayUntil`, `xPended` is the value `xTaskCatchUpTicks` has read.
`xNumOfOverflows` is not bounded: the code only compares it for equality, and its 32
bits outlast the bounds on lateness below.

Four history variables are read by properties alone: `xAsked` (the tick, on a
clock without wrap, at which the blocking call is to end), `xPreviousAsked` (the same
for `pxPreviousWakeTime`), `xAbortedWaits` (tasks whose wait somebody aborted) and
`xTicksRaised` (ticks raised so far).

Steps.  `step` tells where the task that has the scheduler suspended stands, so that
ticks (pended) and events (to `xPendingReadyList`) can come at each place where
the code leaves interrupts enabled:

| action | code |
|---|---|
| `xTaskIncrementTick`, `CountTick` | the tick: pended while suspended, otherwise counted, with `taskSWITCH_DELAYED_LISTS`, the unblock time and the loop over expired tasks |
| `vTaskSuspendAll`, `xTaskResumeAll`, `CountPendedTick`, `ResumeAllDone` | the suspended region; resuming readies the pending tasks, then counts the pended ticks one by one |
| `vTaskDelay`, `xTaskDelayUntil` | the body of these functions inside the region |
| `xQueueReceive`, `LeaveReceive` | the critical section of a timed receive: start and capture of the time, or leave with an item or without |
| `CheckTimedOut`, `CheckAndBlock` | `xTaskCheckForTimeOut` inside the region and what `xQueueReceive` does with its answer; whether the queue is still empty is open |
| `xTaskRemoveFromEventList` | an event, from an interrupt or a task |
| `xTaskAbortDelay`, `FinishAbort` | off the state list; then, in a critical section, off the event list, and ready |
| `vTaskSuspend`, `vTaskResume` | of a task that sleeps or waits |
| `xTaskCatchUpTicks`, `FinishCatchUp` | the read and the write of `xPendedTicks += n` |

`SleepClock` has a natural number `now` and for each task the number at which
it wakes; `Advance` wakes exactly the tasks whose number has come.  `Ticks` maps
to it by `Now = xNumOfOverflows * 2^w + xTickCount` and, for a task on the current (overflow)
list, its item value in the current (next) turn.

### Queue, Channel and EventLists

State.  A slot of the ring is its index; `pcReadFrom` stands on the slot last read, as in
the code, and `Ahead` and `Behind` are the wrapping of the two pointers.  With
`uxItemSize` 0 the queue is a semaphore and nothing is copied.  The waiting lists are
sequences ordered by priority, equal priorities in order of arrival (`vListInsert` of
`EventLists`).  `xReadyTasks` and `xPendingReadyList` are sets.  `pc` says where a task
stands in its blocking call, `step` where the one task stands that has the scheduler
suspended:

| `pc` | the task |
|---|---|
| idle | is in no call |
| try | is about to enter the critical section at the top of the loop; asleep, or awake again |
| suspend | has found the queue full or empty and is about to block |
| fail, recheck | has timed out: a send returns, a receive looks once more (queue.c:1442) with no time left to wait, and returns if it is overtaken again |

| `step` | next in the suspended region |
|---|---|
| lock | `prvLockQueue` |
| check | `xTaskCheckForTimeOut`, and the last look at the queue |
| place | `vTaskPlaceOnEventList` |
| unlockTx, unlockRx | the two critical sections of `prvUnlockQueue` |
| resume | `xTaskResumeAll` |

The functions for interrupts (`xQueueGenericSendFromISR`, `xQueueGiveFromISR`,
`xQueueReceiveFromISR`, `xQueuePeekFromISR`) and the tick that ends a block time may come between
any two of these steps.  While the queue is locked they leave the waiting lists
alone and count in `cTxLock` and `cRxLock`, eight signed bits that wrap as in the build,
where `configASSERT` is empty (FreeRTOS.h:267).  They rely on
`portSET_INTERRUPT_MASK_FROM_ISR` alone for their exclusion (queue.c:1021), which is empty unless the
port defines it (FreeRTOS.h:324): the model takes it to keep them out of critical
sections.  History: `delivered` is the item last handed over, `xResetLeftSenders` says
that a reset made room for several senders and woke one.

A task inside a call on the queue is not suspended, aborted or deleted: `Queue` leaves that out (and `Mutex`
likewise); `Ticks` has suspensions and aborts of a task that waits.

`Channel` is what users of a queue count on: a bounded sequence, written at either end,
read at the front, dropped by a reset.  `Queue` implements it with
`contents <- Contents`, the slots from the reader to the writer.

### Mutex

`xMutexHolder` stands for the semaphore's count as well: `NoTask` means that the mutex
can be taken.  `pc` has, besides the places of `Queue`, disinherit (timed out, about to take back what it
lent, in a critical section of its own), count (has the mutex, about to count a
recursive take) and give (has counted the last recursive give, about to give).
A take that has timed out has no time left (`xTicksToWait` "no"): it looks once more when the
mutex is free, and if it is overtaken there it returns and lends nothing.
Interrupts do not use mutexes and no other task runs inside a suspended region, so the
region of a take (`BlockOnMutex`: time check, last look, inheritance, block) is one
step.  `xItemPriority` is the value of the event list item, which follows the priority but does
not move the task in the waiting list.  The application takes no plain mutex it
holds, and only the holder gives it.  History: `disturbed` collects the mutexes to which the
inheritance of this kernel does not apply, as told under "What inheritance
promises".

### Notify

For each task and index a value and a state; `stateList` says on which list the task's
state list item is, `xPendingReadyList` where its event list item may be, `aborting` is the task an
`xTaskAbortDelay` has taken off its list and not yet readied.  A waiting call has
two critical sections, `ulTaskGenericNotifyTake` and `TakeNotification`, or
`xTaskGenericNotifyWait` and `ReadNotification`; between them the task may sleep, be
woken by a notification of a task or an interrupt, time out, be suspended, resumed
and aborted.  `UsedActions` says how each index is used: one counts and carries bits, one
(`MailIndex`) carries values sent without overwriting.  `mail` is history: the value sent and not yet read.
`ResumesBlocked` says whether `xTaskResumeFromISR` may be called on a task that was not
suspended, which the kernel does not tell from one that waits for ever
(observations below).

### Lists

`mem` is a record of the fields of items and lists (`pxNext`, `pxPrevious`, `pxContainer`,
`xItemValue`, `pxIndex`, `uxNumberOfItems`); a list stands for its own end marker.
The functions of list.c are functions from memory to memory.  Actions are what the
scheduler does with a ready and a delayed list: a core selects
(`prvSelectHighestPriorityTask`: a scan from `pxIndex`, then the chosen item goes
to the end), blocks its task, a task is unblocked at the head or out of turn,
added, dropped, or looked for by `xTaskGetHandle` and `uxTaskGetSystemState`, whose
walks leave the index on an item.  `BlockCurrent` is `vTaskDelay` with the switch that follows: the suspended region
(tasks.c:1855) moves the item to the delayed list and the core switches at its end; the model
takes both in one step, so no walk or insertion comes between them.

`TaskOrder` has no links: `turns` is the sequence of ready items from the one the
next selection looks at first, `wakes` the delayed items with their wake times.  `Lists` maps to it by
following the links, from the index of the ready list (`TurnsIn`) and from the end
marker of the delayed list (`WakesIn`).  Turns are kept as list.c keeps them: the end marker has its place and
is passed over, a walk rotates them, and when the next one leaves out of turn the
last one comes to the front, since `pxIndex` steps back.

### Boot

Addresses are numbers; `size_t` has `SizeRange` values, and every sum wraps.
`pvPortMalloc` is two steps (the request, decided when the scheduler is suspended, and
`TakeBlock`); `xTaskCreate` is made of its stack, its TCB, and the insertion in the
ready list, and other tasks may ask for memory in between once the scheduler runs.  Main creates and
deletes tasks, starts the scheduler, and `prvCreateIdleTasks` creates one idle task for each core;
`TakesCores` is the search for a core without a task in `prvAddNewTaskToReadyList`.
`blocks` and `deleted` are history.  `BootAssumption` says that a first stack frame is
a whole number of alignments, as with `StackType_t` of four bytes and an alignment of four:
`pxPortInitialiseStack` gets an aligned top of stack and subtracts the frame.

### Fifo and BoundedQueue

`fifo<T>` takes no lock and main.cpp uses it from one function only, so a method is one
action.  `BoundedQueue` says what it promises: it takes the first items of a batch that fit
and gives the oldest back.  A memory of size n holds n - 1 items.  A size of 0, which no
caller uses, would leave the counts undefined.

## 3. Checks

| run | properties | what it shows |
|---|---|---|
| life_cycle | `TypeOK`, `RunStateMatchesCore`, `YieldRequestIsKept`, `SuspensionIsExclusive`, `FreedTaskIsOffCore`, `SwitchFindsTask` | while tasks make, delete and yield to each other, delay and suspend the scheduler, run states and cores agree, no yield request is lost, one task at most has the scheduler suspended and keeps its core, no TCB is freed while a core uses it, a switch always finds a task |
| priorities | `ReadyTasksAreFound`, `HighestPrioritiesRun` | under suspends, resumes and priority changes the lists and `uxTopReadyPriority` never hide a ready task, and a waiting task outranks a settled one only while some core is about to switch |
| one_priority | `OnePriorityRuns` | with `configRUN_MULTIPLE_PRIORITIES` 0 tasks of two priorities do not go on running together |
| round_robin | `EveryTaskRuns` (liveness) | three tasks of one priority share two cores for ever |
| yield_served | `YieldRequestIsServed` (liveness) | a core that was asked to yield switches, although tasks keep suspending the scheduler |
| delays | `TypeOK`, `SleepsUntilAsked`, `EveryTickIsCounted`, `TimesOutInTime`, `TimesOutAtLast`, `DelaysIfAhead` | delays and timed waits end at their tick through every wrap and every interruption, `xTaskDelayUntil` delays exactly when its next wake time is ahead, no tick is lost |
| interference | `UnblockTimeIsNotLate`, `EventItemIsFree`, `SleepsOnClock` | aborts, suspensions, events and caught-up ticks in the middle of waits leave no list, unblock time or event item behind, and `SleepClock` is implemented |
| queue | `NoReceiverIsForgotten`, `NoSenderIsForgotten`, `SleepersAreOnOneList`, `IsChannel` | nobody sleeps beside an item or room that nobody else comes for, every task is on one list, and the ring implements `Channel` |
| mutex | `HeldCountMatches`, `CountedWhileHeld`, `NoInheritanceLeft`, `NoWaiterIsForgotten`, `InheritsFromWaiters` | counts and holders agree, a free mutex has an awake waiter, priorities are inherited from waiters and given up again |
| data | boot: `MemoryIsDisjoint`, `StartsWithIdleTasks`, `NoTaskIsDropped`; fifo: `IsQueue`; lists: `ListsAreRings`, `ListsKeepOrder`, `EachTakesTurns` (liveness); notifications: `SleepsUnnotified`, `WaitingIsCurrent`, `MailIsKept`, `NotifiedReturns` (liveness) | no byte has two owners and every core has an idle task when the scheduler starts; the fifo implements `BoundedQueue`; lists stay rings, implement `TaskOrder` and give turns; no task sleeps on a notification it has, and none is lost |
| pended_ticks | `PendedTicksHaveOwner`, violated | finding 1 |
| list_walk | `EachGetsAShare`, violated | finding 2 |

`data` holds four parts that share nothing, each behaviour being about one of them
(`subject` in `MCData`): its states are the sum of theirs, not the product.

### Bounds

`SmpKernel`: two cores (with one core no request crosses cores; with three,
the permutations of idle tasks alone make the instances too large) and two or three
application tasks, which is one more than there are cores left when one
core is busy with the kernel.  Three priorities (idle, low, high) make a task that
is lower than one running and higher than another.  `MaxPendedTicks` bounds
`xPendedTicks` at 1: a second pended tick runs the same loop once more.  Each
task calls the functions the question is about; all of them from all tasks would
multiply states without bringing new pairs of steps together.

`Ticks`: two tasks, as the properties relate a task to the clock, and to
one other that interferes with it or shares its list.  The tick count has two bits, three in
`delays`, where a period, a lateness and a wrap must fit side by side.  `LastTick` ends
the runs after three turns, after two in `interference`;
`MaxPendedTicks` lets one or two ticks be pended.  `MaxLate` bounds how long after
the end of its wait a task comes to its next check or call.  It is needed:
`xTaskCheckForTimeOut` (tasks.c:4136) looks at `xNumOfOverflows` for equality only, so
two overflows look like one, and `xTaskDelayUntil` has no overflow count at all: both
can be relied on while block time plus lateness are at most one turn.  With
`MaxLate` 8 and two bits `TimesOutAtLast` fails.  With 32 bits and a tick of a
millisecond a turn takes 49 days.

`Queue`: a task that sends, a task that does both and a more urgent task that receives,
peeks and resets; lengths 1 and 2, where full, empty and partly filled, a wrap of either
pointer and two owed wake-ups occur; two different items.  `MaxInterrupts` lets interrupts post
and take twice each while the queue is locked, one more than a waiting list of the instance
needs; `queueINT8_MAX` is 2, so that the counts reach their limit and do not pass it.

`Mutex`: one task of each of three priorities, a plain and a recursive mutex (nesting
needs two), two recursive takes, timeouts for the more urgent tasks, waits without an
end for the least, whose priority is set meanwhile.

`Boot`: `size_t` of seven bits, a heap of 84 bytes with room for both idle tasks and
some others, so that every allocation of a creation fails in some behaviour; sizes 0, 5 (not
aligned) and 100, 125, 127, which overflow when rounded or added; two callers.  `Fifo`: sizes 1, 2 and 4, batches of up to three, more than fits.  `Lists`: two
cores and three tasks, so that one is always waiting; wake times 0 and 1, the latter the
value of the end marker.  `Notify`: one task, since the tasks that notify keep no
state; two indices; values of two bits.

`CHECK_DEADLOCK FALSE` stands where the system may stop: no timer runs and all
application tasks are suspended or deleted (then the idle tasks wait for ever); the bound on ticks is
reached; all tasks sleep on an empty queue that no interrupt uses any more; the boot has ended.

### What inheritance promises

`InheritsFromWaiters` is about one mutex at a time, because this kernel's
inheritance is: a priority is not passed on when the holder itself waits for a
mutex; it is kept while the holder has any other mutex (tasks.c:5066); a task
whose own priority is set while it inherits keeps the lent one, whichever is higher (tasks.c:2137).  Nor
is it lent by a waiter that was woken, found the mutex taken again by a less urgent task, and times out before
it blocks again.  `disturbed` excepts these mutexes; all other
properties of the run hold for them, too.

### What `delays` leaves out

`delays` leaves `xTaskAbortDelay` to `interference`, because the code does not keep
what `delays` checks when delays are aborted.  With it in `UsedAPI` TLC shows that
`ucDelayAborted` stays set when an aborted receive finds an item and returns
(tasks.c:4115), so that the task's next timed receive ends with no tick passed
(`TimesOutInTime`), and that `xTaskDelayUntil` (tasks.c:1788), called before its
last wake time, takes that for a wrap and does not delay (`DelaysIfAhead`).  Likewise
`xTaskCatchUpTicks`: its `xPendedTicks += n` (tasks.c:3388) is a read and a write that
a tick of another core can come between, and that tick is lost
(`EveryTickIsCounted` with `xTaskCatchUpTicks` in `UsedAPI`, two tasks, two bits and `LastTick` 10).

### Fairness

`SmpKernel`: weak fairness of the kernel's steps, since a core
does not stop between two instructions.  Strong fairness of what waits for a lock
or for interrupts (`vTaskSwitchContext`, `Reacquire`, `xTaskResumeAll`,
`YieldInterrupt`): the lock is given back again and again, and a port whose spin
lock starves a core for ever is not a port the kernel can run on.  The timer does
not stop.  The application's own calls have no fairness, except that a task inside
a suspended region comes to its `xTaskResumeAll`.

`Lists`: weak fairness of `Select`, as the tick makes each core switch again and again.
`Notify`: a suspended region ends, an abort is finished, and a task that is ready
again and again runs, which is `round_robin`'s result for tasks of one priority.  No
notification, tick or resume has fairness: `NotifiedReturns` does not count on a timeout.
The other modules state safety only; that time goes on is `SmpKernel`'s fairness of the timer.

### Findings

1. `prvCheckForRunStateChange` (tasks.c:651) takes `vTaskSuspendAll`'s suspension
   back without counting ticks pended meanwhile; they stay pended until the next
   `xTaskResumeAll`, which may never come, although the comment at tasks.c:3007
   says ticks that came during a suspension are processed when it ends.
2. A walk over a ready list (`xTaskGetHandle`, `uxTaskGetSystemState`) leaves its index on
   an item.  `prvSelectHighestPriorityTask` (tasks.c:852) starts there, and removing
   and reinserting the chosen item puts it back near the index: two tasks alternate
   and a third one of the same priority never runs, although list.c:130 says each gets a share of
   the CPU.  `EachTakesTurns` shows that without a walk each does.

Observations that no run is about:

* tasks.c:974: when the top priority drops, "all the other idle tasks" are asked to
  yield, and the core that switches asks itself, too, when it chose an idle task.  Its
  `xYieldPendings` stays set in code that never looks at it.
* tasks.c:6029: with `ResumesBlocked` TRUE, `WaitingIsCurrent` fails: a task that waits for ever
  for a notification passes for suspended, `xTaskResumeFromISR` puts it on `xPendingReadyList`, and a
  notification from an interrupt puts the same item there again.  For the same
  reason `vTaskResume` wakes a task that waits for ever.
* queue.c:287: a reset makes room for all senders and wakes one; the others sleep until
  another item is taken.
* queue.c:1135: `cTxLock` and `cRxLock` wrap after 127 posts, or takes, by interrupts while a
  queue is locked; the assertion that they do not is compiled to nothing.  The run `queue` stays at the limit;
  with `MaxInterrupts` 3, or with `queueINT8_MAX` 1, `NoReceiverIsForgotten` fails.
* queue.c:1556 asserts that no priority was lent when a take returns without time left, because "an
  adjusted timeout cannot become 0" (queue.c:1551).  It can: a waiter that lent its priority times out, finds
  the mutex free, and is overtaken before its last look.  The holder it lent to has given the mutex,
  and the priority, back by then, so nothing is left lent.
* queue.c:109: the waiting list of a queue is sorted when a task blocks.  A task
  whose priority is set or raised later keeps its place.
* tasks.c:2632: `prvCreateIdleTasks` tests for `pdFAIL`, but a failing `xTaskCreate` returns -1:
  the loop goes on, and only the last creation decides.  `StartsWithIdleTasks` holds all the same, since
  `heap_1` never gets memory back and all idle tasks need the same amount.
* When the TCB cannot be allocated the stack is lost: `heap_1` frees nothing.
* A stack of no more words than a saved context has is overrun by the first frame
  (tasks.c:1343): `FramesAreInside` is about larger ones.

## 4. Proofs

The theorems hold for every value of the constants that satisfies the assumption of the
module; each rests on an inductive invariant whose parts are named.  Every safety property
that a passing run checks has a theorem.

### SmpKernelProofs

From the assumptions on the constants in `SmpKernel` (each core has its own idle
task; the initial lists hold tasks):

* `TypeCorrect`: `TypeOK` always holds.
* `RunStateCorrect`: `RunStateMatchesCore` always holds: no task on two cores.
* `SuspensionCorrect`: `SuspensionIsExclusive` always holds.
* `FreedTaskCorrect`: `FreedTaskIsOffCore` always holds; `ReadyTasksCorrect`: `ReadyTasksAreFound` does.
* `SwitchCorrect`: `SwitchFindsTask` always holds.
* `YieldRequestCorrect`: `YieldRequestIsKept` always holds.
* `OnePriorityCorrect`: `OnePriorityRuns` always holds.
* `HighestPrioritiesCorrect`: `HighestPrioritiesRun` always holds.

The first three need one another.  That `uxSchedulerSuspended` stays below two needs
that nobody has it suspended when the task lock is free; that the owner keeps its
core needs that a switch with the lock free meets no task in a suspended region,
and `xTaskResumeAll` that the task lock is its own core's, which follows from no
task being on two cores.  `IInv` joins `CoreOK` (run states), `ListOK` (the lists
hold tasks) and `LockOK`, which adds `LocksHeld` to the suspension: a tick is
counted under the ISR lock, a task in `xTaskResumeAll` holds both locks, and a
core takes no interrupt while its task has them disabled.  `YieldKeepsMatch` is the
step all yields share, `SelectKeepsCoreAndLists` the context switch, `MoveToType`
every movement between lists, `ControlSame`, `ControlSuspend`, `ControlCheck`,
`ControlResume`, `ControlHandler` the ways control moves.

`PlaceOK` says where each task is filed: ready tasks once, on the list of their
priority at or below `uxTopReadyPriority`, idle tasks always ready, a freed task on no list and no
core.  So the selection finds a task: the loop over the priorities passes the list of the
idle tasks, and of those, one for each core, the other cores run all but one at most
(`FindsTask`, a pigeonhole argument).  That the loop stops at the highest priority with
a task it may run is the least-number principle, `LeastOne`.  `YieldOK` follows a
yield that was owed or asked for: somebody stands where it will be done or handed on.

What runs when the cores have settled is counted.  A core stays with its task when it was not asked to
switch and is not about to (`Stays`).  Every step is of one of three kinds: it makes
nobody ready or more urgent (`Quiet`), it makes one task so and asks a core for it
(`Readied`), or one core switches (`Switches`).  With one priority at a time,
each core that stays with an application task runs the top priority (`TopStays`).  With
several, for each task a core stays with, at most as many tasks that outrank it are owed a core as cores
have been asked (`RankOK`): a task that becomes ready adds one to both, or no
core that stays runs anything lower; a switch takes one off both.

### TicksProofs

For every set of tasks, every `portMAX_DELAY`, every start value
of the tick count and every set of block times, from `TicksAssumption`:

* `TypeCorrect`: `TypeOK` always holds.
* `UnblockTimeCorrect`: `UnblockTimeIsNotLate` always holds.
* `EventItemCorrect`: `EventItemIsFree` always holds.
* `ClockCorrect`: `Spec => SleepsOnClock`, the refinement of `SleepClock`.
* `EveryTickCorrect`: `EveryTickIsCounted` always holds, without `xTaskCatchUpTicks`.
* `TimesOutAtLastCorrect`: `TimesOutAtLast` always holds, without `xTaskCatchUpTicks` and under
  `LateBound`; `TimesOutInTimeCorrect`: so does `TimesOutInTime`, without `xTaskAbortDelay` as well.
* `SleepsCorrect`: `SleepsUntilAsked` always holds, and `DelayUntilCorrect`: `Spec => DelaysIfAhead`,
  without `xTaskCatchUpTicks`, under `LateBound` and when the periodic tasks, if there are any, are `Undisturbed`.

The refinement needs that a tick wakes exactly the tasks whose item value it
reaches.  Nobody is left behind because the unblock time is not late; nobody wakes early
or was passed over because the values on the current list are ahead of the tick count
(`DelayedAhead`); and a wake time means the same on both clocks because a task is on one
list at most (`ListsApart`).  These, where the task in the suspended region stands
(`RegionOK`) and the event items (`EventOK`) make up `IInv`.  `NextTick` relates the
wrapping count to the clock, `AddKeeps` and `AddSleeps` treat the block, `TickKeeps` and
`TickAdvances` the tick, `MakeReadyRouses` every early wake-up; `StepKeeps` joins them.

The hypotheses of the others are what the code needs.  `xTaskCatchUpTicks` adds to
`xPendedTicks` without the ISR lock and can lose a tick (tasks.c:3388).  `LateBound` says
that a task looks at its timeout before a turn of the count after its wait began;
later, `xTaskCheckForTimeOut` could not tell one turn from two.  An abort that comes when the item is
there already leaves `ucDelayAborted` set and ends the next wait of that task at once.  A
periodic task that is aborted or suspended misses its wake time, and with it what `SleepsUntilAsked`
says of it.  The instance of `delays` satisfies all of them.

`CountOK` accounts for each tick: counted, pended, or being moved from one to the other.
`WaitOK` says of each wait that what is left of it, from the moment it was captured, ends at the tick
that was asked for, and was captured less than a turn ago (`Turns` is the arithmetic: a difference of
less than a turn has one number of wraps).  `LookInTime` is then what `xTaskCheckForTimeOut`
decides.  `SleepOK` ties the list and the item of a sleeper to that tick, `PeriodOK` the wake time
of a periodic task to the one before.  Each is inductive with those before it.

### QueueProofs

For every set of tasks with any priorities, every length, all items and calls, from
`QueueAssumption` and under `LocksDoNotWrap` (interrupts post and take at most
`queueINT8_MAX` times while the queue is locked, what the code asserts at
queue.c:1135):

* `TypeCorrect`: `TypeOK` always holds.
* `SleepersCorrect`: `SleepersAreOnOneList` always holds.
* `ReceiversCorrect`, `SendersCorrect`: `NoReceiverIsForgotten` and `NoSenderIsForgotten` always hold.
* `ChannelCorrect`: `Spec => IsChannel`, the refinement of `Channel`.

Without `LocksDoNotWrap` they are false: a count that has wrapped is negative, and
`prvUnlockQueue` wakes nobody for it.

That no receiver is forgotten is not inductive.  When a task goes to sleep, items that
interrupts posted since its last look must be in `cTxLock`: `PlaceOK` says so between that look
and the block.  It needs that the lock counts are those of a locked queue and in
range (`LocksOK`), where the task in the suspended region stands (`RegionOK`), and that no other task looks
meanwhile.  When one is woken, the number of tasks on their way grows by one
because it was asleep, in its loop, for an item (`WaitersOK`), and on one list only
(`ListsOK`).  `ReceiversOK` and `SendersOK` are the two properties with their numbers spelled out,
`RingType`, `ListsType`, `CallType` the types.  `IInv` is the
conjunction.  `WakeReceiversEffect`, `WakeSendersEffect` say what n wake-ups do,
`PostEffect` and `CopyEffect` what a copy does to the number of items,
`ReceiversKept` and `SendersKept` do the sums; the rest is one lemma for each action.
`EventListTheorems` has the facts on `vListInsert`, `uxListRemove` and `AfterFirst` for
lists of any length.

The refinement adds that the writer stands on the slot after the last item (`RingOK`) and that a
task repeats only calls that fit the queue (`CallsFit`).  `RingBack`, `RingFront`, `RingTake`, `RingGive`,
`RingTakeSame` are the arithmetic of the ring: what writing one slot and moving one
pointer does to the sequence between them, for any length and any wrap.
`PostRefines`, `CopyRefines`, `LookRefines`, `ResetRefines`, `RestRefines` and
`InterruptRefines` map the steps.

### MutexProofs

For every set of tasks with any priorities, any mutexes, any use of block times and any
depth of recursion, from `MutexAssumption`:

* `TypeCorrect`: `TypeOK` always holds; `HeldCountCorrect`: `HeldCountMatches` does.
* `RecursionCorrect`: `CountedWhileHeld` always holds.
* `DisinheritanceCorrect`: `NoInheritanceLeft` always holds.
* `WakeUpCorrect`: `NoWaiterIsForgotten` always holds.
* `InheritanceCorrect`: `InheritsFromWaiters` always holds.

The first five need one another.  That a recursive count stays in range needs that a
holder has a count unless it is about to count, which needs that only a holder is there
(`CallsOK`).  That a task without mutexes has its own priority needs that whoever is raised
or lowered holds one, which the count says.  That the woken task is awake needs that it was
on one list and there once (`ListsOK`).  With the types these make up `IInv`; `HeldTaken`
and `HeldGiven` are the sizes of the sets of mutexes held, `InheritEffect`, `TimeoutEffect` and
`DisinheritEffect` what happens to priorities.

The inheritance has an invariant of its own, `UInv`.  Who sleeps, or is about to, has time
left to wait (`TicksOK`), so that a take at its last look is not counted among those that lend.  A mutex that is used on its
own (`UsedAlone`) has waiters without mutexes, so that their list items say the priorities
they have (`ItemsOK`), a holder without another, and a list in order: then the head
`vTaskPriorityDisinheritAfterTimeout` looks at is the most urgent.  While the mutex is free the task
that was woken is as urgent as those that sleep (`WokenIsUrgent`), so that whoever takes the
mutex has it behind it or is that task.  `GoesOn` says what the steps have in common that
leave the holder: who comes or leaves is covered by the priority of the holder; `UrgentGoesOn` is
the argument, and the lemmas `Urgent...` show it of each action.  Only the step that takes the mutex and the one
that gives it are different.  That `vListInsert` keeps the order for lists of any length is
`InsertOrdered` of `EventListTheorems`.

### NotifyProofs

For every set of tasks, any number of notifications in each and any use of
them, from `NotifyAssumption`:

* `SleepersCorrect`: `SleepsUnnotified` always holds.
* `WaitingCorrect`: `WaitingIsCurrent` always holds if interrupts resume only tasks that are
  suspended (`~ResumesBlocked`); otherwise see the observation at tasks.c:6029 above.
* `MailCorrect`: `MailIsKept` always holds.

`SleepsUnnotified` is inductive together with the shape of the variables (`Shape`) and what
a call is about (`CallsOK`): each notification moves the state to `RECEIVED` and the task off its list in
one critical section, or puts it on the pending ready list.  `WaitingIsCurrent` needs in addition what the pending ready list
holds (`PendingOK`) and for which call a task is marked (`MarkedRightly`).  `MailIsKept` needs that only
`eSetValueWithoutOverwrite` is used on the mail index, which `NotifyAssumption` states.  `Untouched`
is a step that leaves a task alone.  `Shape` has the types but for the range of the values: `Or`
chooses a number by its bits, and the provers know nothing of powers.

### ListsProofs

For every set of items and cores, every range of values and any walks, from
`ListsAssumption`:

* `ListsTypeCorrect`: `LTypeOK` always holds.
* `RingsCorrect`: `ListsAreRings` always holds.
* `DelayedListCorrect`: `DelayedListAscends` always holds.
* `OrderKept`: `ListsSpec => ListsKeepOrder`, the refinement of `TaskOrder`.

The invariant `LInv` says of each list that its nodes can be numbered from the end marker on
such that both links agree with the numbers (`Chain`), that exactly its items have it
for their container (`Holds`), that the count is theirs and the index is one of its nodes; of the delayed list
that values ascend with the numbers (`Sorted`); and of the cores that they run different items of the
ready list (`CurrentOK`).  `ChainInsert` and `ChainRemove` renumber a ring when two links
change, `ChainElsewhere` leaves the others alone.  `LinkKeeps` and `RemoveKeeps` lift
them to a memory with all its lists, `InsertEndKeeps` and `InsertKeeps` to the two functions;
`InsertsInOrder` is the search of `vListInsert`, which finds a place by the least-number
principle.  That `From`, which follows the links, visits the nodes in the order of their numbers is
`FromIsTurned`, from whichever node it starts: the first number where the two differ would have one
before it where they agree.  So the selection takes an item that is on the ready list, wherever a walk
left the index.

The refinement says what each change of the links does to the two sequences.  With the nodes
numbered, the turns are the ring read from the number of the index on (`TurnsOf`) and the
wakes the ring of the delayed list with its values (`WakesOf`), so that
`TurnAtEnd`, `TurnGone`, `TurnsRotate`, `WakeCome` and `WakeGone` are about
renumbering alone.  `EndInserted`, `TurnRemoved`, `WakeRemoved`, `WakeInserted` and `IndexRotates` lift them
to the functions of list.c; each also leaves the other sequence as it was, since the lists
are apart.  `SelectFromTakesTurn` is the selection: the first node in turn that is an item no
other core runs is the one the loop stops at.

### DataProofs

About `Boot`, for every number of cores, every heap, width of `size_t`, alignment, frame
and TCB size and every set of callers, from `BootAssumption`:

* `MemoryCorrect`: `MemoryIsDisjoint` always holds.
* `ReadyTasksCorrect`: `NoTaskIsDropped` always holds.
* `IdleTasksCorrect`: `StartsWithIdleTasks` always holds.

The first two come from `HInv`: the blocks lie below `xNextFreeByte` and apart
(`BlockOK`, `BlocksAreDisjoint`), who is in the suspended region has its block at the top or found
no room, who goes on has the stack it got before (`RequestOK`), and no two tasks
are about to add the same TCB (`AddsDiffer`), so that the count of tasks grows with each.  `RoundedUp` and
`FitsInside` are the arithmetic: rounding up gives an aligned size that is no smaller, or 0 where
it would wrap, and the comparison that guards the end of the heap is true for no sum that
wraps.  The third adds `SInv`: before the start only main allocates, and what
one idle task did not get the next ones do not get either (`NoRoomStays`), because all ask for the same
and nothing is freed.  So a last creation that succeeds had all others succeed before it.

About `Fifo`, for all sizes and batches, from `FifoAssumption`:

* `QueueCorrect`: `FifoSpec => IsQueue`, the refinement of `BoundedQueue`.

`RingWrite` and `RingRead` are about the ring with two indices, for n items at once: where
they go, that none lands on an unread one, and what is unread afterwards; `Joined` and `Cut`
turn this into sequences.

### Only model-checked

* Liveness: `EveryTaskRuns`, `YieldRequestIsServed`, `EachTakesTurns`, `NotifiedReturns`.  It is
  out of the prover's reach like everything about ENABLED.
* The two properties that the code does not have, `PendedTicksHaveOwner` and `EachGetsAShare`.

Where an induction over numbers is needed, it is made by the least-number principle, which follows from
`NatLessThanWellFounded` without an operator as parameter; a recursive function is a CHOOSE among the
functions that satisfy its equation, so a witness of the equation gives its values.

## 5. Plan

Done: the modules of section 2 and the theorems of section 4.  Next:

1. A ready list for each priority in `Lists`, so that `TaskOrder` can stand for the sequences
   of `SmpKernel`.
2. Queues and mutexes used by several tasks on the lists and cores of `SmpKernel`.

Not modelled, and why: device I/O of `main.cpp` and `std_system.cpp`; number printing
(fixed conversions without state); trace and statistics functions, stack overflow checks, run time counters
and thread local storage (they keep no state the kernel acts on); software timers, stream
buffers and event groups with their unordered event lists (headers only); queue sets, co-routines and
static allocation (off in the configuration); the queue registry (stores names); core
affinity and preemption disabling (off); `port.c`, the older port, of which the
makefile builds nothing; the C++ fragment in `freertos.cpp` that it does not build either.
