-------------------------------- MODULE Mutex --------------------------------
(***************************************************************************)
(* Mutexes and priority inheritance: the mutex parts of                    *)
(* src/src/freertos/queue.c, and xTaskPriorityInherit and the two ways to  *)
(* disinherit of src/src/freertos/tasks.c.                                 *)
(*                                                                         *)
(* Interrupts do not use mutexes, so nothing comes between vTaskSuspendAll *)
(* and xTaskResumeAll here and the suspended region of a take is one step; *)
(* module Queue has its parts.  Which ready task runs is module            *)
(* SmpKernel's: here any of them may, so a task of low priority can take a *)
(* mutex before the waiter that was woken for it.                          *)
(***************************************************************************)
EXTENDS EventLists

CONSTANTS
  Tasks, NoTask,
  Mutexes,
  RecursiveMutexes,            \* taken with xQueueTakeMutexRecursive
  configMAX_PRIORITIES,
  InitPriority,                \* [Tasks -> Priorities]
  UsedWaits,                   \* [Tasks -> SUBSET Waits], the block times used
  MayBeSet,                    \* the tasks vTaskPrioritySet is called on
  MaxDepth                     \* bound: of recursive takes

Priorities == 0 .. configMAX_PRIORITIES - 1
Waits == {"no", "timed", "forever"}                          \* xTicksToWait

ASSUME MutexAssumption ==
  /\ NoTask \notin Tasks /\ IsFiniteSet(Tasks)
  /\ IsFiniteSet(Mutexes) /\ Mutexes # {}
  /\ RecursiveMutexes \subseteq Mutexes
  /\ configMAX_PRIORITIES \in Nat \ {0}
  /\ InitPriority \in [Tasks -> Priorities]
  /\ UsedWaits \in [Tasks -> SUBSET Waits]
  /\ MayBeSet \subseteq Tasks
  /\ MaxDepth \in Nat \ {0}

VARIABLES
  xMutexHolder,                \* NoTask: the mutex is free, its count is 1
  uxRecursiveCallCount,
  xTasksWaitingToReceive,
  uxPriority, uxBasePriority,
  uxMutexesHeld,
  xItemPriority,               \* the priority in a task's event list item
  pc, xSemaphore, xTicksToWait,  \* where a task stands, the mutex, its block time
  xInheritanceOccurred,        \* local of that take
  expired,                     \* tasks whose block time is over
  \* History, never read by the code:
  disturbed                    \* mutexes used by a task along with another, by
                               \* one whose priority was set meanwhile, or left
                               \* by one more urgent than the holder

mutexVars == <<xMutexHolder, uxRecursiveCallCount>>
prioVars == <<uxPriority, uxBasePriority, xItemPriority>>
takeVars == <<pc, xSemaphore, xTicksToWait, xInheritanceOccurred, expired>>
vars == <<mutexVars, xTasksWaitingToReceive, prioVars, uxMutexesHeld, takeVars,
          disturbed>>

\* pc: idle (outside the calls), try (about to enter the critical section at the
\* top of the loop of xQueueSemaphoreTake), suspend (found the mutex taken),
\* recheck (timed out), disinherit (about to take back the priority it lent),
\* count (has the mutex, about to count a recursive take), give (has counted
\* the last recursive give, about to give the mutex).
Places == {"idle", "try", "suspend", "recheck", "disinherit", "count", "give"}

-----------------------------------------------------------------------------
(* Helpers.                                                                *)

prvIsQueueEmpty(m) == xMutexHolder[m] # NoTask
WaitersFor(m) == Waiters(xTasksWaitingToReceive[m])
Blocked(t) == \E m \in Mutexes : t \in WaitersFor(m)
Runs(t, place) == pc[t] = place /\ ~Blocked(t)
GoTo(t, place) == pc' = [pc EXCEPT ![t] = place]

\* The take of t ends, with or without the mutex.
Return(t, place) ==
  /\ GoTo(t, place)
  /\ xTicksToWait' = [xTicksToWait EXCEPT ![t] = "no"]
  /\ xInheritanceOccurred' = [xInheritanceOccurred EXCEPT ![t] = FALSE]
  /\ expired' = expired \ {t}

\* Nothing of the take changes but its place.
Waiting == UNCHANGED <<xTicksToWait, xInheritanceOccurred, expired, disturbed>>

Greater(p, q) == IF p < q THEN q ELSE p

-----------------------------------------------------------------------------
(* Priority inheritance, in tasks.c.                                       *)

\* The holder h gets the priority of t, which is about to wait for it.  It
\* also counts as inherited when another waiter has raised h above t before.
xTaskPriorityInherit(h, t) ==
  LET raised == uxPriority[h] < uxPriority[t] IN
  /\ uxPriority' = IF raised THEN [uxPriority EXCEPT ![h] = uxPriority[t]]
                   ELSE uxPriority
  /\ xItemPriority' = IF raised THEN [xItemPriority EXCEPT ![h] = uxPriority[t]]
                      ELSE xItemPriority
  /\ xInheritanceOccurred' =
       [xInheritanceOccurred EXCEPT ![t] = raised \/ uxBasePriority[h] < uxPriority[t]]

DisinheritIfRaised(t) ==                                       \* mutant
  /\ uxMutexesHeld' = IF uxPriority[t] # uxBasePriority[t]
                      THEN [uxMutexesHeld EXCEPT ![t] = @ - 1] ELSE uxMutexesHeld
  /\ uxPriority' = [uxPriority EXCEPT ![t] = uxBasePriority[t]]
  /\ xItemPriority' = [xItemPriority EXCEPT ![t] = uxBasePriority[t]]

DisinheritBeforeCounting(t) ==                                 \* mutant
  LET last == uxMutexesHeld[t] = 0 /\ uxPriority[t] # uxBasePriority[t] IN
  /\ uxMutexesHeld' = [uxMutexesHeld EXCEPT ![t] = @ - 1]
  /\ uxPriority' = IF last THEN [uxPriority EXCEPT ![t] = uxBasePriority[t]]
                   ELSE uxPriority
  /\ xItemPriority' = IF last THEN [xItemPriority EXCEPT ![t] = uxBasePriority[t]]
                      ELSE xItemPriority

\* The holder t gives a mutex back; it keeps an inherited priority while it
\* holds others.
xTaskPriorityDisinherit(t) ==
  LET last == uxMutexesHeld[t] = 1 /\ uxPriority[t] # uxBasePriority[t] IN
  /\ uxMutexesHeld' = [uxMutexesHeld EXCEPT ![t] = @ - 1]
  /\ uxPriority' = IF last THEN [uxPriority EXCEPT ![t] = uxBasePriority[t]]
                   ELSE uxPriority
  /\ xItemPriority' = IF last THEN [xItemPriority EXCEPT ![t] = uxBasePriority[t]]
                      ELSE xItemPriority

\* What the list item at the head says.
prvGetDisinheritPriorityAfterTimeout(m) ==
  IF xTasksWaitingToReceive[m] = <<>> THEN 0
  ELSE xItemPriority[Head(xTasksWaitingToReceive[m])]

DisinheritToBase(h, waiting) ==                                \* mutant
  IF h # NoTask /\ uxPriority[h] # uxBasePriority[h] /\ uxMutexesHeld[h] = 1
  THEN /\ uxPriority' = [uxPriority EXCEPT ![h] = uxBasePriority[h]]
       /\ xItemPriority' = [xItemPriority EXCEPT ![h] = uxBasePriority[h]]
  ELSE UNCHANGED <<uxPriority, xItemPriority>>

\* A waiter has timed out: the holder h falls, if it holds no other mutex, to
\* the most urgent of the waiters that stay.
vTaskPriorityDisinheritAfterTimeout(h, waiting) ==
  LET use == Greater(uxBasePriority[h], waiting) IN
  IF h # NoTask /\ uxPriority[h] # use /\ uxMutexesHeld[h] = 1
  THEN /\ uxPriority' = [uxPriority EXCEPT ![h] = use]
       /\ xItemPriority' = [xItemPriority EXCEPT ![h] = use]
  ELSE UNCHANGED <<uxPriority, xItemPriority>>

-----------------------------------------------------------------------------
(* Taking a mutex.  The application does not take a mutex it holds, unless  *)
(* it is recursive.                                                        *)

TakesOf(t) ==
  IF pc[t] = "try" THEN {<<xSemaphore[t], xTicksToWait[t]>>}
  ELSE {m \in Mutexes : xMutexHolder[m] # t} \X UsedWaits[t]

\* History.
UsedBy(t) ==
  {m \in Mutexes : xMutexHolder[m] = t \/ (pc[t] # "idle" /\ xSemaphore[t] = m)}
NoteNesting(t, m) ==
  disturbed' = IF uxMutexesHeld[t] = 0 THEN disturbed
               ELSE disturbed \cup UsedBy(t) \cup {m}

\* The critical section at the top of its loop; pvTaskIncrementMutexHeldCount
\* makes the caller the holder.  A take that may not wait fails, and so does one
\* that has timed out, looked once more, and been overtaken.
xQueueSemaphoreTake(t) ==
  /\ Runs(t, "idle") \/ Runs(t, "try")
  /\ \E take \in TakesOf(t) :
       LET m == take[1] IN
       \/ /\ ~prvIsQueueEmpty(m)
          /\ xMutexHolder' = [xMutexHolder EXCEPT ![m] = t]
          /\ uxMutexesHeld' = [uxMutexesHeld EXCEPT ![t] = @ + 1]
          /\ xSemaphore' = [xSemaphore EXCEPT ![t] = m]
          /\ Return(t, IF m \in RecursiveMutexes THEN "count" ELSE "idle")
          /\ NoteNesting(t, m)
       \/ /\ prvIsQueueEmpty(m) /\ take[2] = "no"
          /\ Return(t, "idle")
          /\ UNCHANGED <<xMutexHolder, uxMutexesHeld, xSemaphore, disturbed>>
       \/ /\ prvIsQueueEmpty(m) /\ take[2] # "no"
          /\ xSemaphore' = [xSemaphore EXCEPT ![t] = m]
          /\ xTicksToWait' = [xTicksToWait EXCEPT ![t] = take[2]]
          /\ GoTo(t, "suspend")
          /\ NoteNesting(t, m)
          /\ UNCHANGED <<xMutexHolder, uxMutexesHeld, xInheritanceOccurred, expired>>
  /\ UNCHANGED <<uxRecursiveCallCount, xTasksWaitingToReceive, prioVars>>

\* vTaskPlaceOnEventList.
PlaceOnEventList(t, m) ==
  xTasksWaitingToReceive' =
    [xTasksWaitingToReceive EXCEPT ![m] = vListInsert(@, t, xItemPriority)]

BlockUnlooked(t) ==                                            \* mutant
  LET m == xSemaphore[t] IN
  /\ Runs(t, "suspend")
  /\ GoTo(t, IF t \in expired THEN "recheck" ELSE "try")
  /\ xTicksToWait' = IF t \in expired THEN [xTicksToWait EXCEPT ![t] = "no"]
                     ELSE xTicksToWait
  /\ IF t \notin expired
     THEN PlaceOnEventList(t, m)
     ELSE UNCHANGED xTasksWaitingToReceive
  /\ UNCHANGED <<mutexVars, prioVars, uxMutexesHeld, xSemaphore,
                 xInheritanceOccurred, expired, disturbed>>

\* The suspended region: the time check, the last look at the mutex, the
\* inheritance and the block.
BlockOnMutex(t) ==
  LET m == xSemaphore[t] IN
  /\ Runs(t, "suspend")
  /\ GoTo(t, IF t \in expired THEN "recheck" ELSE "try")
  /\ xTicksToWait' = IF t \in expired THEN [xTicksToWait EXCEPT ![t] = "no"]
                     ELSE xTicksToWait
  /\ IF t \notin expired /\ prvIsQueueEmpty(m)
     THEN /\ xTaskPriorityInherit(xMutexHolder[m], t)
          /\ PlaceOnEventList(t, m)
     ELSE UNCHANGED <<uxPriority, xItemPriority, xInheritanceOccurred,
                      xTasksWaitingToReceive>>
  /\ UNCHANGED <<mutexVars, uxBasePriority, uxMutexesHeld, xSemaphore,
                 expired, disturbed>>

\* History: t, overtaken by a less urgent task, leaves and has lent it nothing.
NoteOvertaken(t, m) ==
  disturbed' = IF uxPriority[xMutexHolder[m]] < uxPriority[t] THEN disturbed \cup {m}
               ELSE disturbed

\* Timed out: if the mutex is free by now it is tried once more.
RecheckEmpty(t) ==
  LET m == xSemaphore[t] IN
  /\ Runs(t, "recheck")
  /\ \/ /\ ~prvIsQueueEmpty(m)
        /\ GoTo(t, "try") /\ Waiting
     \/ /\ prvIsQueueEmpty(m) /\ xInheritanceOccurred[t]
        /\ GoTo(t, "disinherit") /\ Waiting
     \/ /\ prvIsQueueEmpty(m) /\ ~xInheritanceOccurred[t]
        /\ NoteOvertaken(t, m) /\ Return(t, "idle")
  /\ UNCHANGED <<mutexVars, xTasksWaitingToReceive, prioVars, uxMutexesHeld, xSemaphore>>

\* In a critical section of its own: the mutex may have another holder by now,
\* or none.
DisinheritAfterTimeout(t) ==
  LET m == xSemaphore[t] IN
  /\ Runs(t, "disinherit")
  /\ vTaskPriorityDisinheritAfterTimeout(xMutexHolder[m],
                                         prvGetDisinheritPriorityAfterTimeout(m))
  /\ Return(t, "idle")
  /\ UNCHANGED <<mutexVars, xTasksWaitingToReceive, uxBasePriority, uxMutexesHeld,
                 xSemaphore, disturbed>>

\* The tick at which the block time of t is over.
xTaskIncrementTick(t) ==
  /\ xTicksToWait[t] = "timed" /\ t \notin expired
  /\ expired' = expired \cup {t}
  /\ xTasksWaitingToReceive' =
       [m \in Mutexes |-> uxListRemove(xTasksWaitingToReceive[m], t)]
  /\ UNCHANGED <<mutexVars, prioVars, uxMutexesHeld, pc, xSemaphore, xTicksToWait,
                 xInheritanceOccurred, disturbed>>

\* Bound: MaxDepth takes of a recursive mutex.
xQueueTakeMutexRecursive(t) ==
  /\ \E m \in RecursiveMutexes :
       /\ xMutexHolder[m] = t
       /\ \/ Runs(t, "count") /\ m = xSemaphore[t]
          \/ Runs(t, "idle") /\ uxRecursiveCallCount[m] < MaxDepth
       /\ uxRecursiveCallCount' = [uxRecursiveCallCount EXCEPT ![m] = @ + 1]
  /\ GoTo(t, "idle")
  /\ UNCHANGED <<xMutexHolder, xTasksWaitingToReceive, prioVars, uxMutexesHeld,
                 xSemaphore, xTicksToWait, xInheritanceOccurred, expired, disturbed>>

-----------------------------------------------------------------------------
(* Giving a mutex back.                                                    *)

\* Of a mutex, by its holder: prvCopyDataToQueue, and the wake-up of a waiter.
xQueueGenericSend(t) ==
  /\ \E m \in Mutexes :
       /\ xMutexHolder[m] = t
       /\ \/ Runs(t, "idle") /\ m \notin RecursiveMutexes
          \/ Runs(t, "give") /\ m = xSemaphore[t]
       /\ xMutexHolder' = [xMutexHolder EXCEPT ![m] = NoTask]
       /\ xTasksWaitingToReceive' =
            [xTasksWaitingToReceive EXCEPT
               ![m] = IF @ = <<>> THEN @ ELSE AfterFirst(@, 1)]
  /\ xTaskPriorityDisinherit(t)
  /\ GoTo(t, "idle")
  /\ UNCHANGED <<uxRecursiveCallCount, uxBasePriority, xSemaphore, xTicksToWait,
                 xInheritanceOccurred, expired, disturbed>>

GiveAtOnce(t) ==                                               \* mutant
  /\ Runs(t, "idle")
  /\ \E m \in RecursiveMutexes :
       /\ xMutexHolder[m] = t
       /\ uxRecursiveCallCount' = [uxRecursiveCallCount EXCEPT ![m] = @ - 1]
       /\ GoTo(t, "give") /\ xSemaphore' = [xSemaphore EXCEPT ![t] = m]
  /\ UNCHANGED <<xMutexHolder, xTasksWaitingToReceive, prioVars, uxMutexesHeld,
                 xTicksToWait, xInheritanceOccurred, expired, disturbed>>

xQueueGiveMutexRecursive(t) ==
  /\ Runs(t, "idle")
  /\ \E m \in RecursiveMutexes :
       /\ xMutexHolder[m] = t
       /\ uxRecursiveCallCount' = [uxRecursiveCallCount EXCEPT ![m] = @ - 1]
       /\ IF uxRecursiveCallCount[m] = 1
          THEN GoTo(t, "give") /\ xSemaphore' = [xSemaphore EXCEPT ![t] = m]
          ELSE UNCHANGED <<pc, xSemaphore>>
  /\ UNCHANGED <<xMutexHolder, xTasksWaitingToReceive, prioVars, uxMutexesHeld,
                 xTicksToWait, xInheritanceOccurred, expired, disturbed>>

-----------------------------------------------------------------------------
(* The priority of a task is set, by any task.                              *)

\* The base priority changes, and the item on an event list; the priority in
\* use only of a task that inherits none.
vTaskPrioritySet(t, uxNewPriority) ==
  /\ t \in MayBeSet
  /\ uxBasePriority[t] # uxNewPriority
  /\ uxPriority' = IF uxBasePriority[t] = uxPriority[t]
                   THEN [uxPriority EXCEPT ![t] = uxNewPriority] ELSE uxPriority
  /\ uxBasePriority' = [uxBasePriority EXCEPT ![t] = uxNewPriority]
  /\ xItemPriority' = [xItemPriority EXCEPT ![t] = uxNewPriority]
  /\ disturbed' = disturbed \cup UsedBy(t)
  /\ UNCHANGED <<mutexVars, xTasksWaitingToReceive, uxMutexesHeld, takeVars>>

-----------------------------------------------------------------------------
(* Specification.                                                          *)

\* xQueueCreateMutex gives the new mutex once; nobody holds it.
prvInitialiseMutex ==
  /\ xMutexHolder = [m \in Mutexes |-> NoTask]
  /\ uxRecursiveCallCount = [m \in Mutexes |-> 0]
  /\ xTasksWaitingToReceive = [m \in Mutexes |-> <<>>]

Init ==
  /\ prvInitialiseMutex
  /\ uxPriority = InitPriority /\ uxBasePriority = InitPriority
  /\ xItemPriority = InitPriority
  /\ uxMutexesHeld = [t \in Tasks |-> 0]
  /\ pc = [t \in Tasks |-> "idle"]
  /\ xSemaphore \in [Tasks -> {CHOOSE m \in Mutexes : TRUE}]
  /\ xTicksToWait = [t \in Tasks |-> "no"]
  /\ xInheritanceOccurred = [t \in Tasks |-> FALSE]
  /\ expired = {}
  /\ disturbed = {}

TaskStep(t) ==
  \/ xQueueSemaphoreTake(t) \/ BlockOnMutex(t) \/ RecheckEmpty(t)
  \/ DisinheritAfterTimeout(t) \/ xTaskIncrementTick(t)
  \/ xQueueTakeMutexRecursive(t) \/ xQueueGenericSend(t)
  \/ xQueueGiveMutexRecursive(t)
  \/ \E p \in Priorities : vTaskPrioritySet(t, p)

Next == \E t \in Tasks : TaskStep(t)

Spec == Init /\ [][Next]_vars

-----------------------------------------------------------------------------
(* Properties.                                                             *)

\* The values the variables may take.
TypeOK ==
  /\ xMutexHolder \in [Mutexes -> Tasks \cup {NoTask}]
  /\ uxRecursiveCallCount \in [Mutexes -> 0 .. MaxDepth]
  /\ xTasksWaitingToReceive \in [Mutexes -> Seq(Tasks)]
  /\ uxPriority \in [Tasks -> Priorities] /\ uxBasePriority \in [Tasks -> Priorities]
  /\ xItemPriority \in [Tasks -> Priorities]
  /\ uxMutexesHeld \in [Tasks -> 0 .. Cardinality(Mutexes)]
  /\ pc \in [Tasks -> Places] /\ xSemaphore \in [Tasks -> Mutexes]
  /\ xTicksToWait \in [Tasks -> Waits]
  /\ xInheritanceOccurred \in [Tasks -> BOOLEAN]
  /\ expired \subseteq Tasks /\ disturbed \subseteq Mutexes

\* The count in a task that decides when an inherited priority is given up is
\* the number of mutexes it holds, through failed takes, timeouts and disturbed
\* recursive takes.
HeldCountMatches ==
  \A t \in Tasks : uxMutexesHeld[t] = Cardinality({m \in Mutexes : xMutexHolder[m] = t})

\* A recursive mutex is held as long as it was taken more often than given: its
\* count is 0 while nobody holds it, for the next holder to start from.
CountedWhileHeld ==
  \A m \in RecursiveMutexes :
    uxRecursiveCallCount[m] # 0
      <=> /\ xMutexHolder[m] # NoTask
          /\ ~(/\ pc[xMutexHolder[m]] \in {"count", "give"}
               /\ xSemaphore[xMutexHolder[m]] = m)

\* Whatever the order in which mutexes are given back, and whoever has timed
\* out meanwhile, a task that holds none runs at its own priority.
NoInheritanceLeft ==
  \A t \in Tasks : uxMutexesHeld[t] = 0 => uxPriority[t] = uxBasePriority[t]

Awake(t, m) == pc[t] # "idle" /\ xSemaphore[t] = m /\ ~Blocked(t)

\* A free mutex with tasks asleep on it has one awake that will try it.
NoWaiterIsForgotten ==
  \A m \in Mutexes :
    xMutexHolder[m] = NoTask /\ xTasksWaitingToReceive[m] # <<>>
      => \E t \in Tasks : Awake(t, m) /\ pc[t] = "try"

\* Awake tasks in a take of m that will lend the holder their priority, or give
\* it that of the waiters that stay; not one that takes its last look.
Lends(t, m) ==
  /\ Awake(t, m)
  /\ \/ pc[t] = "try" /\ xTicksToWait[t] # "no"
     \/ pc[t] \in {"suspend", "recheck", "disinherit"}

\* The point of the inheritance: the holder of a mutex is at least as urgent as
\* each task asleep on it, or a task that urgent is about to see to it - when a
\* task of low priority has taken the mutex before the waiter woken for it, or a
\* waiter has timed out.  It is about one mutex at a time: priorities are not
\* passed on from a holder that waits itself, nor taken back or given while two
\* are held.  Nor are they when a waiter that had lent nothing is woken,
\* overtaken, and times out: the tasks behind it lend nothing either.
InheritsFromWaiters ==
  \A m \in Mutexes \ disturbed : \A t \in WaitersFor(m) :
    xMutexHolder[m] # NoTask
      => \/ uxPriority[xMutexHolder[m]] >= uxPriority[t]
         \/ \E u \in Tasks : Lends(u, m) /\ uxPriority[u] >= uxPriority[t]
=============================================================================
