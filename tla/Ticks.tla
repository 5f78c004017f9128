-------------------------------- MODULE Ticks --------------------------------
(***************************************************************************)
(* Delays and timeouts of src/src/freertos/tasks.c: the tick count and its *)
(* wrap-around, the two delayed lists, xNextTaskUnblockTime, pended ticks, *)
(* vTaskDelay, xTaskDelayUntil, xTaskAbortDelay, xTaskCatchUpTicks, and    *)
(* xTaskCheckForTimeOut as the loop of xQueueReceive uses it.              *)
(*                                                                         *)
(* Cores and priorities are module SmpKernel's: here a ready task may run  *)
(* at any time.  What a task does with the scheduler suspended is a step   *)
(* of its own, so that ticks and events from interrupts come before and    *)
(* after it; nobody else enters a critical section meanwhile.              *)
(***************************************************************************)
EXTENDS Integers

CONSTANTS
  Tasks, NoTask,
  PeriodicTasks,               \* they call xTaskDelayUntil and nothing else
  portMAX_DELAY,               \* the largest TickType_t
  configINITIAL_TICK_COUNT,
  Delays,                      \* the block times the other tasks ask for
  Periods,                     \* the increments of xTaskDelayUntil
  UsedAPI,                     \* the functions the application calls
  LastTick,                    \* bound: no tick comes after this one
  MaxPendedTicks,              \* bound: no tick comes when so many are pended
  MaxLate                      \* bound: how late a task checks its timeout

TickType == 0 .. portMAX_DELAY
TickRange == portMAX_DELAY + 1

ASSUME TicksAssumption ==
  /\ NoTask \notin Tasks
  /\ PeriodicTasks \subseteq Tasks
  /\ portMAX_DELAY \in Nat \ {0}
  /\ configINITIAL_TICK_COUNT \in TickType
  /\ Delays \subseteq TickType \ {0}
  /\ Periods \subseteq TickType \ {0}
  /\ LastTick \in Nat /\ MaxPendedTicks \in Nat /\ MaxLate \in Nat

VARIABLES
  xTickCount, xNumOfOverflows, xNextTaskUnblockTime, xPendedTicks,
  pxDelayedTaskList, pxOverflowDelayedTaskList,  \* sets: xItemValue orders them
  xItemValue,                  \* the wake time in each task's state list item
  xSuspendedTaskList,
  xReadyTasks,                 \* the ready lists
  xEventList,                  \* the tasks on an event list
  xPendingReadyList,           \* event items of tasks readied while suspended
  ucDelayAborted,
  suspendedBy,                 \* the task that has the scheduler suspended
  step,                        \* where that task stands
  pc,                          \* "wait": in the loop of a timed receive
  xTicksToWait, xTimeOut,      \* locals of that loop
  xPended,                     \* xTaskCatchUpTicks has read xPendedTicks
  pxPreviousWakeTime,          \* of the periodic tasks
  \* History, never read by the code:
  xAsked,                      \* the absolute tick a blocking call is to end at
  xPreviousAsked,              \* pxPreviousWakeTime on a clock without wrap
  xAbortedWaits,               \* tasks whose wait xTaskAbortDelay ended
  xTicksRaised                 \* ticks the timer and xTaskCatchUpTicks raised

clockVars == <<xTickCount, xNumOfOverflows>>
tickVars == <<clockVars, xNextTaskUnblockTime>>
listVars == <<pxDelayedTaskList, pxOverflowDelayedTaskList, xItemValue,
              xSuspendedTaskList, xReadyTasks>>
eventVars == <<xEventList, xPendingReadyList>>
regionVars == <<suspendedBy, step>>
waitVars == <<pc, xTicksToWait, xTimeOut>>
periodVars == <<pxPreviousWakeTime, xPreviousAsked>>
pendVars == <<xPendedTicks, xPended, xTicksRaised>>
abortVars == <<ucDelayAborted, xAbortedWaits>>
vars == <<tickVars, listVars, eventVars, regionVars, waitVars, periodVars,
          pendVars, abortVars, xAsked>>

\* step: none, in (the suspended region), aborting (in xTaskAbortDelay, a task
\* taken off its state list), catching (xPendedTicks read, not yet written),
\* done (about to resume the scheduler), resuming (in xTaskResumeAll's loop).
Steps == {"none", "in", "aborting", "catching", "done", "resuming"}

-----------------------------------------------------------------------------
(* TickType_t arithmetic, and the clock it stands for.                     *)

NeverWraps(n) == n                                             \* mutant of Wrap

Wrap(n) == IF n > portMAX_DELAY THEN n - TickRange ELSE n
Minus(a, b) == IF a < b THEN a - b + TickRange ELSE a - b

Epoch == xNumOfOverflows * TickRange
Now == Epoch + xTickCount

Awake == 0
Forever == -1
Delayed == pxDelayedTaskList \cup pxOverflowDelayedTaskList

\* When t will be woken, as the lists have it.
WakeOf(t) ==
  IF t \in pxDelayedTaskList THEN Epoch + xItemValue[t]
  ELSE IF t \in pxOverflowDelayedTaskList THEN Epoch + TickRange + xItemValue[t]
  ELSE IF t \in xSuspendedTaskList THEN Forever ELSE Awake

-----------------------------------------------------------------------------
(* Helpers.                                                                *)

Runs(t) == t \in xReadyTasks /\ suspendedBy = NoTask
InRegion(t, s) == suspendedBy = t /\ step = s
GoTo(s) == step' = s /\ UNCHANGED suspendedBy

\* The tasks of S leave the list they are on and become ready.  The value of a
\* list item outside the delayed lists is never read; it is kept at 0.
MakeReady(S, delayed, overflow) ==
  /\ pxDelayedTaskList' = delayed \ S
  /\ pxOverflowDelayedTaskList' = overflow \ S
  /\ xSuspendedTaskList' = xSuspendedTaskList \ S
  /\ xReadyTasks' = xReadyTasks \cup S
  /\ xItemValue' = [t \in Tasks |-> IF t \in S THEN 0 ELSE xItemValue[t]]
  /\ xAsked' = [t \in Tasks |-> IF t \in S /\ pc[t] = "run" THEN 0 ELSE xAsked[t]]

KeepEventLists(S) == UNCHANGED eventVars                     \* mutant

LeaveEventLists(S) ==
  /\ xEventList' = xEventList \ S
  /\ xPendingReadyList' = xPendingReadyList \ S

\* v is what prvResetNextTaskUnblockTime finds for a delayed list S.
IsHeadValue(v, S) ==
  \/ S = {} /\ v = portMAX_DELAY
  \/ /\ \E t \in S : v = xItemValue[t]
     /\ \A t \in S : v <= xItemValue[t]

\* Mutant: takes every list for empty.
ResetsToMax(delayed) == xNextTaskUnblockTime' = portMAX_DELAY

prvResetNextTaskUnblockTime(delayed) ==
  xNextTaskUnblockTime' \in {v \in TickType : IsHeadValue(v, delayed)}

\* The running task t leaves the ready list to sleep for n ticks, or for ever.
prvAddCurrentTaskToDelayedList(t, n, canBlockIndefinitely) ==
  LET timeToWake == Wrap(xTickCount + n)
      forever == n = portMAX_DELAY /\ canBlockIndefinitely
      wrapped == timeToWake < xTickCount
  IN
  /\ ucDelayAborted' = [ucDelayAborted EXCEPT ![t] = FALSE]
  /\ xReadyTasks' = xReadyTasks \ {t}
  /\ xSuspendedTaskList' = xSuspendedTaskList \cup {u \in {t} : forever}
  /\ xItemValue' = IF forever THEN xItemValue ELSE [xItemValue EXCEPT ![t] = timeToWake]
  /\ pxOverflowDelayedTaskList' =
       pxOverflowDelayedTaskList \cup {u \in {t} : ~forever /\ wrapped}
  /\ pxDelayedTaskList' = pxDelayedTaskList \cup {u \in {t} : ~forever /\ ~wrapped}
  /\ xNextTaskUnblockTime' = IF ~forever /\ ~wrapped /\ timeToWake < xNextTaskUnblockTime
                             THEN timeToWake ELSE xNextTaskUnblockTime

-----------------------------------------------------------------------------
(* The tick.                                                               *)

\* Mutant: a task wakes one tick late.
ExpiredAfter(delayed, tick) == {t \in delayed : xItemValue[t] < tick}

\* taskSWITCH_DELAYED_LISTS resets the unblock time when the lists change roles.
UnblockTimeAtTick(next, wrapped, delayed) ==
  IF wrapped THEN IsHeadValue(next, delayed) ELSE next = xNextTaskUnblockTime

Expired(delayed, tick) == {t \in delayed : xItemValue[t] <= tick}

\* xTaskIncrementTick when the scheduler is not suspended.
CountTick ==
  LET tick == Wrap(xTickCount + 1)
      wrapped == tick = 0
      delayed == IF wrapped THEN pxOverflowDelayedTaskList ELSE pxDelayedTaskList
      overflow == IF wrapped THEN pxDelayedTaskList ELSE pxOverflowDelayedTaskList
      expired == Expired(delayed, tick)
  IN
  /\ xTickCount' = tick
  /\ xNumOfOverflows' = xNumOfOverflows + (IF wrapped THEN 1 ELSE 0)
  /\ \E next \in TickType :
       /\ UnblockTimeAtTick(next, wrapped, delayed)
       /\ IF tick >= next
          THEN /\ prvResetNextTaskUnblockTime(delayed \ expired)
               /\ MakeReady(expired, delayed, overflow)
               /\ LeaveEventLists(expired)
          ELSE /\ xNextTaskUnblockTime' = next
               /\ MakeReady({}, delayed, overflow)
               /\ UNCHANGED eventVars

\* Bounds: a last tick, and every task comes to its next check in time.
TickAllowed ==
  /\ Now + xPendedTicks < LastTick
  /\ suspendedBy # NoTask => xPendedTicks < MaxPendedTicks
  /\ \A t \in Tasks :
       /\ pc[t] = "wait" /\ xAsked[t] # Forever => Now + xPendedTicks < xAsked[t] + MaxLate
       /\ t \in PeriodicTasks => Now + xPendedTicks < xPreviousAsked[t] + portMAX_DELAY

\* The timer interrupt.
xTaskIncrementTick ==
  /\ step # "resuming"
  /\ TickAllowed
  /\ xTicksRaised' = xTicksRaised + 1
  /\ IF suspendedBy = NoTask
     THEN CountTick /\ UNCHANGED xPendedTicks
     ELSE /\ xPendedTicks' = xPendedTicks + 1
          /\ UNCHANGED <<tickVars, listVars, eventVars, xAsked>>
  /\ UNCHANGED <<regionVars, waitVars, periodVars, abortVars, xPended>>

-----------------------------------------------------------------------------
(* The suspended region.                                                   *)

\* A task that finds xTicksToWait 0 in xQueueReceive returns before this.
vTaskSuspendAll(t) ==
  /\ Runs(t)
  /\ pc[t] = "wait" => xTicksToWait[t] > 0
  /\ suspendedBy' = t /\ step' = "in"
  /\ UNCHANGED <<tickVars, listVars, eventVars, waitVars, periodVars, pendVars, abortVars, xAsked>>

\* Tasks readied meanwhile leave their lists; then ticks are counted.
xTaskResumeAll(t) ==
  /\ InRegion(t, "done")
  /\ GoTo("resuming")
  /\ MakeReady(xPendingReadyList, pxDelayedTaskList, pxOverflowDelayedTaskList)
  /\ xPendingReadyList' = {}
  /\ IF xPendingReadyList # {}
     THEN prvResetNextTaskUnblockTime(pxDelayedTaskList \ xPendingReadyList)
     ELSE UNCHANGED xNextTaskUnblockTime
  /\ UNCHANGED <<clockVars, waitVars, periodVars, pendVars, abortVars, xEventList>>

\* Mutant: however many ticks are pended, one is counted.
CountsOneTick(t) ==
  /\ InRegion(t, "resuming")
  /\ xPendedTicks > 0
  /\ xPendedTicks' = 0
  /\ CountTick
  /\ UNCHANGED <<regionVars, waitVars, periodVars, abortVars, xPended, xTicksRaised>>

\* One turn of its loop; xPendedTicks stands for the copy xPendedCounts.
CountPendedTick(t) ==
  /\ InRegion(t, "resuming")
  /\ xPendedTicks > 0
  /\ xPendedTicks' = xPendedTicks - 1
  /\ CountTick
  /\ UNCHANGED <<regionVars, waitVars, periodVars, abortVars, xPended, xTicksRaised>>

ResumeAllDone(t) ==
  /\ InRegion(t, "resuming")
  /\ xPendedTicks = 0
  /\ suspendedBy' = NoTask /\ step' = "none"
  /\ UNCHANGED <<tickVars, listVars, eventVars, waitVars, periodVars, pendVars, abortVars, xAsked>>

\* A region of the application's own, or a kernel function that found nothing
\* to do (xTaskAbortDelay of a task that is not blocked).
EndRegion(t) ==
  /\ InRegion(t, "in") /\ pc[t] = "run"
  /\ GoTo("done")
  /\ UNCHANGED <<tickVars, listVars, eventVars, waitVars, periodVars, pendVars, abortVars, xAsked>>

-----------------------------------------------------------------------------
(* Delays.                                                                 *)

vTaskDelay(t, n) ==
  /\ InRegion(t, "in") /\ pc[t] = "run" /\ t \notin PeriodicTasks
  /\ GoTo("done")
  /\ prvAddCurrentTaskToDelayedList(t, n, FALSE)
  /\ xAsked' = [xAsked EXCEPT ![t] = Now + n]
  /\ UNCHANGED <<clockVars, eventVars, waitVars, periodVars, pendVars, xAbortedWaits>>

\* Mutant: the wrap of the tick count is not seen.
DelaysByValue(previous, timeToWake) == timeToWake > xTickCount

ShouldDelay(previous, timeToWake) ==
  IF xTickCount < previous
  THEN timeToWake < previous /\ timeToWake > xTickCount
  ELSE timeToWake < previous \/ timeToWake > xTickCount

xTaskDelayUntil(t, increment) ==
  LET timeToWake == Wrap(pxPreviousWakeTime[t] + increment) IN
  /\ InRegion(t, "in") /\ t \in PeriodicTasks
  /\ GoTo("done")
  /\ pxPreviousWakeTime' = [pxPreviousWakeTime EXCEPT ![t] = timeToWake]
  /\ xPreviousAsked' = [xPreviousAsked EXCEPT ![t] = @ + increment]
  /\ IF ShouldDelay(pxPreviousWakeTime[t], timeToWake)
     THEN /\ prvAddCurrentTaskToDelayedList(t, Minus(timeToWake, xTickCount), FALSE)
          /\ xAsked' = [xAsked EXCEPT ![t] = xPreviousAsked'[t]]
     ELSE UNCHANGED <<xNextTaskUnblockTime, listVars, ucDelayAborted, xAsked>>
  /\ UNCHANGED <<clockVars, eventVars, waitVars, pendVars, xAbortedWaits>>

-----------------------------------------------------------------------------
(* A timed wait: the loop of xQueueReceive.                                *)

\* The queue is empty: the wait starts and its time is captured.
xQueueReceive(t, n) ==
  /\ Runs(t) /\ pc[t] = "run" /\ t \notin PeriodicTasks
  /\ pc' = [pc EXCEPT ![t] = "wait"]
  /\ xTicksToWait' = [xTicksToWait EXCEPT ![t] = n]
  /\ xTimeOut' = [xTimeOut EXCEPT ![t] = <<xNumOfOverflows, xTickCount>>]
  /\ xAsked' = [xAsked EXCEPT ![t] = IF n = portMAX_DELAY THEN Forever ELSE Now + n]
  /\ xAbortedWaits' = xAbortedWaits \ {t}
  /\ UNCHANGED <<tickVars, listVars, eventVars, regionVars, periodVars, pendVars, ucDelayAborted>>

\* t leaves xQueueReceive and its locals die.
Return(t) ==
  /\ pc' = [pc EXCEPT ![t] = "run"]
  /\ xTicksToWait' = [xTicksToWait EXCEPT ![t] = 0]
  /\ xTimeOut' = [xTimeOut EXCEPT ![t] = <<0, 0>>]

\* An item is there, or the queue is empty again after the time was up.
LeaveReceive(t) ==
  /\ Runs(t) /\ pc[t] = "wait"
  /\ Return(t)
  /\ xAsked' = [xAsked EXCEPT ![t] = 0]
  /\ UNCHANGED <<tickVars, listVars, eventVars, regionVars, periodVars, pendVars, abortVars>>

Elapsed(t) == Minus(xTickCount, xTimeOut[t][2])

\* Mutants: any overflow counts as the end of the wait, and an exact turn does not.
WrappedAtAll(t) == xNumOfOverflows # xTimeOut[t][1]
WrappedBeyond(t) == xNumOfOverflows # xTimeOut[t][1] /\ xTickCount > xTimeOut[t][2]

WrappedPast(t) == xNumOfOverflows # xTimeOut[t][1] /\ xTickCount >= xTimeOut[t][2]
WaitsForever(t) == xTicksToWait[t] = portMAX_DELAY

\* What xTaskCheckForTimeOut returns.
TimedOut(t) ==
  \/ ucDelayAborted[t]
  \/ ~WaitsForever(t) /\ (WrappedPast(t) \/ Elapsed(t) >= xTicksToWait[t])

\* pdTRUE: if the queue is empty the call ends, otherwise it goes round again.
CheckTimedOut(t) ==
  /\ InRegion(t, "in") /\ pc[t] = "wait"
  /\ TimedOut(t)
  /\ GoTo("done")
  /\ ucDelayAborted' = [ucDelayAborted EXCEPT ![t] = FALSE]
  /\ \/ Return(t) /\ xAsked' = [xAsked EXCEPT ![t] = 0]
     \/ /\ xTicksToWait' = IF ucDelayAborted[t] THEN xTicksToWait
                           ELSE [xTicksToWait EXCEPT ![t] = 0]
        /\ UNCHANGED <<pc, xTimeOut, xAsked>>
  /\ UNCHANGED <<tickVars, listVars, eventVars, periodVars, pendVars, xAbortedWaits>>

KeepsTimeOut(t) == xTimeOut                                    \* mutant

\* A wait that goes on counts the rest of its time from now.
TimeCaptured(t) ==
  IF WaitsForever(t) THEN xTimeOut
  ELSE [xTimeOut EXCEPT ![t] = <<xNumOfOverflows, xTickCount>>]

\* pdFALSE: if the queue is still empty the task blocks for the rest of its time.
CheckAndBlock(t) ==
  LET left == IF WaitsForever(t) THEN portMAX_DELAY ELSE xTicksToWait[t] - Elapsed(t) IN
  /\ InRegion(t, "in") /\ pc[t] = "wait"
  /\ ~TimedOut(t)
  /\ GoTo("done")
  /\ xTicksToWait' = [xTicksToWait EXCEPT ![t] = left]
  /\ xTimeOut' = TimeCaptured(t)
  /\ \/ /\ xEventList' = xEventList \cup {t}                \* vTaskPlaceOnEventList
        /\ prvAddCurrentTaskToDelayedList(t, left, TRUE)
     \/ UNCHANGED <<xEventList, listVars, xNextTaskUnblockTime, ucDelayAborted>>
  /\ UNCHANGED <<clockVars, pc, xPendingReadyList, periodVars, pendVars, xAbortedWaits, xAsked>>

\* The event t waits for, from an interrupt or from a task in a critical section.
xTaskRemoveFromEventList(t) ==
  /\ t \in xEventList /\ step # "resuming"
  /\ xEventList' = xEventList \ {t}
  /\ IF suspendedBy = NoTask
     THEN /\ MakeReady({t}, pxDelayedTaskList, pxOverflowDelayedTaskList)
          /\ UNCHANGED xPendingReadyList
     ELSE /\ xPendingReadyList' = xPendingReadyList \cup {t}
          /\ UNCHANGED <<listVars, xAsked>>
  /\ UNCHANGED <<tickVars, regionVars, waitVars, periodVars, pendVars, abortVars>>

-----------------------------------------------------------------------------
(* What one task does to another's delay.                                  *)

HasEventItem(t) == t \in xEventList \cup xPendingReadyList
Blocked(t) == t \in Delayed \/ (t \in xSuspendedTaskList /\ HasEventItem(t))

\* By the running task t: u is taken off its state list ...
xTaskAbortDelay(t, u) ==
  /\ InRegion(t, "in") /\ pc[t] = "run"
  /\ Blocked(u)
  /\ GoTo("aborting")
  /\ pxDelayedTaskList' = pxDelayedTaskList \ {u}
  /\ pxOverflowDelayedTaskList' = pxOverflowDelayedTaskList \ {u}
  /\ xSuspendedTaskList' = xSuspendedTaskList \ {u}
  /\ UNCHANGED <<tickVars, xReadyTasks, xItemValue, eventVars, waitVars, periodVars,
                 pendVars, abortVars, xAsked>>

\* ... and then, in a critical section, off its event list.
FinishAbort(t) ==
  LET u == CHOOSE v \in Tasks : v \notin Delayed \cup xSuspendedTaskList \cup xReadyTasks IN
  /\ InRegion(t, "aborting")
  /\ GoTo("done")
  /\ MakeReady({u}, pxDelayedTaskList, pxOverflowDelayedTaskList)
  /\ LeaveEventLists({u})
  /\ ucDelayAborted' = IF HasEventItem(u) THEN [ucDelayAborted EXCEPT ![u] = TRUE]
                       ELSE ucDelayAborted
  /\ xAbortedWaits' = xAbortedWaits \cup {v \in {u} : pc[v] = "wait"}
  /\ UNCHANGED <<tickVars, waitVars, periodVars, pendVars>>

\* Of a task on a delayed list or blocked without a timeout; tasks that are
\* ready are module SmpKernel's.
vTaskSuspend(u) ==
  /\ suspendedBy = NoTask
  /\ u \notin xReadyTasks
  /\ pxDelayedTaskList' = pxDelayedTaskList \ {u}
  /\ pxOverflowDelayedTaskList' = pxOverflowDelayedTaskList \ {u}
  /\ xSuspendedTaskList' = xSuspendedTaskList \cup {u}
  /\ LeaveEventLists({u})
  /\ xItemValue' = [xItemValue EXCEPT ![u] = 0]
  /\ prvResetNextTaskUnblockTime(pxDelayedTaskList \ {u})
  /\ UNCHANGED <<clockVars, xReadyTasks, regionVars, waitVars, periodVars, pendVars, abortVars, xAsked>>

vTaskResume(u) ==
  /\ suspendedBy = NoTask
  /\ u \in xSuspendedTaskList /\ ~HasEventItem(u)
  /\ MakeReady({u}, pxDelayedTaskList, pxOverflowDelayedTaskList)
  /\ UNCHANGED <<tickVars, eventVars, regionVars, waitVars, periodVars, pendVars, abortVars>>

\* By the running task t: xPendedTicks += n reads the counter ...
xTaskCatchUpTicks(t) ==
  /\ InRegion(t, "in") /\ pc[t] = "run"
  /\ GoTo("catching")
  /\ xPended' = xPendedTicks
  /\ UNCHANGED <<tickVars, listVars, eventVars, waitVars, periodVars, xPendedTicks,
                 xTicksRaised, abortVars, xAsked>>

\* ... and writes it.
FinishCatchUp(t, n) ==
  /\ InRegion(t, "catching")
  /\ Now + xPendedTicks + n <= LastTick
  /\ GoTo("done")
  /\ xPendedTicks' = xPended + n
  /\ xPended' = 0
  /\ xTicksRaised' = xTicksRaised + n
  /\ UNCHANGED <<tickVars, listVars, eventVars, waitVars, periodVars, abortVars, xAsked>>

-----------------------------------------------------------------------------
Init ==
  /\ xTickCount = configINITIAL_TICK_COUNT /\ xNumOfOverflows = 0
  /\ xNextTaskUnblockTime = portMAX_DELAY
  /\ xPendedTicks = 0 /\ xPended = 0 /\ xTicksRaised = configINITIAL_TICK_COUNT
  /\ pxDelayedTaskList = {} /\ pxOverflowDelayedTaskList = {}
  /\ xItemValue = [t \in Tasks |-> 0]
  /\ xSuspendedTaskList = {} /\ xReadyTasks = Tasks
  /\ xEventList = {} /\ xPendingReadyList = {}
  /\ ucDelayAborted = [t \in Tasks |-> FALSE] /\ xAbortedWaits = {}
  /\ suspendedBy = NoTask /\ step = "none"
  /\ pc = [t \in Tasks |-> "run"]
  /\ xTicksToWait = [t \in Tasks |-> 0]
  /\ xTimeOut = [t \in Tasks |-> <<0, 0>>]
  /\ pxPreviousWakeTime = [t \in Tasks |-> configINITIAL_TICK_COUNT]
  /\ xPreviousAsked = [t \in Tasks |-> configINITIAL_TICK_COUNT]
  /\ xAsked = [t \in Tasks |-> 0]

API(f) == f \in UsedAPI

Next ==
  \/ xTaskIncrementTick
  \/ \E t \in Tasks :
       \/ vTaskSuspendAll(t)
       \/ EndRegion(t) \/ xTaskResumeAll(t) \/ CountPendedTick(t) \/ ResumeAllDone(t)
       \/ \E n \in Delays :
            \/ API("vTaskDelay") /\ vTaskDelay(t, n)
            \/ API("xQueueReceive") /\ xQueueReceive(t, n)
       \/ \E n \in Periods : xTaskDelayUntil(t, n)
       \/ LeaveReceive(t)
       \/ CheckTimedOut(t) \/ CheckAndBlock(t)
       \/ xTaskRemoveFromEventList(t)
       \/ API("xTaskAbortDelay") /\ \E u \in Tasks : xTaskAbortDelay(t, u)
       \/ FinishAbort(t)
       \/ API("vTaskSuspend") /\ (vTaskSuspend(t) \/ vTaskResume(t))
       \/ API("xTaskCatchUpTicks") /\ xTaskCatchUpTicks(t)
       \/ \E n \in 1 .. MaxPendedTicks : FinishCatchUp(t, n)

Spec == Init /\ [][Next]_vars

-----------------------------------------------------------------------------
(* Properties.                                                             *)

\* Every variable has its type; ticks stay inside TickType_t across wraps.
TypeOK ==
  /\ xTickCount \in TickType /\ xNumOfOverflows \in Nat
  /\ xNextTaskUnblockTime \in TickType
  /\ xPendedTicks \in Nat /\ xPended \in Nat /\ xTicksRaised \in Nat
  /\ pxDelayedTaskList \subseteq Tasks /\ pxOverflowDelayedTaskList \subseteq Tasks
  /\ xItemValue \in [Tasks -> TickType]
  /\ xSuspendedTaskList \subseteq Tasks /\ xReadyTasks \subseteq Tasks
  /\ xEventList \subseteq Tasks /\ xPendingReadyList \subseteq Tasks
  /\ ucDelayAborted \in [Tasks -> BOOLEAN] /\ xAbortedWaits \subseteq Tasks
  /\ suspendedBy \in Tasks \cup {NoTask} /\ step \in Steps
  /\ pc \in [Tasks -> {"run", "wait"}]
  /\ xTicksToWait \in [Tasks -> TickType]
  /\ xTimeOut \in [Tasks -> Nat \X TickType]
  /\ pxPreviousWakeTime \in [Tasks -> TickType]
  /\ xPreviousAsked \in [Tasks -> Nat]
  /\ xAsked \in [Tasks -> Int]

\* The tick looks at the delayed list only from xNextTaskUnblockTime on, so this
\* is never later than the first task of the list is to wake, whoever put
\* tasks on the list, took them off or switched the lists.
UnblockTimeIsNotLate ==
  \A t \in pxDelayedTaskList : xNextTaskUnblockTime <= xItemValue[t]

\* A sleeping task is on the list, with the value, that wakes it at the tick its
\* call was to end, however often the wait was interrupted and taken up again
\* with the rest of its time (xTaskCheckForTimeOut) and across every wrap; and
\* that tick is still to come.
SleepsUntilAsked ==
  \A t \in Delayed : WakeOf(t) = xAsked[t] /\ xAsked[t] > Now

\* Delayed tasks behave as if the tick count never wrapped.
Sleepers == INSTANCE SleepClock WITH
              MaxSleep <- portMAX_DELAY, now <- Now, wake <- [t \in Tasks |-> WakeOf(t)]
SleepsOnClock == Sleepers!Spec

\* xTaskCheckForTimeOut says a wait is over only when its ticks have passed since
\* the time was captured, or xTaskAbortDelay ended this wait.
TimesOutInTime ==
  \A t \in Tasks :
    InRegion(t, "in") /\ pc[t] = "wait" /\ TimedOut(t)
      => t \in xAbortedWaits \/ (xAsked[t] # Forever /\ xAsked[t] <= Now)

\* And it says so at the first look after they have passed.
TimesOutAtLast ==
  \A t \in Tasks :
    InRegion(t, "in") /\ pc[t] = "wait" /\ xAsked[t] # Forever /\ xAsked[t] <= Now
      => TimedOut(t)

\* xTaskDelayUntil delays exactly when the next wake time is not in the past.
DelaysIfAhead ==
  [][\A t \in PeriodicTasks : xPreviousAsked'[t] # xPreviousAsked[t]
       => (t \in Delayed' <=> xPreviousAsked'[t] > Now)]_vars

\* A ready task has no event list item left behind on an event list or on
\* xPendingReadyList, where its next wait would link it a second time.
EventItemIsFree == xReadyTasks \cap (xEventList \cup xPendingReadyList) = {}

\* Every tick raised is counted or pended: none is lost or counted twice when
\* the scheduler is suspended and resumed.
EveryTickIsCounted == xTicksRaised = Now + xPendedTicks
=============================================================================
