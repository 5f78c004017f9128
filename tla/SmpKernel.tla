------------------------------ MODULE SmpKernel ------------------------------
(***************************************************************************)
(* The SMP scheduler of src/src/freertos/tasks.c: which task runs on which *)
(* core, how cores ask each other to yield, how the scheduler is suspended *)
(* and resumed, the tick, and the life cycle of a task.                    *)
(*                                                                         *)
(* A critical section (both port locks held) is one step, except its loops *)
(* over tasks, which are steps under isrLock.  The code between critical   *)
(* sections is kept: pc[t] says where task t stands in it, isr[c] what     *)
(* interrupt handler core c is in.  Wake times and event lists are left to *)
(* other modules: here a tick may wake any delayed task.                   *)
(***************************************************************************)
EXTENDS Integers, Sequences, FiniteSets, SequencesExt

CONSTANTS
  configNUM_CORES, configMAX_PRIORITIES,
  configRUN_MULTIPLE_PRIORITIES,   \* FALSE: only one priority runs at a time
  configUSE_TIME_SLICING,
  AppTasks,                        \* the TCBs the application can use
  xIdleTaskHandle,                 \* the idle task created for each core
  InitPriority,                    \* of the tasks created before the start
  InitReadyLists,                  \* the ready lists when the scheduler starts
  TickCores,                       \* the cores the timer interrupts
  UsedAPI,                         \* the kernel functions each of AppTasks calls
  MaxPendedTicks                   \* bound: no tick comes when so many are pended

Cores == 0 .. configNUM_CORES - 1
Priorities == 0 .. configMAX_PRIORITIES - 1
IdleTasks == {xIdleTaskHandle[c] : c \in Cores}
Tasks == AppTasks \cup IdleTasks

taskTASK_NOT_RUNNING == -1
taskTASK_YIELDING == -2
NoCore == -1                       \* a port lock nobody holds

ASSUME CoresAssumption ==
  /\ configNUM_CORES \in Nat \ {0}
  /\ configMAX_PRIORITIES \in Nat \ {0}
  /\ configRUN_MULTIPLE_PRIORITIES \in BOOLEAN
  /\ configUSE_TIME_SLICING \in BOOLEAN
  /\ TickCores \subseteq Cores
  /\ MaxPendedTicks \in Nat

\* prvCreateIdleTasks gives every core an idle task of its own.
ASSUME IdleAssumption ==
  /\ xIdleTaskHandle \in [Cores -> IdleTasks]
  /\ \A c, d \in Cores : xIdleTaskHandle[c] = xIdleTaskHandle[d] => c = d
  /\ AppTasks \cap IdleTasks = {}

\* Each list holds created tasks at their own priority, once, idle tasks at 0.
ASSUME InitAssumption ==
  /\ InitPriority \in [Tasks -> Priorities]
  /\ InitReadyLists \in [Priorities -> Seq(Tasks)]
  /\ \A p \in Priorities : \A i \in 1 .. Len(InitReadyLists[p]) :
       /\ InitPriority[InitReadyLists[p][i]] = p
       /\ \A j \in 1 .. Len(InitReadyLists[p]) :
            InitReadyLists[p][i] = InitReadyLists[p][j] => i = j
  /\ \A t \in IdleTasks : \E i \in 1 .. Len(InitReadyLists[0]) : InitReadyLists[0][i] = t

VARIABLES
  pxCurrentTCBs,              \* the task each core executes
  xTaskRunState,              \* a core, taskTASK_NOT_RUNNING or taskTASK_YIELDING
  uxPriority,
  pxReadyTasksLists,          \* a queue of tasks for each priority
  uxTopReadyPriority,
  xDelayedTaskList,           \* both delayed lists, as a set
  xSuspendedTaskList,         \* as a set: its order is never used
  xTasksWaitingTermination,   \* deleted tasks that were running, oldest first
  xYieldPendings,             \* core c owes a yield it could not do at once
  yieldIRQ,                   \* a portYIELD_CORE interrupt is pending at core c
  isr,                        \* the interrupt handler core c is in
  pc,                         \* where each task stands in the kernel
  uxSchedulerSuspended,
  xPendedTicks,
  taskLock, isrLock           \* the core that holds the port lock, or NoCore

coreVars == <<pxCurrentTCBs, xTaskRunState, xYieldPendings, yieldIRQ>>
listVars == <<pxReadyTasksLists, uxTopReadyPriority, xDelayedTaskList,
              xSuspendedTaskList, xTasksWaitingTermination>>
suspendVars == <<uxSchedulerSuspended, xPendedTicks>>
lockVars == <<taskLock, isrLock>>
vars == <<coreVars, listVars, uxPriority, isr, pc, suspendVars, lockVars>>

(***************************************************************************)
(* pc[t]:                                                                  *)
(*   run            outside the kernel, no lock held                       *)
(*   exit           left a critical section, has still to look at          *)
(*                  xYieldPending (end of vTaskExitCritical)               *)
(*   exitSuspended  the same, inside a suspended region                    *)
(*   exitDelay      the same, and then the forced reschedule of vTaskDelay *)
(*   yield          about to call portYIELD                                *)
(*   susCheck       in vTaskSuspendAll, scheduler suspended, interrupts    *)
(*                  off, own run state not looked at yet                   *)
(*   reacquire      gave the lock back because it was asked to yield       *)
(*   suspended      in the region between vTaskSuspendAll and ResumeAll    *)
(*   delayed        in vTaskDelay, already put on the delayed list         *)
(*   resuming, resumingDelay   in the critical section of xTaskResumeAll   *)
(* isr[c]:                                                                 *)
(*   none     tick    took the ISR lock for a tick      ticking  counts it *)
(*   switch   in vTaskSwitchContext, before it has both locks              *)
(***************************************************************************)
Resuming == {"resuming", "resumingDelay"}
SuspendedRegion == {"susCheck", "suspended", "exitSuspended", "delayed"}
PCs == {"run", "exit", "exitDelay", "yield", "reacquire"} \cup SuspendedRegion \cup Resuming
ISRs == {"none", "tick", "ticking", "switch"}

-----------------------------------------------------------------------------
(* Helpers.                                                                *)

xIsIdle(t) == t \in IdleTasks
OnePriority == ~configRUN_MULTIPLE_PRIORITIES /\ configNUM_CORES > 1
IsRunning(t) == xTaskRunState[t] \in Cores             \* taskTASK_IS_RUNNING

\* Idle tasks count as one priority lower when cores are compared.
CorePriority(prio, x) == LET t == pxCurrentTCBs[x]
                         IN  IF xIsIdle(t) THEN prio[t] - 1 ELSE prio[t]

InList(s, t) == \E i \in 1 .. Len(s) : s[i] = t
Position(s, t) == CHOOSE i \in 1 .. Len(s) : s[i] = t
uxListRemove(s, t) == IF InList(s, t) THEN RemoveAt(s, Position(s, t)) ELSE s

Ready(t) == \E p \in Priorities : InList(pxReadyTasksLists[p], t)
Allocated(t) == \/ Ready(t) \/ t \in xDelayedTaskList \/ t \in xSuspendedTaskList
                \/ InList(xTasksWaitingTermination, t)
Deleted(t) == ~Allocated(t) \/ InList(xTasksWaitingTermination, t)

\* uxListRemove of t's state list item from the list that holds it, and its
\* insertion in another one (or in none, when the TCB is freed).
MoveTo(t, list) ==
  LET without == [p \in Priorities |-> uxListRemove(pxReadyTasksLists[p], t)] IN
  /\ xDelayedTaskList' = (xDelayedTaskList \ {t}) \cup (IF list = "delayed" THEN {t} ELSE {})
  /\ xSuspendedTaskList' = (xSuspendedTaskList \ {t}) \cup (IF list = "suspended" THEN {t} ELSE {})
  /\ xTasksWaitingTermination' =
       LET w == uxListRemove(xTasksWaitingTermination, t)
       IN  IF list = "termination" THEN Append(w, t) ELSE w
  /\ pxReadyTasksLists' = IF list = "ready"
                          THEN [without EXCEPT ![uxPriority'[t]] = Append(@, t)]
                          ELSE without
  /\ uxTopReadyPriority' = IF list = "ready" /\ uxPriority'[t] > uxTopReadyPriority
                           THEN uxPriority'[t] ELSE uxTopReadyPriority

\* Core me asks the cores of S to yield; cur, st and pend are the current
\* tasks, run states and pending yields at that point of the handler.
prvYieldCore(me, inISR, S, cur, st, pend) ==
  LET asked == {x \in S : st[cur[x]] # taskTASK_YIELDING} IN
  /\ xYieldPendings' = [x \in Cores |->
                          pend[x] \/ (x = me /\ x \in S /\ (inISR \/ x \in asked))]
  /\ yieldIRQ' = [x \in Cores |-> yieldIRQ[x] \/ (x # me /\ x \in asked)]
  /\ xTaskRunState' = [t \in Tasks |-> IF \E x \in asked \ {me} : cur[x] = t
                                       THEN taskTASK_YIELDING ELSE st[t]]

\* Mutant of CoresYieldingFor: the first core low enough, not the lowest.
YieldsFirstLowCore(t, preemptEqual) ==
  LET limit == IF preemptEqual THEN uxPriority'[t] ELSE uxPriority'[t] - 1
      low == {x \in Cores : /\ IsRunning(pxCurrentTCBs[x]) /\ ~xYieldPendings[x]
                            /\ CorePriority(uxPriority', x) <= limit}
  IN  {x \in low : \A y \in low : x <= y}

\* Mutant of CoresYieldingFor: one core only, also when one priority only may run.
YieldsOneCore(t, preemptEqual) ==
  LET limit == IF preemptEqual THEN uxPriority'[t] ELSE uxPriority'[t] - 1
      asked == {x \in Cores : IsRunning(pxCurrentTCBs[x]) /\ ~xYieldPendings[x]}
      prio == [x \in Cores |-> CorePriority(uxPriority', x)]
  IN  IF OnePriority /\ uxPriority'[t] < uxTopReadyPriority' THEN {}
      ELSE {x \in asked : /\ prio[x] <= limit
                          /\ \A y \in asked : \/ prio[x] < prio[y]
                                             \/ (prio[x] = prio[y] /\ y <= x)}

\* The cores prvYieldForTask asks: with one running priority, all that run
\* something lower; otherwise the last of those that run the lowest priority.
CoresYieldingFor(t, preemptEqual) ==
  LET mine == uxPriority'[t]
      limit == IF preemptEqual THEN mine ELSE mine - 1
      asked == {x \in Cores : IsRunning(pxCurrentTCBs[x]) /\ ~xYieldPendings[x]}
      prio == [x \in Cores |-> CorePriority(uxPriority', x)]
      lower == {x \in asked : prio[x] >= 0 /\ prio[x] < mine}
      lowest == {x \in asked : /\ prio[x] <= limit
                               /\ \A y \in asked : \/ prio[x] < prio[y]
                                                  \/ (prio[x] = prio[y] /\ y <= x)}
  IN  IF OnePriority /\ mine < uxTopReadyPriority' THEN {}
      ELSE IF OnePriority /\ lower # {} THEN lower ELSE lowest

prvYieldForTask(me, inISR, t, preemptEqual) ==
  /\ UNCHANGED pxCurrentTCBs
  /\ prvYieldCore(me, inISR, CoresYieldingFor(t, preemptEqual),
                  pxCurrentTCBs, xTaskRunState, xYieldPendings)

YieldCores(me, inISR, S) ==
  /\ UNCHANGED pxCurrentTCBs
  /\ prvYieldCore(me, inISR, S, pxCurrentTCBs, xTaskRunState, xYieldPendings)

-----------------------------------------------------------------------------
(* Control points shared by the actions.                                   *)

At(c, points) == isr[c] = "none" /\ pc[pxCurrentTCBs[c]] \in points
Goto(c, point) == pc' = [pc EXCEPT ![pxCurrentTCBs[c]] = point]
InterruptsEnabled(c) == isr[c] = "none" /\ pc[pxCurrentTCBs[c]] \notin {"susCheck"} \cup Resuming
InISR(c) == isr[c] = "ticking"

\* A trap or an interrupt enters vTaskSwitchContext, which spins on the locks.
portYIELD(c) == isr' = [isr EXCEPT ![c] = "switch"]

\* The task on core c has both locks: it got them, and was not asked to yield
\* (else vTaskEnterCritical gives them back and the task is switched out), or
\* it has suspended the scheduler and needs the ISR lock only.
vTaskEnterCritical(c) ==
  /\ isrLock = NoCore
  /\ \/ At(c, {"run"}) /\ taskLock = NoCore
        /\ xTaskRunState[pxCurrentTCBs[c]] # taskTASK_YIELDING
     \/ At(c, {"suspended"}) /\ taskLock = c

AfterCritical(c) == IF pc[pxCurrentTCBs[c]] = "run" THEN "exit" ELSE "exitSuspended"

-----------------------------------------------------------------------------
(* Yielding.                                                               *)

\* Mutant of vTaskExitCritical: it looks at no pending yield.
ExitForgetsYield(c) ==
  /\ At(c, {"exit", "exitSuspended", "exitDelay"})
  /\ Goto(c, CASE pc[pxCurrentTCBs[c]] = "exit" -> "run"
                [] pc[pxCurrentTCBs[c]] = "exitSuspended" -> "suspended"
                [] pc[pxCurrentTCBs[c]] = "exitDelay" -> "yield")
  /\ UNCHANGED <<coreVars, listVars, uxPriority, isr, suspendVars, lockVars>>

\* The end of vTaskExitCritical: the locks are free, a yield that became due
\* in the critical section is done now.
vTaskExitCritical(c) ==
  /\ At(c, {"exit", "exitSuspended", "exitDelay"})
  /\ Goto(c, CASE pc[pxCurrentTCBs[c]] = "exit" -> "run"
                [] pc[pxCurrentTCBs[c]] = "exitSuspended" -> "suspended"
                [] pc[pxCurrentTCBs[c]] = "exitDelay" -> "yield")
  /\ IF xYieldPendings[c] THEN portYIELD(c) ELSE UNCHANGED isr
  /\ UNCHANGED <<coreVars, listVars, uxPriority, suspendVars, lockVars>>

\* vTaskYieldWithinAPI outside a critical section, and the taskYIELD every idle
\* task starts with.
vTaskYieldWithinAPI(c) ==
  /\ At(c, {"yield"})
  /\ Goto(c, "run")
  /\ portYIELD(c)
  /\ UNCHANGED <<coreVars, listVars, uxPriority, suspendVars, lockVars>>

\* The task on core c is the application's and calls one of these functions.
MayCall(c, functions) ==
  LET t == pxCurrentTCBs[c] IN ~xIsIdle(t) /\ functions \cap UsedAPI[t] # {}

taskYIELD(c) ==
  /\ At(c, {"run"}) /\ MayCall(c, {"taskYIELD"})
  /\ portYIELD(c)
  /\ UNCHANGED <<coreVars, listVars, uxPriority, pc, suspendVars, lockVars>>

\* The loop of the idle tasks: they read the list's length without a lock.
prvIdleTask(c) ==
  /\ At(c, {"run"}) /\ xIsIdle(pxCurrentTCBs[c])
  /\ Len(pxReadyTasksLists[0]) > configNUM_CORES
  /\ portYIELD(c)
  /\ UNCHANGED <<coreVars, listVars, uxPriority, pc, suspendVars, lockVars>>

\* The interrupt of another core's portYIELD_CORE is taken.
YieldInterrupt(c) ==
  /\ yieldIRQ[c] /\ InterruptsEnabled(c)
  /\ yieldIRQ' = [yieldIRQ EXCEPT ![c] = FALSE]
  /\ portYIELD(c)
  /\ UNCHANGED <<pxCurrentTCBs, xTaskRunState, xYieldPendings, listVars,
                 uxPriority, pc, suspendVars, lockVars>>

-----------------------------------------------------------------------------
(* Context switch.                                                         *)

\* The priority uxTopReadyPriority comes down to: the first list that holds a task.
IsTopReady(top) ==
  /\ top \in 0 .. uxTopReadyPriority /\ pxReadyTasksLists[top] # <<>>
  /\ \A p \in top + 1 .. uxTopReadyPriority : pxReadyTasksLists[p] = <<>>

\* Mutants of MayRun: a core takes a task another core is still to give up; a
\* core does not go on with the task it has.
MayRunYielding(c, top, p, i) ==
  LET t == pxReadyTasksLists[p][i] IN
  p <= top /\ (xTaskRunState[t] \notin Cores \/ t = pxCurrentTCBs[c])

MayRunOnlyOthers(c, top, p, i) ==
  p <= top /\ xTaskRunState[pxReadyTasksLists[p][i]] = taskTASK_NOT_RUNNING

\* Core c may run the task at position i of the ready list of priority p.
\* When one priority only may run, lower lists offer nothing but idle tasks.
MayRun(c, top, p, i) ==
  LET t == pxReadyTasksLists[p][i] IN
  /\ p <= top
  /\ xTaskRunState[t] = taskTASK_NOT_RUNNING \/ t = pxCurrentTCBs[c]
  /\ OnePriority /\ p < top => p = 0 /\ xIsIdle(t)

\* Mutant of MovedToEnd: the chosen task keeps its place.
KeepsPlace(list, i) == list

\* The task at position i is removed and inserted at the end.
MovedToEnd(list, i) == Append(RemoveAt(list, i), list[i])

\* Mutant of Dispatched: a task that stays on its core keeps its run state.
KeepsRunState(c, t) ==
  IF t = pxCurrentTCBs[c] THEN xTaskRunState
  ELSE [xTaskRunState EXCEPT ![pxCurrentTCBs[c]] = taskTASK_NOT_RUNNING, ![t] = c]

\* The run states once core c has taken task t in place of its current one.
Dispatched(c, t) ==
  [xTaskRunState EXCEPT ![pxCurrentTCBs[c]] = taskTASK_NOT_RUNNING, ![t] = c]

\* The first such task of the highest such priority runs on core c, and goes to
\* the end of its list.  When the top priority drops, all idle cores yield.
prvSelectHighestPriorityTask(c) ==
  \E top, p \in Priorities : \E i \in 1 .. Len(pxReadyTasksLists[p]) :
    LET t == pxReadyTasksLists[p][i]
        cur == [pxCurrentTCBs EXCEPT ![c] = t]
        idleCores == IF OnePriority /\ top < uxTopReadyPriority
                     THEN {x \in Cores : xIsIdle(cur[x])} ELSE {}
    IN
    /\ IsTopReady(top) /\ MayRun(c, top, p, i)
    /\ \A j \in 1 .. i - 1 : ~MayRun(c, top, p, j)
    /\ \A q \in p + 1 .. top :
         \A j \in 1 .. Len(pxReadyTasksLists[q]) : ~MayRun(c, top, q, j)
    /\ pxCurrentTCBs' = cur
    /\ pxReadyTasksLists' = [pxReadyTasksLists EXCEPT ![p] = MovedToEnd(@, i)]
    /\ uxTopReadyPriority' = top
    /\ prvYieldCore(c, FALSE, idleCores, cur, Dispatched(c, t),
                    [xYieldPendings EXCEPT ![c] = FALSE])

\* It waits for the task lock while another core has the scheduler suspended;
\* when its own core has, the yield is left for xTaskResumeAll.
vTaskSwitchContext(c) ==
  /\ isr[c] = "switch" /\ taskLock \in {NoCore, c} /\ isrLock = NoCore
  /\ isr' = [isr EXCEPT ![c] = "none"]
  /\ \/ /\ uxSchedulerSuspended # 0
        /\ xYieldPendings' = [xYieldPendings EXCEPT ![c] = TRUE]
        /\ UNCHANGED <<pxCurrentTCBs, xTaskRunState, yieldIRQ, pxReadyTasksLists, uxTopReadyPriority>>
     \/ uxSchedulerSuspended = 0 /\ prvSelectHighestPriorityTask(c)
  /\ UNCHANGED <<xDelayedTaskList, xSuspendedTaskList, xTasksWaitingTermination,
                 uxPriority, pc, suspendVars, lockVars>>

-----------------------------------------------------------------------------
(* Suspending the scheduler.                                               *)

vTaskSuspendAll(c) ==
  /\ At(c, {"run"}) /\ MayCall(c, {"vTaskSuspendAll", "vTaskDelay"})
  /\ taskLock = NoCore /\ isrLock = NoCore
  /\ uxSchedulerSuspended' = uxSchedulerSuspended + 1
  /\ taskLock' = c
  /\ Goto(c, "susCheck")
  /\ UNCHANGED <<coreVars, listVars, uxPriority, isr, xPendedTicks, isrLock>>

\* Mutant of prvCheckForRunStateChange: the suspension is not undone.
CheckKeepsSuspension(c) ==
  /\ At(c, {"susCheck"})
  /\ IF xTaskRunState[pxCurrentTCBs[c]] = taskTASK_YIELDING
     THEN taskLock' = NoCore /\ Goto(c, "reacquire")
     ELSE UNCHANGED taskLock /\ Goto(c, "suspended")
  /\ UNCHANGED <<coreVars, listVars, uxPriority, isr, suspendVars, isrLock>>

\* The run state is looked at under the task lock only: a task that was asked
\* to yield undoes the suspension and lets itself be switched out.
prvCheckForRunStateChange(c) ==
  /\ At(c, {"susCheck"})
  /\ IF xTaskRunState[pxCurrentTCBs[c]] = taskTASK_YIELDING
     THEN uxSchedulerSuspended' = 0 /\ taskLock' = NoCore /\ Goto(c, "reacquire")
     ELSE UNCHANGED <<uxSchedulerSuspended, taskLock>> /\ Goto(c, "suspended")
  /\ UNCHANGED <<coreVars, listVars, uxPriority, isr, xPendedTicks, isrLock>>

\* The rest of its loop: once the pending interrupt has been serviced, the
\* suspension is restored and the run state is looked at again.
Reacquire(c) ==
  /\ At(c, {"reacquire"}) /\ ~yieldIRQ[c]
  /\ taskLock = NoCore /\ isrLock = NoCore
  /\ uxSchedulerSuspended' = 1
  /\ taskLock' = c
  /\ Goto(c, "susCheck")
  /\ UNCHANGED <<coreVars, listVars, uxPriority, isr, xPendedTicks, isrLock>>

\* vTaskDelay in its suspended region; xTaskResumeAll follows.
prvAddCurrentTaskToDelayedList(c) ==
  /\ At(c, {"suspended"}) /\ MayCall(c, {"vTaskDelay"})
  /\ MoveTo(pxCurrentTCBs[c], "delayed")
  /\ Goto(c, "delayed")
  /\ UNCHANGED <<coreVars, uxPriority, isr, suspendVars, lockVars>>

\* Mutant of xTaskResumeAll: the suspension is not undone.
ResumeKeepsSuspension(c) ==
  /\ isrLock = NoCore
  /\ At(c, {"delayed"}) \/ (At(c, {"suspended"}) /\ MayCall(c, {"vTaskSuspendAll"}))
  /\ isrLock' = c
  /\ Goto(c, IF pc[pxCurrentTCBs[c]] = "delayed" THEN "resumingDelay" ELSE "resuming")
  /\ UNCHANGED <<coreVars, listVars, uxPriority, isr, uxSchedulerSuspended, xPendedTicks,
                 taskLock>>

\* It releases the task lock once for the region; its critical section still
\* holds both locks until ResumeAllDone.
xTaskResumeAll(c) ==
  /\ isrLock = NoCore
  /\ At(c, {"delayed"}) \/ (At(c, {"suspended"}) /\ MayCall(c, {"vTaskSuspendAll"}))
  /\ isrLock' = c
  /\ uxSchedulerSuspended' = uxSchedulerSuspended - 1
  /\ Goto(c, IF pc[pxCurrentTCBs[c]] = "delayed" THEN "resumingDelay" ELSE "resuming")
  /\ UNCHANGED <<coreVars, listVars, uxPriority, isr, xPendedTicks, taskLock>>

\* Every pended tick is counted.  The result tells vTaskDelay whether a yield
\* is due anyway.
ResumeAllDone(c) ==
  /\ At(c, Resuming) /\ xPendedTicks = 0
  /\ taskLock' = NoCore /\ isrLock' = NoCore
  /\ Goto(c, IF pc[pxCurrentTCBs[c]] = "resumingDelay" /\ ~xYieldPendings[c]
             THEN "exitDelay" ELSE "exit")
  /\ UNCHANGED <<coreVars, listVars, uxPriority, isr, suspendVars>>

-----------------------------------------------------------------------------
(* The tick: xTaskIncrementTick from the timer interrupt, or from           *)
(* xTaskResumeAll for each tick that was pended.                           *)

TickInterrupt(c) ==
  /\ c \in TickCores /\ InterruptsEnabled(c) /\ isrLock = NoCore
  /\ xPendedTicks < MaxPendedTicks
  /\ isrLock' = c
  /\ isr' = [isr EXCEPT ![c] = "tick"]
  /\ UNCHANGED <<coreVars, listVars, uxPriority, pc, suspendVars, taskLock>>

\* A port may call vTaskSwitchContext after every tick, and must when
\* xTaskIncrementTick says so.
EndOfInterrupt(c, xSwitchRequired) ==
  \E handler \in IF xSwitchRequired THEN {"switch"} ELSE {"none", "switch"} :
    isr' = [isr EXCEPT ![c] = handler]

\* While the scheduler is suspended a tick is only pended.
PendTick(c) ==
  /\ isr[c] = "tick"
  /\ IF uxSchedulerSuspended = 0
     THEN /\ isr' = [isr EXCEPT ![c] = "ticking"]
          /\ UNCHANGED <<xPendedTicks, isrLock>>
     ELSE /\ xPendedTicks' = xPendedTicks + 1
          /\ isrLock' = NoCore
          /\ EndOfInterrupt(c, FALSE)
  /\ UNCHANGED <<coreVars, listVars, uxPriority, pc, uxSchedulerSuspended, taskLock>>

CountsTick(c) == InISR(c) \/ (At(c, Resuming) /\ xPendedTicks > 0)

\* One turn of the loop that unblocks the tasks whose time has come.
UnblockTask(c, t) ==
  /\ CountsTick(c) /\ t \in xDelayedTaskList
  /\ UNCHANGED uxPriority
  /\ MoveTo(t, "ready")
  /\ prvYieldForTask(c, InISR(c), t, TRUE)
  /\ UNCHANGED <<isr, pc, suspendVars, lockVars>>

\* The end of xTaskIncrementTick: cores whose task shares its priority with
\* another ready one yield, and so do those that owe a yield.
SliceTime(c) ==
  LET xCoreYieldList ==
        {x \in Cores : \/ configUSE_TIME_SLICING
                            /\ Len(pxReadyTasksLists[uxPriority[pxCurrentTCBs[x]]]) > 1
                       \/ xYieldPendings[x]}
      xSwitchRequired == c \in xCoreYieldList
  IN
  /\ CountsTick(c)
  /\ IF InISR(c)
     THEN /\ YieldCores(c, TRUE, xCoreYieldList \ {c})
          /\ isrLock' = NoCore
          /\ EndOfInterrupt(c, xSwitchRequired)
          /\ UNCHANGED xPendedTicks
     ELSE /\ UNCHANGED pxCurrentTCBs
          /\ prvYieldCore(c, FALSE, xCoreYieldList \ {c}, pxCurrentTCBs, xTaskRunState,
                          [xYieldPendings EXCEPT ![c] = @ \/ xSwitchRequired])
          /\ xPendedTicks' = xPendedTicks - 1
          /\ UNCHANGED <<isrLock, isr>>
  /\ UNCHANGED <<listVars, uxPriority, pc, uxSchedulerSuspended, taskLock>>

-----------------------------------------------------------------------------
(* Functions the application calls on a task t, each a critical section.   *)

Calls(c, function) ==
  /\ MayCall(c, {function})
  /\ vTaskEnterCritical(c)
  /\ Goto(c, AfterCritical(c))
  /\ UNCHANGED <<isr, suspendVars, lockVars>>

\* A task may not suspend or delete itself with the scheduler suspended.
MayStop(c, t) ==
  /\ t \in AppTasks /\ ~Deleted(t)
  /\ t = pxCurrentTCBs[c] => uxSchedulerSuspended = 0

vTaskSuspend(c, t) ==
  /\ Calls(c, "vTaskSuspend") /\ MayStop(c, t)
  /\ UNCHANGED uxPriority
  /\ MoveTo(t, "suspended")
  /\ YieldCores(c, FALSE, {xTaskRunState[t]} \cap Cores)

vTaskResume(c, t) ==
  /\ Calls(c, "vTaskResume") /\ t \in AppTasks /\ ~Deleted(t)
  /\ UNCHANGED uxPriority
  /\ IF t \in xSuspendedTaskList
     THEN MoveTo(t, "ready") /\ prvYieldForTask(c, FALSE, t, TRUE)
     ELSE UNCHANGED <<coreVars, listVars>>

\* Mutant of vTaskPrioritySet: the task stays on the list of its old priority.
PrioritySetKeepsList(c, t, uxNewPriority) ==
  /\ Calls(c, "vTaskPrioritySet") /\ t \in AppTasks /\ ~Deleted(t)
  /\ uxPriority' = [uxPriority EXCEPT ![t] = uxNewPriority]
  /\ UNCHANGED <<coreVars, listVars>>

\* A task that is lowered while it runs gives up its core; one that is raised
\* while it is ready is yielded for.
vTaskPrioritySet(c, t, uxNewPriority) ==
  LET lowered == uxNewPriority < uxPriority[t] IN
  /\ Calls(c, "vTaskPrioritySet") /\ t \in AppTasks /\ ~Deleted(t)
  /\ uxPriority' = [uxPriority EXCEPT ![t] = uxNewPriority]
  /\ IF uxNewPriority # uxPriority[t] /\ Ready(t)
     THEN MoveTo(t, "ready")
     ELSE UNCHANGED listVars
  /\ IF lowered /\ IsRunning(t)
     THEN YieldCores(c, FALSE, {xTaskRunState[t]})
     ELSE IF uxNewPriority > uxPriority[t] /\ Ready(t)
          THEN prvYieldForTask(c, FALSE, t, TRUE)
          ELSE UNCHANGED coreVars

\* xTaskCreate once it has its memory; the TCB may be one that was freed.
prvAddNewTaskToReadyList(c, t, prio) ==
  /\ MayCall(c, {"xTaskCreate"})
  /\ vTaskEnterCritical(c)
  /\ t \in AppTasks /\ ~Allocated(t)
  /\ uxPriority' = [uxPriority EXCEPT ![t] = prio]
  /\ MoveTo(t, "ready")
  /\ prvYieldForTask(c, FALSE, t, FALSE)
  /\ pc' = [pc EXCEPT ![t] = "run", ![pxCurrentTCBs[c]] = AfterCritical(c)]
  /\ UNCHANGED <<isr, suspendVars, lockVars>>

\* A task that is not on a core is freed at once; one that is waits on the
\* termination list.
vTaskDelete(c, t) ==
  /\ Calls(c, "vTaskDelete") /\ MayStop(c, t)
  /\ UNCHANGED uxPriority
  /\ MoveTo(t, IF xTaskRunState[t] = taskTASK_NOT_RUNNING THEN "none" ELSE "termination")
  /\ YieldCores(c, FALSE, {xTaskRunState[t]} \cap Cores)

\* Mutant of prvCheckTasksWaitingTermination: it frees without looking.
FreesAtOnce(c) ==
  /\ pxCurrentTCBs[c] = xIdleTaskHandle[0] /\ vTaskEnterCritical(c)
  /\ xTasksWaitingTermination # <<>>
  /\ UNCHANGED uxPriority
  /\ MoveTo(Head(xTasksWaitingTermination), "none")
  /\ Goto(c, AfterCritical(c))
  /\ UNCHANGED <<coreVars, isr, suspendVars, lockVars>>

\* Only the idle task of core 0 runs this; it frees the oldest deleted task if
\* that has been switched out, and else looks again later.
prvCheckTasksWaitingTermination(c) ==
  /\ pxCurrentTCBs[c] = xIdleTaskHandle[0] /\ vTaskEnterCritical(c)
  /\ xTasksWaitingTermination # <<>>
  /\ UNCHANGED uxPriority
  /\ LET t == Head(xTasksWaitingTermination)
     IN  IF xTaskRunState[t] = taskTASK_NOT_RUNNING THEN MoveTo(t, "none") ELSE UNCHANGED listVars
  /\ Goto(c, AfterCritical(c))
  /\ UNCHANGED <<coreVars, isr, suspendVars, lockVars>>

-----------------------------------------------------------------------------
\* xPortStartScheduler starts every core in its idle task, whose first act is
\* to yield.
Init ==
  /\ pxCurrentTCBs = xIdleTaskHandle
  /\ xTaskRunState = [t \in Tasks |-> IF xIsIdle(t) THEN CHOOSE c \in Cores : xIdleTaskHandle[c] = t
                                      ELSE taskTASK_NOT_RUNNING]
  /\ uxPriority = InitPriority
  /\ pxReadyTasksLists = InitReadyLists
  /\ uxTopReadyPriority \in Priorities /\ InitReadyLists[uxTopReadyPriority] # <<>>
  /\ \A p \in Priorities : p > uxTopReadyPriority => InitReadyLists[p] = <<>>
  /\ xDelayedTaskList = {} /\ xSuspendedTaskList = {} /\ xTasksWaitingTermination = <<>>
  /\ xYieldPendings = [c \in Cores |-> FALSE]
  /\ yieldIRQ = [c \in Cores |-> FALSE]
  /\ isr = [c \in Cores |-> "none"]
  /\ pc = [t \in Tasks |-> IF xIsIdle(t) THEN "yield" ELSE "run"]
  /\ uxSchedulerSuspended = 0 /\ xPendedTicks = 0
  /\ taskLock = NoCore /\ isrLock = NoCore

SchedulerStep(c) ==
  \/ vTaskExitCritical(c) \/ vTaskYieldWithinAPI(c) \/ YieldInterrupt(c)
  \/ vTaskSwitchContext(c) \/ prvCheckForRunStateChange(c) \/ Reacquire(c)
  \/ xTaskResumeAll(c) \/ ResumeAllDone(c)
  \/ PendTick(c) \/ SliceTime(c)

ApplicationStep(c) ==
  \/ taskYIELD(c) \/ prvIdleTask(c) \/ prvCheckTasksWaitingTermination(c)
  \/ vTaskSuspendAll(c) \/ prvAddCurrentTaskToDelayedList(c)
  \/ \E t \in Tasks : \/ vTaskSuspend(c, t) \/ vTaskResume(c, t) \/ vTaskDelete(c, t)
                      \/ \E p \in Priorities : \/ vTaskPrioritySet(c, t, p)
                                               \/ prvAddNewTaskToReadyList(c, t, p)

Next == \E c \in Cores : \/ SchedulerStep(c) \/ ApplicationStep(c) \/ TickInterrupt(c)
                         \/ \E t \in Tasks : UnblockTask(c, t)

Spec == Init /\ [][Next]_vars

\* The cores and their kernel code keep running, interrupts that are enabled
\* again and again are taken, a port lock that is released again and again is
\* granted, and the timer does not stop.
Fairness ==
  /\ \A c \in Cores :
       /\ WF_vars(vTaskExitCritical(c)) /\ WF_vars(vTaskYieldWithinAPI(c))
       /\ WF_vars(prvCheckForRunStateChange(c)) /\ WF_vars(ResumeAllDone(c))
       /\ WF_vars(PendTick(c)) /\ WF_vars(SliceTime(c)) /\ WF_vars(prvIdleTask(c))
       /\ SF_vars(YieldInterrupt(c)) /\ SF_vars(vTaskSwitchContext(c))
       /\ SF_vars(Reacquire(c))
       /\ SF_vars(prvAddCurrentTaskToDelayedList(c) \/ xTaskResumeAll(c))
  /\ \A c \in TickCores : SF_vars(TickInterrupt(c))

FairSpec == Spec /\ Fairness

-----------------------------------------------------------------------------
(* Correctness.                                                            *)

\* The types of the variables.
TypeOK ==
  /\ pxCurrentTCBs \in [Cores -> Tasks]
  /\ xTaskRunState \in [Tasks -> Cores \cup {taskTASK_NOT_RUNNING, taskTASK_YIELDING}]
  /\ uxPriority \in [Tasks -> Priorities]
  /\ pxReadyTasksLists \in [Priorities -> Seq(Tasks)]
  /\ uxTopReadyPriority \in Priorities
  /\ xDelayedTaskList \subseteq Tasks
  /\ xSuspendedTaskList \subseteq Tasks
  /\ xTasksWaitingTermination \in Seq(Tasks)
  /\ xYieldPendings \in [Cores -> BOOLEAN]
  /\ yieldIRQ \in [Cores -> BOOLEAN]
  /\ isr \in [Cores -> ISRs]
  /\ pc \in [Tasks -> PCs]
  /\ uxSchedulerSuspended \in {0, 1}
  /\ xPendedTicks \in Nat
  /\ taskLock \in Cores \cup {NoCore}
  /\ isrLock \in Cores \cup {NoCore}

\* No task runs on two cores, and a task's run state names the core that
\* executes it (or says that this core was asked to yield).
RunStateMatchesCore ==
  /\ \A c \in Cores : xTaskRunState[pxCurrentTCBs[c]] \in {c, taskTASK_YIELDING}
  /\ \A c, d \in Cores : pxCurrentTCBs[c] = pxCurrentTCBs[d] => c = d
  /\ \A t \in Tasks : xTaskRunState[t] # taskTASK_NOT_RUNNING => \E c \in Cores : pxCurrentTCBs[c] = t

\* A suspended scheduler belongs to one task, which keeps its core and the
\* task lock until it calls xTaskResumeAll.
SuspensionIsExclusive ==
  /\ uxSchedulerSuspended > 0 =>
       taskLock \in Cores /\ pc[pxCurrentTCBs[taskLock]] \in SuspendedRegion
  /\ \A t \in Tasks : pc[t] \in SuspendedRegion =>
       taskLock \in Cores /\ pxCurrentTCBs[taskLock] = t /\ uxSchedulerSuspended = 1

\* A yield asked of a core is never forgotten: the interrupt is on its way, the
\* core is switching, or its task will pass the end of a critical section.
YieldRequestIsKept ==
  \A c \in Cores :
    /\ xTaskRunState[pxCurrentTCBs[c]] = taskTASK_YIELDING =>
         yieldIRQ[c] \/ isr[c] = "switch" \/ xYieldPendings[c]
    /\ xYieldPendings[c] =>
         \/ isr[c] \in {"ticking", "switch"}
         \/ pc[pxCurrentTCBs[c]] \in {"exit", "exitDelay"} \cup SuspendedRegion \cup Resuming
         \/ OnePriority /\ xIsIdle(pxCurrentTCBs[c])

\* A freed TCB is on no core.
FreedTaskIsOffCore ==
  \A t \in Tasks : ~Allocated(t) => \A c \in Cores : pxCurrentTCBs[c] # t

\* uxTopReadyPriority is never below a ready task, and a ready task is on the
\* list of its own priority: the search for the next task overlooks nobody.
ReadyTasksAreFound ==
  \A p \in Priorities : \A i \in 1 .. Len(pxReadyTasksLists[p]) :
    p <= uxTopReadyPriority /\ uxPriority[pxReadyTasksLists[p][i]] = p

\* The search always ends: a core that switches finds a task it may run.
SwitchFindsTask ==
  \A c \in Cores : isr[c] = "switch" =>
    \E top, p \in Priorities : \E i \in 1 .. Len(pxReadyTasksLists[p]) :
      IsTopReady(top) /\ MayRun(c, top, p, i)

\* A core that goes on with its task: it owes no yield and is not about to
\* switch or block.
Settled(c) ==
  /\ xTaskRunState[pxCurrentTCBs[c]] = c /\ ~xYieldPendings[c]
  /\ At(c, {"run", "suspended", "exit", "exitSuspended"})
  /\ Ready(pxCurrentTCBs[c])

Waiting(t) == Ready(t) /\ xTaskRunState[t] = taskTASK_NOT_RUNNING

\* When no tick is being counted, at most as many ready tasks outrank a task
\* that goes on running as there are cores about to switch.
HighestPrioritiesRun ==
  isrLock = NoCore /\ configRUN_MULTIPLE_PRIORITIES =>
    \A c \in Cores : Settled(c) =>
      Cardinality({t \in Tasks : Waiting(t) /\ uxPriority[t] > uxPriority[pxCurrentTCBs[c]]})
        <= Cardinality({d \in Cores : ~Settled(d)})

\* With configRUN_MULTIPLE_PRIORITIES 0 the application tasks that go on
\* running all have one priority.
OnePriorityRuns ==
  isrLock = NoCore /\ OnePriority =>
    \A c, d \in Cores : 
      Settled(c) /\ Settled(d) /\ ~xIsIdle(pxCurrentTCBs[c]) /\ ~xIsIdle(pxCurrentTCBs[d]) =>
        uxPriority[pxCurrentTCBs[c]] = uxPriority[pxCurrentTCBs[d]]

\* Time slicing is fair: every task of the highest ready priority runs again
\* and again (for instances whose application tasks all have one priority).
EveryTaskRuns == \A t \in AppTasks : []<>(xTaskRunState[t] \in Cores)

\* A core that was asked to yield does switch.
YieldRequestIsServed ==
  \A c \in Cores : xTaskRunState[pxCurrentTCBs[c]] = taskTASK_YIELDING
                     ~> xTaskRunState[pxCurrentTCBs[c]] = c

\* Ticks pended while the scheduler was suspended are counted when it is
\* resumed: none is left when nobody has it suspended (tasks.c 3007-3016).
PendedTicksHaveOwner ==
  xPendedTicks > 0 => uxSchedulerSuspended > 0 \/ \E c \in Cores : At(c, Resuming)
=============================================================================
