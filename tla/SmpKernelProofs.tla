--------------------------- MODULE SmpKernelProofs ---------------------------
(***************************************************************************)
(* Proofs about SmpKernel for any number of cores, tasks and priorities.   *)
(*                                                                         *)
(* IInv, the inductive invariant, joins three parts that every step        *)
(* preserves: CoreOK (run states match cores), ListOK (the lists hold      *)
(* tasks) and LockOK (who holds the locks and has the scheduler suspended, *)
(* told by where the tasks and handlers stand).                            *)
(*                                                                         *)
(* The others rest on it.  PlaceOK: each task is filed once, under its own *)
(* priority, the idle tasks always ready, freed ones on no core.           *)
(* IdleOutside: where idle tasks stand.  YieldOK: a yield owed or asked    *)
(* for has somebody who will do it.  StaysReady: a core that nothing makes *)
(* switch runs a ready task.  TopStays: with one priority at a time it     *)
(* runs the top one.  RankOK: with several, as many cores are asked to     *)
(* switch as waiting tasks outrank what a core stays with.                 *)
(***************************************************************************)
EXTENDS SmpKernel, SequenceTheorems, FiniteSetTheorems, WellFoundedInduction, TLAPS

RunStates == Cores \cup {taskTASK_NOT_RUNNING, taskTASK_YIELDING}

\* RunStateMatchesCore, of given current tasks and run states.
Matches(cur, st) ==
  /\ \A c \in Cores : st[cur[c]] \in {c, taskTASK_YIELDING}
  /\ \A c, d \in Cores : cur[c] = cur[d] => c = d
  /\ \A t \in Tasks : st[t] # taskTASK_NOT_RUNNING => \E c \in Cores : cur[c] = t

CoreOK ==
  /\ pxCurrentTCBs \in [Cores -> Tasks]
  /\ xTaskRunState \in [Tasks -> RunStates]
  /\ xYieldPendings \in [Cores -> BOOLEAN]
  /\ yieldIRQ \in [Cores -> BOOLEAN]
  /\ Matches(pxCurrentTCBs, xTaskRunState)

ListOK ==
  /\ uxPriority \in [Tasks -> Priorities]
  /\ pxReadyTasksLists \in [Priorities -> Seq(Tasks)]
  /\ uxTopReadyPriority \in Priorities
  /\ xDelayedTaskList \subseteq Tasks
  /\ xSuspendedTaskList \subseteq Tasks
  /\ xTasksWaitingTermination \in Seq(Tasks)

ControlTypes ==
  /\ isr \in [Cores -> ISRs]
  /\ pc \in [Tasks -> PCs]
  /\ uxSchedulerSuspended \in {0, 1}
  /\ xPendedTicks \in Nat
  /\ taskLock \in Cores \cup {NoCore}
  /\ isrLock \in Cores \cup {NoCore}

\* A core counts a tick under the ISR lock; a task in xTaskResumeAll holds both
\* locks and has ended the suspension; a core takes no interrupt while its task
\* has disabled them.
LocksHeld ==
  /\ \A c \in Cores : isr[c] \in {"tick", "ticking"} => isrLock = c
  /\ \A t \in Tasks : pc[t] \in Resuming =>
       /\ taskLock \in Cores /\ pxCurrentTCBs[taskLock] = t
       /\ isrLock = taskLock /\ uxSchedulerSuspended = 0
  /\ \A c \in Cores : isr[c] # "none" => pc[pxCurrentTCBs[c]] \notin {"susCheck"} \cup Resuming

LockOK == ControlTypes /\ SuspensionIsExclusive /\ LocksHeld

IInv == CoreOK /\ ListOK /\ LockOK

-----------------------------------------------------------------------------
(* Run states.                                                             *)

LEMMA CoreFacts ==
  /\ NoCore \notin Cores /\ taskTASK_NOT_RUNNING \notin Cores
  /\ taskTASK_YIELDING \notin Cores /\ taskTASK_NOT_RUNNING # taskTASK_YIELDING
BY DEF Cores, NoCore, taskTASK_NOT_RUNNING, taskTASK_YIELDING

\* Asking cores to yield keeps run states and cores in agreement.
LEMMA YieldKeepsMatch ==
  ASSUME NEW me \in Cores, NEW inISR, NEW S \in SUBSET Cores, NEW cur \in [Cores -> Tasks],
         NEW st \in [Tasks -> RunStates], NEW pend \in [Cores -> BOOLEAN],
         yieldIRQ \in [Cores -> BOOLEAN],
         Matches(cur, st), prvYieldCore(me, inISR, S, cur, st, pend)
  PROVE  /\ xTaskRunState' \in [Tasks -> RunStates]
         /\ xYieldPendings' \in [Cores -> BOOLEAN]
         /\ yieldIRQ' \in [Cores -> BOOLEAN]
         /\ Matches(cur, xTaskRunState')
<1> DEFINE asked == {x \in S : st[cur[x]] # taskTASK_YIELDING}
           Stopped(t) == \E x \in asked \ {me} : cur[x] = t
           new == [t \in Tasks |-> IF Stopped(t) THEN taskTASK_YIELDING ELSE st[t]]
<1>1. xTaskRunState' = new
  BY Zenon DEF prvYieldCore
<1>2. xYieldPendings' \in [Cores -> BOOLEAN] /\ yieldIRQ' \in [Cores -> BOOLEAN]
  BY DEF prvYieldCore
<1>3. new \in [Tasks -> RunStates]
  BY DEF RunStates
<1>4. ASSUME NEW t \in Tasks
      PROVE  /\ new[t] = taskTASK_YIELDING \/ new[t] = st[t]
             /\ new[t] # taskTASK_NOT_RUNNING => \E c \in Cores : cur[c] = t
  <2>1. CASE Stopped(t)
    BY <2>1
  <2>2. CASE ~Stopped(t)
    BY <2>2 DEF Matches
  <2> QED BY <2>1, <2>2
<1> HIDE DEF new
<1>5. Matches(cur, new)
  BY <1>4 DEF Matches
<1> QED
  BY <1>1, <1>2, <1>3, <1>5

LEMMA CoreUnchanged == CoreOK /\ UNCHANGED coreVars => CoreOK'
BY DEF CoreOK, coreVars, Matches

LEMMA CoreYieldCores ==
  ASSUME CoreOK, NEW me \in Cores, NEW inISR, NEW S \in SUBSET Cores, YieldCores(me, inISR, S)
  PROVE  CoreOK'
BY YieldKeepsMatch DEF CoreOK, YieldCores

LEMMA CoreYieldForTask ==
  ASSUME CoreOK, NEW me \in Cores, NEW inISR, NEW t, NEW preemptEqual,
         prvYieldForTask(me, inISR, t, preemptEqual)
  PROVE  CoreOK'
<1>1. CoresYieldingFor(t, preemptEqual) \in SUBSET Cores
  BY DEF CoresYieldingFor
<1> QED
  BY <1>1, YieldKeepsMatch DEF CoreOK, prvYieldForTask

-----------------------------------------------------------------------------
(* Lists.                                                                  *)

LEMMA RemoveAtType ==
  ASSUME NEW S, NEW s \in Seq(S), NEW i \in 1 .. Len(s)
  PROVE  RemoveAt(s, i) \in Seq(S)
<1>1. SubSeq(s, 1, i - 1) \in Seq(S) /\ SubSeq(s, i + 1, Len(s)) \in Seq(S)
  BY SubSeqProperties, ElementOfSeq, LenProperties
<1> QED
  BY <1>1, ConcatProperties DEF RemoveAt

LEMMA uxListRemoveType ==
  ASSUME NEW S, NEW s \in Seq(S), NEW t
  PROVE  uxListRemove(s, t) \in Seq(S)
<1>1. CASE InList(s, t)
  <2>1. Position(s, t) \in 1 .. Len(s)
    BY <1>1 DEF InList, Position
  <2> QED
    BY <1>1, <2>1, RemoveAtType DEF uxListRemove
<1>2. CASE ~InList(s, t)
  BY <1>2 DEF uxListRemove
<1> QED
  BY <1>1, <1>2

LEMMA MovedToEndType ==
  ASSUME NEW S, NEW s \in Seq(S), NEW i \in 1 .. Len(s)
  PROVE  MovedToEnd(s, i) \in Seq(S)
BY RemoveAtType, AppendProperties, ElementOfSeq DEF MovedToEnd

\* Moving a task between lists keeps them lists of tasks.
LEMMA MoveToType ==
  ASSUME ListOK, uxPriority' \in [Tasks -> Priorities], NEW t \in Tasks, NEW list, MoveTo(t, list)
  PROVE  ListOK'
<1> DEFINE without == [p \in Priorities |-> uxListRemove(pxReadyTasksLists[p], t)]
           w == uxListRemove(xTasksWaitingTermination, t)
<1>1. without \in [Priorities -> Seq(Tasks)]
  BY uxListRemoveType DEF ListOK
<1>2. w \in Seq(Tasks)
  BY uxListRemoveType DEF ListOK
<1>3. uxPriority'[t] \in Priorities
  OBVIOUS
<1>4. xTasksWaitingTermination' = IF list = "termination" THEN Append(w, t) ELSE w
  BY DEF MoveTo
<1>5. pxReadyTasksLists' = IF list = "ready"
                           THEN [without EXCEPT ![uxPriority'[t]] = Append(@, t)] ELSE without
  BY DEF MoveTo
<1> HIDE DEF without, w
<1>6. xTasksWaitingTermination' \in Seq(Tasks)
  BY <1>2, <1>4, AppendProperties
<1>7. pxReadyTasksLists' \in [Priorities -> Seq(Tasks)]
  <2>1. CASE list = "ready"
    <3>1. Append(without[uxPriority'[t]], t) \in Seq(Tasks)
      BY <1>1, <1>3, AppendProperties
    <3> QED
      BY <1>1, <1>3, <1>5, <2>1, <3>1
  <2> QED
    BY <1>1, <1>5, <2>1
<1>8. /\ xDelayedTaskList' \subseteq Tasks /\ xSuspendedTaskList' \subseteq Tasks
      /\ uxTopReadyPriority' \in Priorities
  BY <1>3 DEF MoveTo, ListOK
<1> QED
  BY <1>6, <1>7, <1>8 DEF ListOK

LEMMA ListUnchanged == ListOK /\ UNCHANGED <<listVars, uxPriority>> => ListOK'
BY DEF ListOK, listVars

-----------------------------------------------------------------------------
(* The context switch chooses a task nobody runs, or the core's own.       *)

LEMMA SelectKeepsCoreAndLists ==
  ASSUME CoreOK, ListOK, NEW c \in Cores, prvSelectHighestPriorityTask(c), UNCHANGED uxPriority,
         UNCHANGED <<xDelayedTaskList, xSuspendedTaskList, xTasksWaitingTermination>>
  PROVE  CoreOK' /\ ListOK'
<1>1. PICK top \in Priorities, p \in Priorities : \E i \in 1 .. Len(pxReadyTasksLists[p]) :
        LET t == pxReadyTasksLists[p][i]
            cur == [pxCurrentTCBs EXCEPT ![c] = t]
            idleCores == IF OnePriority /\ top < uxTopReadyPriority
                         THEN {x \in Cores : xIsIdle(cur[x])} ELSE {}
        IN
        /\ MayRun(c, top, p, i)
        /\ pxCurrentTCBs' = cur
        /\ pxReadyTasksLists' = [pxReadyTasksLists EXCEPT ![p] = MovedToEnd(@, i)]
        /\ uxTopReadyPriority' = top
        /\ prvYieldCore(c, FALSE, idleCores, cur, Dispatched(c, t),
                        [xYieldPendings EXCEPT ![c] = FALSE])
  BY DEF prvSelectHighestPriorityTask
<1>2. PICK i \in 1 .. Len(pxReadyTasksLists[p]) :
        LET t == pxReadyTasksLists[p][i]
            cur == [pxCurrentTCBs EXCEPT ![c] = t]
            idleCores == IF OnePriority /\ top < uxTopReadyPriority
                         THEN {x \in Cores : xIsIdle(cur[x])} ELSE {}
        IN
        /\ MayRun(c, top, p, i)
        /\ pxCurrentTCBs' = cur
        /\ pxReadyTasksLists' = [pxReadyTasksLists EXCEPT ![p] = MovedToEnd(@, i)]
        /\ uxTopReadyPriority' = top
        /\ prvYieldCore(c, FALSE, idleCores, cur, Dispatched(c, t),
                        [xYieldPendings EXCEPT ![c] = FALSE])
  BY <1>1
<1> DEFINE t == pxReadyTasksLists[p][i]
           old == pxCurrentTCBs[c]
           cur == [pxCurrentTCBs EXCEPT ![c] = t]
           idleCores == IF OnePriority /\ top < uxTopReadyPriority
                        THEN {x \in Cores : xIsIdle(cur[x])} ELSE {}
           st == [xTaskRunState EXCEPT ![old] = taskTASK_NOT_RUNNING, ![t] = c]
           pend == [xYieldPendings EXCEPT ![c] = FALSE]
<1>3. /\ pxCurrentTCBs' = cur
      /\ pxReadyTasksLists' = [pxReadyTasksLists EXCEPT ![p] = MovedToEnd(@, i)]
      /\ uxTopReadyPriority' = top
      /\ prvYieldCore(c, FALSE, idleCores, cur, st, pend)
  BY <1>2 DEF Dispatched
<1>4. t \in Tasks /\ old \in Tasks
  BY ElementOfSeq DEF ListOK, CoreOK
<1>5. xTaskRunState[t] = taskTASK_NOT_RUNNING \/ t = old
  BY <1>2 DEF MayRun
<1>6. cur \in [Cores -> Tasks] /\ pend \in [Cores -> BOOLEAN] /\ idleCores \in SUBSET Cores
  BY <1>4 DEF CoreOK
<1>7. st \in [Tasks -> RunStates]
  BY <1>4 DEF CoreOK, RunStates
<1>8. Matches(cur, st)
  <2>1. \A d \in Cores \ {c} : /\ pxCurrentTCBs[d] # t /\ pxCurrentTCBs[d] # old
                               /\ pxCurrentTCBs[d] \in Tasks
    BY <1>5, CoreFacts DEF CoreOK, Matches
  <2>2. \A d \in Cores \ {c} : cur[d] = pxCurrentTCBs[d] /\ st[cur[d]] = xTaskRunState[cur[d]]
    BY <2>1, <1>4 DEF CoreOK
  <2>3. cur[c] = t /\ st[t] = c
    BY <1>4 DEF CoreOK
  <2>4. \A d \in Cores : st[cur[d]] \in {d, taskTASK_YIELDING}
    BY <2>2, <2>3 DEF CoreOK, Matches
  <2>5. \A d, x \in Cores : cur[d] = cur[x] => d = x
    BY <2>1, <2>2, <2>3 DEF CoreOK, Matches
  <2>6. ASSUME NEW u \in Tasks, st[u] # taskTASK_NOT_RUNNING
        PROVE  \E d \in Cores : cur[d] = u
    <3>1. CASE u = t
      BY <3>1, <2>3
    <3>2. CASE u # t
      <4>1. u # old /\ xTaskRunState[u] # taskTASK_NOT_RUNNING
        BY <3>2, <2>6, <1>4 DEF CoreOK
      <4>2. PICK d \in Cores : pxCurrentTCBs[d] = u
        BY <4>1 DEF CoreOK, Matches
      <4> QED
        BY <4>1, <4>2, <2>2
    <3> QED BY <3>1, <3>2
  <2> HIDE DEF cur, st
  <2> QED
    BY <2>4, <2>5, <2>6 DEF Matches
<1> HIDE DEF cur, st, pend, idleCores
<1>9. CoreOK'
  <2>1. yieldIRQ \in [Cores -> BOOLEAN]
    BY DEF CoreOK
  <2>2. /\ xTaskRunState' \in [Tasks -> RunStates]
        /\ xYieldPendings' \in [Cores -> BOOLEAN]
        /\ yieldIRQ' \in [Cores -> BOOLEAN]
        /\ Matches(cur, xTaskRunState')
    BY <1>3, <1>6, <1>7, <1>8, <2>1, YieldKeepsMatch
  <2> QED
    BY <1>3, <1>6, <2>2 DEF CoreOK
<1>10. ListOK'
  <2>1. MovedToEnd(pxReadyTasksLists[p], i) \in Seq(Tasks)
    BY MovedToEndType DEF ListOK
  <2> QED
    BY <1>3, <2>1 DEF ListOK
<1> QED
  BY <1>9, <1>10

-----------------------------------------------------------------------------
(* Control: where the tasks and handlers stand, and who holds the locks.   *)

\* A scheduler nobody holds the task lock of is not suspended, and then no task
\* is in a suspended region or in xTaskResumeAll.
LEMMA FreeLock ==
  ASSUME LockOK, taskLock = NoCore
  PROVE  /\ uxSchedulerSuspended = 0
         /\ \A t \in Tasks : pc[t] \notin SuspendedRegion \cup Resuming
BY CoreFacts DEF LockOK, ControlTypes, SuspensionIsExclusive, LocksHeld

\* A task that is in one of them is the current task of the core that holds it.
LEMMA LockOwner ==
  ASSUME CoreOK, LockOK, NEW c \in Cores, pc[pxCurrentTCBs[c]] \in SuspendedRegion \cup Resuming
  PROVE  /\ taskLock = c
         /\ \A t \in Tasks : pc[t] \in SuspendedRegion \cup Resuming => t = pxCurrentTCBs[c]
BY DEF CoreOK, Matches, LockOK, SuspensionIsExclusive, LocksHeld

\* A core that takes the ISR lock from a handler meets no task that holds it.
LEMMA NobodyResumes ==
  ASSUME CoreOK, LockOK, NEW c \in Cores, isrLock \in {NoCore, c}, isr[c] # "none"
  PROVE  \A t \in Tasks : pc[t] \notin Resuming
BY CoreFacts DEF CoreOK, LockOK, LocksHeld

LEMMA PCFacts ==
  /\ SuspendedRegion \cap Resuming = {}
  /\ "run" \in PCs /\ "exit" \in PCs /\ "exitDelay" \in PCs /\ "yield" \in PCs /\ "reacquire" \in PCs
  /\ SuspendedRegion \cup Resuming \subseteq PCs
  /\ {"run", "exit", "exitDelay", "yield", "reacquire"} \cap (SuspendedRegion \cup Resuming) = {}
BY DEF SuspendedRegion, Resuming, PCs

\* A step that takes no task into or out of the points where locks matter, and
\* no core into a handler other than the switch.
LEMMA ControlSame ==
  ASSUME CoreOK, LockOK, NEW c \in Cores,
         UNCHANGED <<pxCurrentTCBs, suspendVars, lockVars>>,
         pc' \in [Tasks -> PCs],
         \A t \in Tasks : /\ pc'[t] \in SuspendedRegion <=> pc[t] \in SuspendedRegion
                          /\ pc'[t] \in Resuming <=> pc[t] \in Resuming
                          /\ pc'[t] = "susCheck" <=> pc[t] = "susCheck",
         \/ isr' = isr
         \/ /\ isr' = [isr EXCEPT ![c] = "switch"]
            /\ pc[pxCurrentTCBs[c]] \notin {"susCheck"} \cup Resuming
  PROVE  LockOK'
<1>1. ControlTypes'
  BY DEF LockOK, ControlTypes, ISRs, suspendVars, lockVars
<1>2. SuspensionIsExclusive'
  BY DEF LockOK, SuspensionIsExclusive, suspendVars, lockVars, CoreOK
<1>3. LocksHeld'
  <2>1. \A d \in Cores : isr'[d] \in {"tick", "ticking"} => isrLock' = d
    BY DEF LockOK, ControlTypes, LocksHeld, lockVars
  <2>2. \A d \in Cores : pxCurrentTCBs'[d] \in Tasks /\ pxCurrentTCBs'[d] = pxCurrentTCBs[d]
    BY DEF CoreOK
  <2>3. \A d \in Cores : isr'[d] # "none" => pc'[pxCurrentTCBs'[d]] \notin {"susCheck"} \cup Resuming
    BY <2>2 DEF LockOK, ControlTypes, LocksHeld
  <2> QED
    BY <2>1, <2>3 DEF LockOK, LocksHeld, suspendVars, lockVars
<1> QED
  BY <1>1, <1>2, <1>3 DEF LockOK

\* The same, when only the task on core c moves, to a point like the one before.
LEMMA ControlKept ==
  ASSUME CoreOK, LockOK, NEW c \in Cores, NEW point \in PCs,
         UNCHANGED <<pxCurrentTCBs, suspendVars, lockVars>>,
         pc[pxCurrentTCBs[c]] \notin {"susCheck"} \cup Resuming,
         point \notin {"susCheck"} \cup Resuming,
         point \in SuspendedRegion <=> pc[pxCurrentTCBs[c]] \in SuspendedRegion,
         pc' = [pc EXCEPT ![pxCurrentTCBs[c]] = point],
         isr' = isr \/ isr' = [isr EXCEPT ![c] = "switch"]
  PROVE  LockOK'
<1>1. pxCurrentTCBs[c] \in Tasks /\ pc \in [Tasks -> PCs]
  BY DEF CoreOK, LockOK, ControlTypes
<1>2. pc' \in [Tasks -> PCs]
  BY <1>1
<1>3. \A t \in Tasks : /\ pc'[t] \in SuspendedRegion <=> pc[t] \in SuspendedRegion
                       /\ pc'[t] \in Resuming <=> pc[t] \in Resuming
                       /\ pc'[t] = "susCheck" <=> pc[t] = "susCheck"
  BY <1>1
<1> QED
  BY <1>2, <1>3, ControlSame

\* A yield of core c outside its critical points.
LEMMA ControlYield ==
  ASSUME CoreOK, LockOK, NEW c \in Cores,
         UNCHANGED <<pxCurrentTCBs, pc, suspendVars, lockVars>>,
         pc[pxCurrentTCBs[c]] \notin {"susCheck"} \cup Resuming, portYIELD(c)
  PROVE  LockOK'
BY ControlSame DEF portYIELD, LockOK, ControlTypes

LEMMA ControlUnchanged ==
  LockOK /\ UNCHANGED <<pxCurrentTCBs, isr, pc, suspendVars, lockVars>> => LockOK'
BY DEF LockOK, ControlTypes, SuspensionIsExclusive, LocksHeld, suspendVars, lockVars

\* A function called in a critical section comes back to where it was called.
LEMMA ControlCritical ==
  ASSUME CoreOK, LockOK, NEW c \in Cores, vTaskEnterCritical(c),
         UNCHANGED <<pxCurrentTCBs, isr, suspendVars, lockVars>>, Goto(c, AfterCritical(c))
  PROVE  LockOK'
<1>1. CASE pc[pxCurrentTCBs[c]] = "run"
  BY <1>1, ControlKept DEF AfterCritical, Goto, PCs, Resuming, SuspendedRegion
<1>2. CASE pc[pxCurrentTCBs[c]] = "suspended"
  BY <1>2, ControlKept DEF AfterCritical, Goto, PCs, Resuming, SuspendedRegion
<1> QED
  BY <1>1, <1>2 DEF vTaskEnterCritical, At

-----------------------------------------------------------------------------
(* The actions that suspend and resume the scheduler.                      *)

\* vTaskSuspendAll, and the end of the loop in prvCheckForRunStateChange.
LEMMA ControlSuspend ==
  ASSUME CoreOK, LockOK, NEW c \in Cores, isr[c] = "none", taskLock = NoCore, isrLock = NoCore,
         uxSchedulerSuspended' = 1, taskLock' = c, Goto(c, "susCheck"),
         UNCHANGED <<coreVars, isr, xPendedTicks, isrLock>>
  PROVE  LockOK'
<1>1. pxCurrentTCBs[c] \in Tasks /\ pc \in [Tasks -> PCs] /\ pxCurrentTCBs' = pxCurrentTCBs
  BY DEF CoreOK, LockOK, ControlTypes, coreVars
<1>2. \A t \in Tasks : pc[t] \notin SuspendedRegion \cup Resuming
  BY FreeLock
<1>3. \A t \in Tasks : pc'[t] = IF t = pxCurrentTCBs[c] THEN "susCheck" ELSE pc[t]
  BY <1>1 DEF Goto
<1>4. ControlTypes'
  BY <1>1 DEF LockOK, ControlTypes, Goto, PCs, SuspendedRegion
<1>5. SuspensionIsExclusive'
  BY <1>1, <1>2, <1>3 DEF SuspensionIsExclusive, SuspendedRegion
<1>6. LocksHeld'
  <2>1. \A d \in Cores : isr'[d] # "none" => d # c
    OBVIOUS
  <2>2. \A d \in Cores : d # c => pxCurrentTCBs[d] # pxCurrentTCBs[c] /\ pxCurrentTCBs[d] \in Tasks
    BY DEF CoreOK, Matches
  <2>3. \A d \in Cores : isr'[d] # "none" => pc'[pxCurrentTCBs'[d]] \notin {"susCheck"} \cup Resuming
    BY <1>1, <1>3, <2>1, <2>2 DEF LockOK, LocksHeld
  <2>4. \A t \in Tasks : pc'[t] \notin Resuming
    BY <1>2, <1>3 DEF Resuming
  <2> QED
    BY <2>3, <2>4 DEF LockOK, LocksHeld
<1> QED
  BY <1>4, <1>5, <1>6 DEF LockOK

LEMMA ControlCheck ==
  ASSUME CoreOK, LockOK, NEW c \in Cores, prvCheckForRunStateChange(c)
  PROVE  LockOK'
<1> DEFINE me == pxCurrentTCBs[c]
<1>1. me \in Tasks /\ pc \in [Tasks -> PCs] /\ pxCurrentTCBs' = pxCurrentTCBs
  BY DEF CoreOK, LockOK, ControlTypes, coreVars, prvCheckForRunStateChange
<1>2. /\ pc[me] = "susCheck" /\ isr[c] = "none" /\ taskLock = c /\ uxSchedulerSuspended = 1
      /\ \A t \in Tasks : pc[t] \in SuspendedRegion \cup Resuming => t = me
  BY <1>1, LockOwner DEF prvCheckForRunStateChange, At, SuspendedRegion, LockOK, SuspensionIsExclusive
<1>3. CASE xTaskRunState[me] = taskTASK_YIELDING
  <2>1. /\ uxSchedulerSuspended' = 0 /\ taskLock' = NoCore
        /\ UNCHANGED <<isr, xPendedTicks, isrLock>>
        /\ pc' = [pc EXCEPT ![me] = "reacquire"]
    BY <1>3 DEF prvCheckForRunStateChange, Goto
  <2>2. \A t \in Tasks : pc'[t] \notin SuspendedRegion \cup Resuming
    BY <1>1, <1>2, <2>1 DEF SuspendedRegion, Resuming
  <2>3. ControlTypes'
    BY <1>1, <2>1 DEF LockOK, ControlTypes, PCs
  <2>4. \A d \in Cores : pxCurrentTCBs'[d] \in Tasks
    BY <1>1 DEF CoreOK
  <2> QED
    BY <2>1, <2>2, <2>3, <2>4 DEF LockOK, SuspensionIsExclusive, LocksHeld, SuspendedRegion
<1>4. CASE xTaskRunState[me] # taskTASK_YIELDING
  <2>1. /\ UNCHANGED <<uxSchedulerSuspended, taskLock, isr, xPendedTicks, isrLock>>
        /\ pc' = [pc EXCEPT ![me] = "suspended"]
    BY <1>4 DEF prvCheckForRunStateChange, Goto
  <2>2. \A t \in Tasks : pc'[t] = IF t = me THEN "suspended" ELSE pc[t]
    BY <1>1, <2>1
  <2>3. ControlTypes'
    BY <1>1, <2>1 DEF LockOK, ControlTypes, PCs, SuspendedRegion
  <2>4. \A d \in Cores : pxCurrentTCBs'[d] \in Tasks
    BY <1>1 DEF CoreOK
  <2>5. SuspensionIsExclusive'
    BY <1>1, <1>2, <2>1, <2>2 DEF SuspensionIsExclusive, SuspendedRegion
  <2>6. LocksHeld'
    BY <1>1, <1>2, <2>1, <2>2, <2>4 DEF LockOK, LocksHeld, Resuming
  <2> QED
    BY <2>3, <2>5, <2>6 DEF LockOK
<1> QED
  BY <1>3, <1>4

LEMMA ControlResume ==
  ASSUME CoreOK, LockOK, NEW c \in Cores, xTaskResumeAll(c)
  PROVE  LockOK'
<1> DEFINE me == pxCurrentTCBs[c]
<1>1. me \in Tasks /\ pc \in [Tasks -> PCs] /\ pxCurrentTCBs' = pxCurrentTCBs
  BY DEF CoreOK, LockOK, ControlTypes, coreVars, xTaskResumeAll
<1>2. /\ pc[me] \in SuspendedRegion /\ isr[c] = "none" /\ taskLock = c /\ uxSchedulerSuspended = 1
      /\ \A t \in Tasks : pc[t] \in SuspendedRegion \cup Resuming => t = me
  BY <1>1, LockOwner DEF xTaskResumeAll, At, SuspendedRegion, LockOK, SuspensionIsExclusive
<1>3. PICK point \in Resuming : pc' = [pc EXCEPT ![me] = point]
  BY DEF xTaskResumeAll, Goto, Resuming
<1>4. /\ uxSchedulerSuspended' = 0 /\ isrLock = NoCore /\ isrLock' = c
      /\ UNCHANGED <<isr, xPendedTicks, taskLock>>
  BY <1>2 DEF xTaskResumeAll
<1>5. \A t \in Tasks : pc'[t] = IF t = me THEN point ELSE pc[t]
  BY <1>1, <1>3
<1>6. ControlTypes'
  BY <1>1, <1>3, <1>4 DEF LockOK, ControlTypes, PCs
<1>7. SuspensionIsExclusive'
  BY <1>2, <1>3, <1>4, <1>5 DEF SuspensionIsExclusive, SuspendedRegion, Resuming
<1>8. LocksHeld'
  <2>1. \A d \in Cores : isr'[d] \notin {"tick", "ticking"}
    BY <1>4, CoreFacts DEF LockOK, LocksHeld
  <2>2. \A d \in Cores : d # c => pxCurrentTCBs[d] # me /\ pxCurrentTCBs[d] \in Tasks
    BY DEF CoreOK, Matches
  <2>3. \A d \in Cores : isr'[d] # "none" => pc'[pxCurrentTCBs'[d]] \notin {"susCheck"} \cup Resuming
    BY <1>1, <1>2, <1>4, <1>5, <2>2 DEF LockOK, LocksHeld
  <2>4. \A t \in Tasks : pc'[t] \in Resuming => t = me
    BY <1>2, <1>5
  <2> QED
    BY <1>1, <1>2, <1>4, <2>1, <2>3, <2>4 DEF LocksHeld
<1> QED
  BY <1>6, <1>7, <1>8 DEF LockOK

LEMMA ControlResumeDone ==
  ASSUME CoreOK, LockOK, NEW c \in Cores, ResumeAllDone(c)
  PROVE  LockOK'
<1> DEFINE me == pxCurrentTCBs[c]
<1>1. me \in Tasks /\ pc \in [Tasks -> PCs] /\ pxCurrentTCBs' = pxCurrentTCBs
  BY DEF CoreOK, LockOK, ControlTypes, coreVars, ResumeAllDone
<1>2. /\ pc[me] \in Resuming /\ isr[c] = "none" /\ taskLock = c /\ isrLock = c
      /\ uxSchedulerSuspended = 0
      /\ \A t \in Tasks : pc[t] \in SuspendedRegion \cup Resuming => t = me
  BY <1>1, LockOwner DEF ResumeAllDone, At, LockOK, LocksHeld
<1>3. PICK point \in {"exit", "exitDelay"} : pc' = [pc EXCEPT ![me] = point]
  BY DEF ResumeAllDone, Goto
<1>4. /\ taskLock' = NoCore /\ isrLock' = NoCore
      /\ UNCHANGED <<isr, uxSchedulerSuspended, xPendedTicks>>
  BY DEF ResumeAllDone, suspendVars
<1>5. \A t \in Tasks : pc'[t] \notin SuspendedRegion \cup Resuming
  BY <1>1, <1>2, <1>3 DEF SuspendedRegion, Resuming
<1>6. ControlTypes'
  BY <1>1, <1>3, <1>4 DEF LockOK, ControlTypes, PCs
<1>7. \A d \in Cores : isr'[d] \notin {"tick", "ticking"}
  BY <1>2, <1>4 DEF LockOK, LocksHeld
<1>8. \A d \in Cores : pxCurrentTCBs'[d] \in Tasks
  BY <1>1 DEF CoreOK
<1> QED
  BY <1>2, <1>4, <1>5, <1>6, <1>7, <1>8 DEF LockOK, SuspensionIsExclusive, LocksHeld, SuspendedRegion

-----------------------------------------------------------------------------
(* The tick and the context switch.                                        *)

\* A handler of core c ends or goes on, and may free the ISR lock it holds.
LEMMA ControlHandler ==
  ASSUME CoreOK, LockOK, NEW c \in Cores, NEW handler \in ISRs,
         UNCHANGED <<pxCurrentTCBs, pc, uxSchedulerSuspended, taskLock>>, xPendedTicks' \in Nat,
         isr[c] \in {"tick", "ticking"}, isr' = [isr EXCEPT ![c] = handler],
         \/ isrLock' = isrLock
         \/ isrLock' = NoCore /\ handler \notin {"tick", "ticking"}
  PROVE  LockOK'
<1>1. isrLock = c /\ \A t \in Tasks : pc[t] \notin Resuming
  <2>1. isrLock = c
    BY DEF LockOK, LocksHeld
  <2> QED
    BY <2>1, NobodyResumes
<1>2. \A d \in Cores : d # c => isr[d] \notin {"tick", "ticking"}
  BY <1>1 DEF LockOK, LocksHeld
<1>3. \A d \in Cores : isr'[d] = IF d = c THEN handler ELSE isr[d]
  BY DEF LockOK, ControlTypes
<1>4. ControlTypes'
  BY DEF LockOK, ControlTypes
<1>5. SuspensionIsExclusive'
  BY DEF LockOK, SuspensionIsExclusive
<1>6. LocksHeld'
  <2>1. \A d \in Cores : isr'[d] \in {"tick", "ticking"} => isrLock' = d
    BY <1>1, <1>2, <1>3
  <2>2. \A t \in Tasks : pc'[t] \notin Resuming
    BY <1>1
  <2>3. pc[pxCurrentTCBs[c]] \notin {"susCheck"} \cup Resuming
    BY DEF LockOK, LocksHeld
  <2>4. \A d \in Cores : isr'[d] # "none" => pc'[pxCurrentTCBs'[d]] \notin {"susCheck"} \cup Resuming
    BY <1>3, <2>3 DEF LockOK, LocksHeld
  <2> QED
    BY <2>1, <2>2, <2>4 DEF LocksHeld
<1> QED
  BY <1>4, <1>5, <1>6 DEF LockOK

LEMMA EndOfInterruptHandler ==
  ASSUME NEW c, NEW required, EndOfInterrupt(c, required)
  PROVE  \E handler \in ISRs \ {"tick", "ticking"} : isr' = [isr EXCEPT ![c] = handler]
<1>1. CASE required
  BY <1>1 DEF EndOfInterrupt, ISRs
<1>2. CASE ~required
  BY <1>2 DEF EndOfInterrupt, ISRs
<1> QED
  BY <1>1, <1>2

LEMMA ControlTick ==
  ASSUME CoreOK, LockOK, NEW c \in Cores, TickInterrupt(c)
  PROVE  LockOK'
<1>1. /\ isr[c] = "none" /\ isrLock = NoCore /\ isrLock' = c
      /\ pc[pxCurrentTCBs[c]] \notin {"susCheck"} \cup Resuming
      /\ isr' = [isr EXCEPT ![c] = "tick"]
      /\ UNCHANGED <<pxCurrentTCBs, pc, uxSchedulerSuspended, xPendedTicks, taskLock>>
  BY DEF TickInterrupt, InterruptsEnabled, coreVars, suspendVars
<1>2. \A d \in Cores : isr'[d] = IF d = c THEN "tick" ELSE isr[d]
  BY <1>1 DEF LockOK, ControlTypes
<1>3. /\ \A d \in Cores : isr[d] \notin {"tick", "ticking"}
      /\ \A t \in Tasks : pc[t] \notin Resuming
  BY <1>1, CoreFacts DEF LockOK, LocksHeld
<1>4. ControlTypes'
  BY <1>1 DEF LockOK, ControlTypes, ISRs
<1>5. SuspensionIsExclusive'
  BY <1>1 DEF LockOK, SuspensionIsExclusive
<1>6. LocksHeld'
  BY <1>1, <1>2, <1>3 DEF LockOK, LocksHeld
<1> QED
  BY <1>4, <1>5, <1>6 DEF LockOK

LEMMA ControlPend ==
  ASSUME CoreOK, LockOK, NEW c \in Cores, PendTick(c)
  PROVE  LockOK'
<1>1. /\ isr[c] = "tick" /\ UNCHANGED <<pxCurrentTCBs, pc, uxSchedulerSuspended, taskLock>>
  BY DEF PendTick, coreVars
<1>2. CASE uxSchedulerSuspended = 0
  <2>1. isr' = [isr EXCEPT ![c] = "ticking"] /\ UNCHANGED <<xPendedTicks, isrLock>>
    BY <1>2 DEF PendTick
  <2>2. xPendedTicks' \in Nat /\ "ticking" \in ISRs
    BY <2>1 DEF LockOK, ControlTypes, ISRs
  <2> QED
    BY <1>1, <2>1, <2>2, ControlHandler
<1>3. CASE uxSchedulerSuspended # 0
  <2>1. xPendedTicks' = xPendedTicks + 1 /\ isrLock' = NoCore /\ EndOfInterrupt(c, FALSE)
    BY <1>3 DEF PendTick
  <2>2. xPendedTicks' \in Nat
    BY <2>1 DEF LockOK, ControlTypes
  <2>3. PICK handler \in ISRs \ {"tick", "ticking"} : isr' = [isr EXCEPT ![c] = handler]
    BY <2>1, EndOfInterruptHandler
  <2> QED
    BY <1>1, <2>1, <2>2, <2>3, ControlHandler
<1> QED
  BY <1>2, <1>3

\* SliceTime changes xPendedTicks alone when it runs in xTaskResumeAll.
LEMMA ControlSlice ==
  ASSUME CoreOK, LockOK, NEW c \in Cores, SliceTime(c)
  PROVE  CoreOK' /\ LockOK'
<1> DEFINE yields == {x \in Cores : \/ configUSE_TIME_SLICING
                                       /\ Len(pxReadyTasksLists[uxPriority[pxCurrentTCBs[x]]]) > 1
                                    \/ xYieldPendings[x]}
           required == c \in yields
<1>1. /\ CountsTick(c) /\ UNCHANGED <<pc, uxSchedulerSuspended, taskLock>>
      /\ IF InISR(c)
         THEN /\ YieldCores(c, TRUE, yields \ {c})
              /\ isrLock' = NoCore
              /\ EndOfInterrupt(c, required)
              /\ UNCHANGED xPendedTicks
         ELSE /\ UNCHANGED pxCurrentTCBs
              /\ prvYieldCore(c, FALSE, yields \ {c}, pxCurrentTCBs, xTaskRunState,
                              [xYieldPendings EXCEPT ![c] = @ \/ required])
              /\ xPendedTicks' = xPendedTicks - 1
              /\ UNCHANGED <<isrLock, isr>>
  BY DEF SliceTime
<1>2. yields \ {c} \in SUBSET Cores
  OBVIOUS
<1> HIDE DEF yields
<1>3. CASE InISR(c)
  <2>1. /\ YieldCores(c, TRUE, yields \ {c}) /\ isrLock' = NoCore
        /\ EndOfInterrupt(c, required) /\ UNCHANGED xPendedTicks
    BY <1>1, <1>3
  <2>2. CoreOK'
    BY <1>2, <2>1, CoreYieldCores
  <2>3. UNCHANGED pxCurrentTCBs
    BY <2>1 DEF YieldCores
  <2>4. PICK handler \in ISRs \ {"tick", "ticking"} : isr' = [isr EXCEPT ![c] = handler]
    BY <2>1, EndOfInterruptHandler
  <2>5. isr[c] \in {"tick", "ticking"} /\ xPendedTicks' \in Nat
    BY <1>3, <2>1 DEF InISR, LockOK, ControlTypes
  <2>6. LockOK'
    BY <1>1, <2>1, <2>3, <2>4, <2>5, ControlHandler
  <2> QED
    BY <2>2, <2>6
<1>4. CASE ~InISR(c)
  <2>1. /\ UNCHANGED pxCurrentTCBs
        /\ prvYieldCore(c, FALSE, yields \ {c}, pxCurrentTCBs, xTaskRunState,
                        [xYieldPendings EXCEPT ![c] = @ \/ required])
        /\ xPendedTicks' = xPendedTicks - 1
        /\ UNCHANGED <<isrLock, isr>>
    BY <1>1, <1>4
  <2>2. [xYieldPendings EXCEPT ![c] = @ \/ required] \in [Cores -> BOOLEAN]
    BY DEF CoreOK
  <2>3. CoreOK'
    BY <1>2, <2>1, <2>2, YieldKeepsMatch DEF CoreOK
  <2>4. xPendedTicks' \in Nat
    BY <1>1, <1>4, <2>1 DEF CountsTick, LockOK, ControlTypes
  <2>5. LockOK'
    BY <1>1, <2>1, <2>4 DEF LockOK, ControlTypes, SuspensionIsExclusive, LocksHeld
  <2> QED
    BY <2>3, <2>5
<1> QED
  BY <1>3, <1>4

\* While its core owns the suspension a switch only notes the yield; otherwise
\* nobody has suspended the scheduler, and no task is where the locks matter.
LEMMA ControlSwitch ==
  ASSUME CoreOK, ListOK, LockOK, NEW c \in Cores, vTaskSwitchContext(c)
  PROVE  CoreOK' /\ ListOK' /\ LockOK'
<1>1. /\ isr[c] = "switch" /\ isr' = [isr EXCEPT ![c] = "none"]
      /\ isrLock = NoCore
      /\ UNCHANGED <<xDelayedTaskList, xSuspendedTaskList, xTasksWaitingTermination,
                     uxPriority, pc, suspendVars, lockVars>>
  BY DEF vTaskSwitchContext
<1>2. \A d \in Cores : isr'[d] = IF d = c THEN "none" ELSE isr[d]
  BY <1>1 DEF LockOK, ControlTypes
<1>3. ControlTypes'
  BY <1>1 DEF LockOK, ControlTypes, ISRs, suspendVars, lockVars
<1>4. CASE uxSchedulerSuspended # 0
  <2>1. /\ xYieldPendings' = [xYieldPendings EXCEPT ![c] = TRUE]
        /\ UNCHANGED <<pxCurrentTCBs, xTaskRunState, yieldIRQ, pxReadyTasksLists, uxTopReadyPriority>>
    BY <1>4 DEF vTaskSwitchContext
  <2>2. CoreOK'
    BY <2>1 DEF CoreOK, Matches
  <2>3. ListOK'
    BY <1>1, <2>1 DEF ListOK
  <2>4. SuspensionIsExclusive' /\ LocksHeld'
    BY <1>1, <1>2, <2>1 DEF LockOK, SuspensionIsExclusive, LocksHeld, suspendVars, lockVars
  <2> QED
    BY <1>3, <2>2, <2>3, <2>4 DEF LockOK
<1>5. CASE uxSchedulerSuspended = 0
  <2>1. prvSelectHighestPriorityTask(c)
    BY <1>5 DEF vTaskSwitchContext
  <2>2. CoreOK' /\ ListOK'
    BY <1>1, <2>1, SelectKeepsCoreAndLists
  <2>3. \A t \in Tasks : pc[t] \notin SuspendedRegion \cup Resuming
    BY <1>1, <1>5, NobodyResumes DEF LockOK, SuspensionIsExclusive
  <2>4. \A d \in Cores : pxCurrentTCBs'[d] \in Tasks
    BY <2>2 DEF CoreOK
  <2>5. SuspensionIsExclusive' /\ LocksHeld'
    BY <1>1, <1>2, <1>5, <2>3, <2>4
       DEF LockOK, SuspensionIsExclusive, LocksHeld, suspendVars, lockVars, SuspendedRegion
  <2> QED
    BY <1>3, <2>2, <2>5 DEF LockOK
<1> QED
  BY <1>4, <1>5

-----------------------------------------------------------------------------
(* IInv is inductive.                                                      *)

LEMMA InitIInv == Init => IInv
<1> SUFFICES ASSUME Init PROVE IInv
  OBVIOUS
<1> USE CoresAssumption, IdleAssumption, InitAssumption
<1>1. \A c \in Cores : xIdleTaskHandle[c] \in Tasks /\ xIsIdle(xIdleTaskHandle[c])
  BY DEF Tasks, IdleTasks, xIsIdle
<1>2. \A t \in Tasks : xIsIdle(t) =>
        \E c \in Cores : xTaskRunState[t] = c /\ xIdleTaskHandle[c] = t
  BY DEF Init, xIsIdle, IdleTasks
<1>3. \A t \in Tasks : ~xIsIdle(t) => xTaskRunState[t] = taskTASK_NOT_RUNNING
  BY DEF Init
<1>4. pxCurrentTCBs = xIdleTaskHandle /\ pxCurrentTCBs \in [Cores -> Tasks]
  <2>1. xIdleTaskHandle \in [Cores -> Tasks]
    BY <1>1
  <2> QED
    BY <2>1 DEF Init
<1>5. CoreOK
  <2>1. xTaskRunState \in [Tasks -> RunStates]
    <3>1. xTaskRunState = [t \in Tasks |-> xTaskRunState[t]]
      BY DEF Init
    <3>2. \A t \in Tasks : xTaskRunState[t] \in RunStates
      BY <1>2, <1>3 DEF RunStates
    <3> QED
      BY <3>1, <3>2
  <2>2. Matches(pxCurrentTCBs, xTaskRunState)
    BY <1>1, <1>2, <1>3, <1>4 DEF Matches
  <2>3. xYieldPendings \in [Cores -> BOOLEAN] /\ yieldIRQ \in [Cores -> BOOLEAN]
    BY DEF Init
  <2> QED
    BY <1>4, <2>1, <2>2, <2>3 DEF CoreOK
<1>6. ListOK
  BY EmptySeq DEF Init, ListOK
<1>7. \A t \in Tasks : pc[t] \in {"yield", "run"}
  BY DEF Init
<1>8. ControlTypes
  BY DEF Init, ControlTypes, ISRs, PCs
<1>9. SuspensionIsExclusive /\ LocksHeld
  <2>1. \A c \in Cores : isr[c] = "none"
    BY DEF Init
  <2>2. uxSchedulerSuspended = 0
    BY DEF Init
  <2>3. \A t \in Tasks : pc[t] \notin SuspendedRegion \cup Resuming
    BY <1>7 DEF SuspendedRegion, Resuming
  <2> HIDE CoresAssumption, IdleAssumption, InitAssumption
  <2>4. SuspensionIsExclusive
    BY <2>2, <2>3 DEF SuspensionIsExclusive
  <2>5. LocksHeld
    BY <2>1, <2>3 DEF LocksHeld
  <2> QED
    BY <2>4, <2>5
<1> QED
  BY <1>5, <1>6, <1>8, <1>9 DEF IInv, LockOK

LEMMA SchedulerStepKeeps ==
  ASSUME IInv, NEW c \in Cores, SchedulerStep(c)
  PROVE  IInv'
<1> USE DEF IInv
<1>1. ASSUME vTaskExitCritical(c) PROVE IInv'
  <2>1. /\ UNCHANGED <<coreVars, listVars, uxPriority, suspendVars, lockVars>>
        /\ isr' = isr \/ isr' = [isr EXCEPT ![c] = "switch"]
    BY <1>1 DEF vTaskExitCritical, portYIELD
  <2>2. pc[pxCurrentTCBs[c]] \notin {"susCheck"} \cup Resuming
    BY <1>1 DEF vTaskExitCritical, At, Resuming
  <2>3. PICK point \in {"run", "suspended", "yield"} :
          /\ pc' = [pc EXCEPT ![pxCurrentTCBs[c]] = point]
          /\ point \in SuspendedRegion <=> pc[pxCurrentTCBs[c]] \in SuspendedRegion
    <3>1. CASE pc[pxCurrentTCBs[c]] = "exit"
      BY <1>1, <3>1 DEF vTaskExitCritical, Goto, SuspendedRegion
    <3>2. CASE pc[pxCurrentTCBs[c]] = "exitSuspended"
      BY <1>1, <3>2 DEF vTaskExitCritical, Goto, SuspendedRegion
    <3>3. CASE pc[pxCurrentTCBs[c]] = "exitDelay"
      BY <1>1, <3>3 DEF vTaskExitCritical, Goto, SuspendedRegion
    <3> QED
      BY <1>1, <3>1, <3>2, <3>3 DEF vTaskExitCritical, At
  <2>4. point \in PCs /\ point \notin {"susCheck"} \cup Resuming
    BY DEF PCs, SuspendedRegion, Resuming
  <2>5. UNCHANGED pxCurrentTCBs
    BY <2>1 DEF coreVars
  <2>6. LockOK'
    BY <2>1, <2>2, <2>3, <2>4, <2>5, ControlKept
  <2> QED
    BY <2>1, <2>6, CoreUnchanged, ListUnchanged
<1>2. ASSUME vTaskYieldWithinAPI(c) PROVE IInv'
  <2>1. /\ UNCHANGED <<coreVars, listVars, uxPriority, suspendVars, lockVars>>
        /\ pc[pxCurrentTCBs[c]] = "yield" /\ UNCHANGED pxCurrentTCBs
        /\ isr' = [isr EXCEPT ![c] = "switch"]
        /\ pc' = [pc EXCEPT ![pxCurrentTCBs[c]] = "run"]
    BY <1>2 DEF vTaskYieldWithinAPI, At, Goto, portYIELD, coreVars
  <2>2. LockOK'
    BY <2>1, ControlKept DEF PCs, SuspendedRegion, Resuming
  <2> QED
    BY <2>1, <2>2, CoreUnchanged, ListUnchanged
<1>3. ASSUME YieldInterrupt(c) PROVE IInv'
  <2>1. /\ UNCHANGED <<pxCurrentTCBs, xTaskRunState, xYieldPendings, listVars,
                       uxPriority, pc, suspendVars, lockVars>>
        /\ yieldIRQ' = [yieldIRQ EXCEPT ![c] = FALSE] /\ portYIELD(c)
        /\ pc[pxCurrentTCBs[c]] \notin {"susCheck"} \cup Resuming
    BY <1>3 DEF YieldInterrupt, InterruptsEnabled
  <2>2. CoreOK'
    BY <2>1 DEF CoreOK, Matches
  <2>3. LockOK'
    BY <2>1, ControlYield
  <2> QED
    BY <2>1, <2>2, <2>3, ListUnchanged
<1>4. ASSUME vTaskSwitchContext(c) PROVE IInv'
  BY <1>4, ControlSwitch
<1>5. ASSUME prvCheckForRunStateChange(c) PROVE IInv'
  BY <1>5, ControlCheck, CoreUnchanged, ListUnchanged DEF prvCheckForRunStateChange
<1>6. ASSUME Reacquire(c) PROVE IInv'
  BY <1>6, ControlSuspend, CoreUnchanged, ListUnchanged DEF Reacquire, At
<1>7. ASSUME xTaskResumeAll(c) PROVE IInv'
  BY <1>7, ControlResume, CoreUnchanged, ListUnchanged DEF xTaskResumeAll
<1>8. ASSUME ResumeAllDone(c) PROVE IInv'
  BY <1>8, ControlResumeDone, CoreUnchanged, ListUnchanged DEF ResumeAllDone
<1>9. ASSUME PendTick(c) PROVE IInv'
  BY <1>9, ControlPend, CoreUnchanged, ListUnchanged DEF PendTick
<1>10. ASSUME SliceTime(c) PROVE IInv'
  BY <1>10, ControlSlice, ListUnchanged DEF SliceTime
<1> QED
  BY <1>1, <1>2, <1>3, <1>4, <1>5, <1>6, <1>7, <1>8, <1>9, <1>10 DEF SchedulerStep

LEMMA ApplicationStepKeeps ==
  ASSUME IInv, NEW c \in Cores, ApplicationStep(c)
  PROVE  IInv'
<1> USE DEF IInv
<1>c. pxCurrentTCBs[c] \in Tasks
  BY DEF CoreOK
<1>1. ASSUME taskYIELD(c) \/ prvIdleTask(c) PROVE IInv'
  <2>1. /\ UNCHANGED <<coreVars, listVars, uxPriority, pc, suspendVars, lockVars>>
        /\ UNCHANGED pxCurrentTCBs /\ portYIELD(c)
        /\ pc[pxCurrentTCBs[c]] \notin {"susCheck"} \cup Resuming
    BY <1>1 DEF taskYIELD, prvIdleTask, At, coreVars, Resuming
  <2>2. LockOK'
    BY <2>1, ControlYield
  <2> QED
    BY <2>1, <2>2, CoreUnchanged, ListUnchanged
<1>2. ASSUME prvCheckTasksWaitingTermination(c) PROVE IInv'
  <2>1. /\ UNCHANGED <<coreVars, isr, suspendVars, lockVars, uxPriority>>
        /\ vTaskEnterCritical(c) /\ Goto(c, AfterCritical(c))
    BY <1>2 DEF prvCheckTasksWaitingTermination
  <2>2. ListOK'
    <3>1. Head(xTasksWaitingTermination) \in Tasks
      BY <1>2, HeadTailProperties DEF prvCheckTasksWaitingTermination, ListOK
    <3>2. uxPriority' \in [Tasks -> Priorities]
      BY <2>1 DEF ListOK
    <3>3. MoveTo(Head(xTasksWaitingTermination), "none") \/ UNCHANGED listVars
      BY <1>2 DEF prvCheckTasksWaitingTermination
    <3> QED
      BY <2>1, <3>1, <3>2, <3>3, MoveToType, ListUnchanged
  <2>3. UNCHANGED pxCurrentTCBs
    BY <2>1 DEF coreVars
  <2> QED
    BY <2>1, <2>2, <2>3, ControlCritical, CoreUnchanged
<1>3. ASSUME vTaskSuspendAll(c) PROVE IInv'
  <2>1. uxSchedulerSuspended' = 1
    BY <1>3, FreeLock DEF vTaskSuspendAll
  <2> QED
    BY <1>3, <2>1, ControlSuspend, CoreUnchanged, ListUnchanged DEF vTaskSuspendAll, At
<1>4. ASSUME prvAddCurrentTaskToDelayedList(c) PROVE IInv'
  <2>1. /\ UNCHANGED <<coreVars, uxPriority, isr, suspendVars, lockVars>>
        /\ pc[pxCurrentTCBs[c]] = "suspended" /\ UNCHANGED pxCurrentTCBs
        /\ pc' = [pc EXCEPT ![pxCurrentTCBs[c]] = "delayed"]
        /\ MoveTo(pxCurrentTCBs[c], "delayed")
    BY <1>4 DEF prvAddCurrentTaskToDelayedList, At, Goto, coreVars
  <2>2. LockOK'
    BY <2>1, ControlKept DEF PCs, SuspendedRegion, Resuming
  <2>3. uxPriority' \in [Tasks -> Priorities]
    BY <2>1 DEF ListOK
  <2> QED
    BY <1>c, <2>1, <2>2, <2>3, MoveToType, CoreUnchanged
<1>5. ASSUME NEW t \in Tasks, vTaskSuspend(c, t) \/ vTaskDelete(c, t) PROVE IInv'
  <2>1. /\ UNCHANGED <<isr, suspendVars, lockVars, uxPriority>>
        /\ vTaskEnterCritical(c) /\ Goto(c, AfterCritical(c))
        /\ YieldCores(c, FALSE, {xTaskRunState[t]} \cap Cores)
        /\ \E list : MoveTo(t, list)
    BY <1>5 DEF vTaskSuspend, vTaskDelete, Calls
  <2>2. uxPriority' \in [Tasks -> Priorities]
    BY <2>1 DEF ListOK
  <2>3. ListOK'
    BY <2>1, <2>2, MoveToType
  <2>4. CoreOK'
    BY <2>1, CoreYieldCores
  <2>5. UNCHANGED pxCurrentTCBs
    BY <2>1 DEF YieldCores
  <2> QED
    BY <2>1, <2>3, <2>4, <2>5, ControlCritical
<1>6. ASSUME NEW t \in Tasks, vTaskResume(c, t) PROVE IInv'
  <2>1. /\ UNCHANGED <<isr, suspendVars, lockVars, uxPriority>>
        /\ vTaskEnterCritical(c) /\ Goto(c, AfterCritical(c))
        /\ \/ MoveTo(t, "ready") /\ prvYieldForTask(c, FALSE, t, TRUE)
           \/ UNCHANGED <<coreVars, listVars>>
    BY <1>6 DEF vTaskResume, Calls
  <2>2. uxPriority' \in [Tasks -> Priorities]
    BY <2>1 DEF ListOK
  <2>3. ListOK'
    BY <2>1, <2>2, MoveToType, ListUnchanged
  <2>4. CoreOK'
    BY <2>1, CoreYieldForTask, CoreUnchanged
  <2>5. UNCHANGED pxCurrentTCBs
    BY <2>1 DEF prvYieldForTask, coreVars
  <2> QED
    BY <2>1, <2>3, <2>4, <2>5, ControlCritical
<1>7. ASSUME NEW t \in Tasks, NEW p \in Priorities, vTaskPrioritySet(c, t, p) PROVE IInv'
  <2>1. /\ UNCHANGED <<isr, suspendVars, lockVars>>
        /\ vTaskEnterCritical(c) /\ Goto(c, AfterCritical(c))
        /\ uxPriority' = [uxPriority EXCEPT ![t] = p]
        /\ MoveTo(t, "ready") \/ UNCHANGED listVars
    BY <1>7 DEF vTaskPrioritySet, Calls
  <2>2. \/ IsRunning(t) /\ YieldCores(c, FALSE, {xTaskRunState[t]})
        \/ prvYieldForTask(c, FALSE, t, TRUE)
        \/ UNCHANGED coreVars
    BY <1>7 DEF vTaskPrioritySet
  <2>3. uxPriority' \in [Tasks -> Priorities]
    BY <2>1 DEF ListOK
  <2>4. ListOK'
    <3>1. CASE MoveTo(t, "ready")
      BY <2>3, <3>1, MoveToType
    <3>2. CASE UNCHANGED listVars
      BY <2>3, <3>2 DEF ListOK, listVars
    <3> QED
      BY <2>1, <3>1, <3>2
  <2>5. CoreOK'
    <3>1. CASE IsRunning(t) /\ YieldCores(c, FALSE, {xTaskRunState[t]})
      BY <3>1, CoreYieldCores DEF IsRunning
    <3> QED
      BY <2>2, <3>1, CoreYieldForTask, CoreUnchanged
  <2>6. UNCHANGED pxCurrentTCBs
    BY <2>2 DEF prvYieldForTask, YieldCores, coreVars
  <2> QED
    BY <2>1, <2>4, <2>5, <2>6, ControlCritical
<1>8. ASSUME NEW t \in Tasks, NEW p \in Priorities, prvAddNewTaskToReadyList(c, t, p) PROVE IInv'
  <2> DEFINE me == pxCurrentTCBs[c]
  <2>1. /\ UNCHANGED <<isr, suspendVars, lockVars>>
        /\ vTaskEnterCritical(c) /\ MoveTo(t, "ready")
        /\ uxPriority' = [uxPriority EXCEPT ![t] = p]
        /\ prvYieldForTask(c, FALSE, t, FALSE)
        /\ pc' = [pc EXCEPT ![t] = "run", ![me] = AfterCritical(c)]
    BY <1>8 DEF prvAddNewTaskToReadyList
  <2>2. uxPriority' \in [Tasks -> Priorities]
    BY <2>1 DEF ListOK
  <2>3. ListOK' /\ CoreOK' /\ UNCHANGED pxCurrentTCBs
    BY <2>1, <2>2, MoveToType, CoreYieldForTask DEF prvYieldForTask
  <2>4. pc \in [Tasks -> PCs]
    BY DEF LockOK, ControlTypes
  <2>5. /\ \A u \in Tasks \ {me} : pc[u] \notin SuspendedRegion \cup Resuming
        /\ \/ pc[me] = "run" /\ AfterCritical(c) = "exit"
           \/ pc[me] = "suspended" /\ AfterCritical(c) = "exitSuspended"
    <3>1. CASE taskLock = NoCore /\ pc[me] = "run"
      BY <3>1, FreeLock DEF AfterCritical
    <3>2. CASE pc[me] = "suspended"
      BY <3>2, LockOwner DEF AfterCritical, SuspendedRegion
    <3> QED
      BY <2>1, <3>1, <3>2 DEF vTaskEnterCritical, At
  <2>6. \A u \in Tasks : pc'[u] = IF u = me THEN AfterCritical(c) ELSE IF u = t THEN "run" ELSE pc[u]
    BY <1>c, <2>1, <2>4
  <2>7. pc' \in [Tasks -> PCs]
    <3>1. AfterCritical(c) \in PCs /\ "run" \in PCs
      BY <2>5 DEF PCs, SuspendedRegion
    <3> QED
      BY <2>1, <2>4, <3>1
  <2>8. \A u \in Tasks : /\ pc'[u] \in SuspendedRegion <=> pc[u] \in SuspendedRegion
                         /\ pc'[u] \in Resuming <=> pc[u] \in Resuming
                         /\ pc'[u] = "susCheck" <=> pc[u] = "susCheck"
    BY <2>5, <2>6 DEF SuspendedRegion, Resuming
  <2>9. LockOK'
    BY <2>1, <2>3, <2>7, <2>8, ControlSame
  <2> QED
    BY <2>3, <2>9
<1> QED
  BY <1>1, <1>2, <1>3, <1>4, <1>5, <1>6, <1>7, <1>8 DEF ApplicationStep

LEMMA NextKeeps == IInv /\ [Next]_vars => IInv'
<1> SUFFICES ASSUME IInv, [Next]_vars PROVE IInv'
  OBVIOUS
<1>1. ASSUME NEW c \in Cores, TickInterrupt(c) PROVE IInv'
  BY <1>1, ControlTick, CoreUnchanged, ListUnchanged DEF TickInterrupt, IInv
<1>2. ASSUME NEW c \in Cores, NEW t \in Tasks, UnblockTask(c, t) PROVE IInv'
  <2>1. /\ UNCHANGED <<isr, pc, suspendVars, lockVars, uxPriority>>
        /\ MoveTo(t, "ready") /\ prvYieldForTask(c, InISR(c), t, TRUE)
    BY <1>2 DEF UnblockTask
  <2>2. uxPriority' \in [Tasks -> Priorities]
    BY <2>1 DEF ListOK, IInv
  <2>3. UNCHANGED pxCurrentTCBs
    BY <2>1 DEF prvYieldForTask
  <2> QED
    BY <2>1, <2>2, <2>3, MoveToType, CoreYieldForTask, ControlUnchanged DEF IInv
<1>3. ASSUME UNCHANGED vars PROVE IInv'
  BY <1>3, CoreUnchanged, ListUnchanged, ControlUnchanged DEF vars, coreVars, IInv
<1> QED
  BY <1>1, <1>2, <1>3, SchedulerStepKeeps, ApplicationStepKeeps DEF Next

-----------------------------------------------------------------------------
(* What the operations on lists do to the tasks on them.                   *)

\* No task is on the list twice.
OnceEach(s) == \A i, j \in 1 .. Len(s) : s[i] = s[j] => i = j

\* Everybody but t is on list r if it is on list s.
SameOthers(S, r, s, t) == \A u \in S : u # t => (InList(r, u) <=> InList(s, u))

LEMMA RemoveAtItems ==
  ASSUME NEW S, NEW s \in Seq(S), NEW i \in 1 .. Len(s)
  PROVE  /\ RemoveAt(s, i) \in Seq(S) /\ Len(RemoveAt(s, i)) = Len(s) - 1
         /\ \A j \in 1 .. Len(s) - 1 :
              RemoveAt(s, i)[j] = IF j < i THEN s[j] ELSE s[j + 1]
<1> DEFINE a == SubSeq(s, 1, i - 1)
           b == SubSeq(s, i + 1, Len(s))
<1>1. /\ a \in Seq(S) /\ Len(a) = i - 1 /\ \A j \in 1 .. i - 1 : a[j] = s[j]
      /\ b \in Seq(S) /\ Len(b) = Len(s) - i /\ \A j \in 1 .. Len(s) - i : b[j] = s[i + j]
  OBVIOUS
<1> HIDE DEF a, b
<1>2. /\ a \o b \in Seq(S) /\ Len(a \o b) = Len(a) + Len(b)
      /\ \A j \in 1 .. Len(a) + Len(b) :
           (a \o b)[j] = IF j <= Len(a) THEN a[j] ELSE b[j - Len(a)]
  BY <1>1, ConcatProperties
<1>3. Len(s) \in Nat /\ i \in Nat
  BY LenProperties
<1>4. ASSUME NEW j \in 1 .. Len(s) - 1
      PROVE  (a \o b)[j] = IF j < i THEN s[j] ELSE s[j + 1]
  <2>1. CASE j < i
    BY <1>1, <1>2, <1>3, <2>1
  <2>2. CASE j >= i
    <3>1. j - Len(a) \in 1 .. Len(s) - i /\ i + (j - Len(a)) = j + 1 /\ ~(j <= Len(a))
      BY <1>1, <1>3, <2>2
    <3>2. j \in 1 .. Len(a) + Len(b)
      BY <1>1, <1>3
    <3>3. (a \o b)[j] = b[j - Len(a)]
      BY <1>2, <3>1, <3>2
    <3>4. b[j - Len(a)] = s[i + (j - Len(a))]
      BY <1>1, <3>1
    <3> QED
      BY <1>3, <2>2, <3>1, <3>3, <3>4
  <2>3. j \in Int /\ i \in Int
    BY <1>3
  <2>4. j < i \/ j >= i
    BY <2>3
  <2> QED
    BY <2>1, <2>2, <2>4
<1>5. Len(a \o b) = Len(s) - 1
  BY <1>1, <1>2, <1>3
<1>6. RemoveAt(s, i) = a \o b
  BY DEF a, b, RemoveAt
<1> QED
  BY <1>2, <1>4, <1>5, <1>6

\* The task at position i leaves, everybody else stays.
LEMMA RemoveAtKeeps ==
  ASSUME NEW S, NEW s \in Seq(S), NEW i \in 1 .. Len(s)
  PROVE  /\ RemoveAt(s, i) \in Seq(S) /\ SameOthers(S, RemoveAt(s, i), s, s[i])
         /\ OnceEach(s) => OnceEach(RemoveAt(s, i)) /\ ~InList(RemoveAt(s, i), s[i])
<1> DEFINE r == RemoveAt(s, i)
<1>1. /\ r \in Seq(S) /\ Len(r) = Len(s) - 1
      /\ \A j \in 1 .. Len(s) - 1 : r[j] = IF j < i THEN s[j] ELSE s[j + 1]
  BY RemoveAtItems
<1>2. Len(s) \in Nat /\ i \in Nat
  BY LenProperties
<1> HIDE DEF r
<1>3. ASSUME NEW u \in S, u # s[i] PROVE InList(r, u) <=> InList(s, u)
  <2>1. ASSUME NEW j \in 1 .. Len(r), r[j] = u PROVE InList(s, u)
    <3>1. j \in 1 .. Len(s) /\ j + 1 \in 1 .. Len(s)
      BY <1>1, <1>2
    <3> QED
      BY <1>1, <2>1, <3>1 DEF InList
  <2>2. ASSUME NEW j \in 1 .. Len(s), s[j] = u PROVE InList(r, u)
    <3>1. CASE j < i
      <4>1. j \in 1 .. Len(r)
        BY <1>1, <1>2, <3>1
      <4> QED
        BY <1>1, <2>2, <3>1, <4>1 DEF InList
    <3>2. CASE j > i
      <4>1. j - 1 \in 1 .. Len(r) /\ ~(j - 1 < i) /\ (j - 1) + 1 = j
        BY <1>1, <1>2, <3>2
      <4>2. r[j - 1] = u
        BY <1>1, <2>2, <4>1
      <4> QED
        BY <4>1, <4>2 DEF InList
    <3> QED
      BY <1>2, <1>3, <2>2, <3>1, <3>2
  <2> QED
    BY <2>1, <2>2 DEF InList
<1>4. ASSUME OnceEach(s) PROVE OnceEach(r) /\ ~InList(r, s[i])
  <2> DEFINE at(j) == IF j < i THEN j ELSE j + 1
  <2>1. \A j \in 1 .. Len(r) : at(j) \in 1 .. Len(s) /\ at(j) # i /\ r[j] = s[at(j)]
    BY <1>1, <1>2
  <2>2. \A j, k \in 1 .. Len(r) : at(j) = at(k) => j = k
    BY <1>1, <1>2
  <2> HIDE DEF at
  <2> QED
    BY <1>4, <2>1, <2>2 DEF OnceEach, InList
<1> QED
  BY <1>1, <1>3, <1>4 DEF r, SameOthers

LEMMA RemoveKeeps ==
  ASSUME NEW S, NEW s \in Seq(S), NEW t
  PROVE  /\ uxListRemove(s, t) \in Seq(S) /\ SameOthers(S, uxListRemove(s, t), s, t)
         /\ OnceEach(s) => OnceEach(uxListRemove(s, t)) /\ ~InList(uxListRemove(s, t), t)
<1>1. CASE InList(s, t)
  <2>1. Position(s, t) \in 1 .. Len(s) /\ s[Position(s, t)] = t
    BY <1>1 DEF InList, Position
  <2> QED
    BY <1>1, <2>1, RemoveAtKeeps DEF uxListRemove
<1>2. CASE ~InList(s, t)
  BY <1>2 DEF uxListRemove, SameOthers
<1> QED
  BY <1>1, <1>2

LEMMA AppendKeeps ==
  ASSUME NEW S, NEW s \in Seq(S), NEW t \in S
  PROVE  /\ Append(s, t) \in Seq(S) /\ SameOthers(S, Append(s, t), s, t)
         /\ InList(Append(s, t), t)
         /\ OnceEach(s) /\ ~InList(s, t) => OnceEach(Append(s, t))
<1> DEFINE r == Append(s, t)
<1>1. /\ r \in Seq(S) /\ Len(r) = Len(s) + 1 /\ r[Len(s) + 1] = t
      /\ \A j \in 1 .. Len(s) : r[j] = s[j]
  BY AppendProperties
<1>2. Len(s) \in Nat
  BY LenProperties
<1> HIDE DEF r
<1>3. 1 .. Len(r) = (1 .. Len(s)) \cup {Len(r)}
  BY <1>1, <1>2
<1>4. SameOthers(S, r, s, t) /\ InList(r, t)
  BY <1>1, <1>2, <1>3 DEF SameOthers, InList
<1>5. ASSUME OnceEach(s), ~InList(s, t) PROVE OnceEach(r)
  BY <1>1, <1>3, <1>5 DEF OnceEach, InList
<1> QED
  BY <1>1, <1>4, <1>5 DEF r

LEMMA MovedToEndKeeps ==
  ASSUME NEW S, NEW s \in Seq(S), NEW i \in 1 .. Len(s)
  PROVE  /\ \A u \in S : InList(MovedToEnd(s, i), u) <=> InList(s, u)
         /\ OnceEach(s) => OnceEach(MovedToEnd(s, i))
<1>1. s[i] \in S /\ InList(s, s[i])
  BY ElementOfSeq DEF InList
<1>2. /\ RemoveAt(s, i) \in Seq(S) /\ SameOthers(S, RemoveAt(s, i), s, s[i])
      /\ OnceEach(s) => OnceEach(RemoveAt(s, i)) /\ ~InList(RemoveAt(s, i), s[i])
  BY RemoveAtKeeps
<1> DEFINE r == RemoveAt(s, i)
<1> HIDE DEF r
<1>3. /\ SameOthers(S, Append(r, s[i]), r, s[i]) /\ InList(Append(r, s[i]), s[i])
      /\ OnceEach(r) /\ ~InList(r, s[i]) => OnceEach(Append(r, s[i]))
  BY <1>1, <1>2, AppendKeeps DEF r
<1> QED
  BY <1>1, <1>2, <1>3 DEF MovedToEnd, r, SameOthers

-----------------------------------------------------------------------------
(* Where tasks are: on the list of their priority, and on a list while a    *)
(* core has them.                                                          *)

\* Each ready task is once on the list of its priority, which is no higher than top.
Filed(lists, prio, top) ==
  \A p \in Priorities :
    /\ OnceEach(lists[p])
    /\ \A u \in Tasks : InList(lists[p], u) => prio[u] = p /\ p <= top

\* Idle tasks never leave the ready list of priority 0.
IdleTasksReady ==
  /\ xDelayedTaskList \subseteq AppTasks
  /\ \A u \in Tasks : InList(xTasksWaitingTermination, u) => u \in AppTasks
  /\ \A u \in IdleTasks : InList(pxReadyTasksLists[0], u)

PlaceOK ==
  /\ Filed(pxReadyTasksLists, uxPriority, uxTopReadyPriority)
  /\ IdleTasksReady
  /\ FreedTaskIsOffCore

ListNames == {"ready", "delayed", "suspended", "termination", "none"}

\* The tasks other than t stay where they are.
OthersStay(t) ==
  \A u \in Tasks : u # t =>
    /\ \A p \in Priorities : InList(pxReadyTasksLists'[p], u) <=> InList(pxReadyTasksLists[p], u)
    /\ InList(xTasksWaitingTermination', u) <=> InList(xTasksWaitingTermination, u)
    /\ u \in xDelayedTaskList' <=> u \in xDelayedTaskList
    /\ u \in xSuspendedTaskList' <=> u \in xSuspendedTaskList

LEMMA PriorityFacts ==
  /\ 0 \in Priorities
  /\ \A p \in Priorities : p \in Nat /\ p <= configMAX_PRIORITIES - 1
  /\ IdleTasks \subseteq Tasks /\ AppTasks \subseteq Tasks
  /\ \A t \in Tasks : t \in AppTasks <=> ~xIsIdle(t)
BY CoresAssumption, IdleAssumption DEF Priorities, Tasks, xIsIdle

LEMMA StayAllocated ==
  ASSUME NEW t, OthersStay(t), NEW u \in Tasks, u # t
  PROVE  Allocated(u)' <=> Allocated(u)
BY DEF OthersStay, Allocated, Ready

\* Moving t keeps every ready task on its list and leaves the others alone.
LEMMA MoveToKeeps ==
  ASSUME ListOK, uxPriority' \in [Tasks -> Priorities], NEW t \in Tasks, NEW list \in ListNames,
         MoveTo(t, list), \A u \in Tasks : u # t => uxPriority'[u] = uxPriority[u],
         Filed(pxReadyTasksLists, uxPriority, uxTopReadyPriority)
  PROVE  /\ Filed(pxReadyTasksLists', uxPriority', uxTopReadyPriority')
         /\ OthersStay(t)
         /\ list # "none" => Allocated(t)'
         /\ Ready(t)' <=> list = "ready"
<1> DEFINE without == [p \in Priorities |-> uxListRemove(pxReadyTasksLists[p], t)]
           w == uxListRemove(xTasksWaitingTermination, t)
           q == uxPriority'[t]
<1>1. /\ pxReadyTasksLists \in [Priorities -> Seq(Tasks)]
      /\ xTasksWaitingTermination \in Seq(Tasks) /\ q \in Priorities
      /\ uxTopReadyPriority \in Priorities
  BY DEF ListOK
<1>2. \A p \in Priorities :
        /\ without[p] \in Seq(Tasks) /\ SameOthers(Tasks, without[p], pxReadyTasksLists[p], t)
        /\ OnceEach(without[p]) /\ ~InList(without[p], t)
  <2> SUFFICES ASSUME NEW p \in Priorities
               PROVE  /\ without[p] \in Seq(Tasks)
                      /\ SameOthers(Tasks, without[p], pxReadyTasksLists[p], t)
                      /\ OnceEach(without[p]) /\ ~InList(without[p], t)
    OBVIOUS
  <2>1. pxReadyTasksLists[p] \in Seq(Tasks) /\ OnceEach(pxReadyTasksLists[p])
    BY <1>1 DEF Filed
  <2> QED
    BY <2>1, RemoveKeeps
<1>3. w \in Seq(Tasks) /\ SameOthers(Tasks, w, xTasksWaitingTermination, t)
  BY <1>1, RemoveKeeps
<1>4. /\ xTasksWaitingTermination' = IF list = "termination" THEN Append(w, t) ELSE w
      /\ pxReadyTasksLists' = IF list = "ready" THEN [without EXCEPT ![q] = Append(@, t)]
                              ELSE without
      /\ uxTopReadyPriority' = IF list = "ready" /\ q > uxTopReadyPriority THEN q
                               ELSE uxTopReadyPriority
      /\ xDelayedTaskList' = (xDelayedTaskList \ {t})
                             \cup (IF list = "delayed" THEN {t} ELSE {})
      /\ xSuspendedTaskList' = (xSuspendedTaskList \ {t})
                               \cup (IF list = "suspended" THEN {t} ELSE {})
  BY DEF MoveTo
<1>5. without \in [Priorities -> Seq(Tasks)]
  BY <1>2
<1> HIDE DEF without, w
<1>6. /\ list = "ready" => pxReadyTasksLists'[q] = Append(without[q], t)
      /\ \A p \in Priorities : list # "ready" \/ p # q => pxReadyTasksLists'[p] = without[p]
  BY <1>1, <1>4, <1>5
<1>7. /\ SameOthers(Tasks, Append(without[q], t), without[q], t)
      /\ InList(Append(without[q], t), t) /\ OnceEach(Append(without[q], t))
  BY <1>1, <1>2, AppendKeeps
<1>8. SameOthers(Tasks, Append(w, t), w, t) /\ InList(Append(w, t), t)
  BY <1>3, AppendKeeps
<1>9. \A p \in Priorities :
        /\ SameOthers(Tasks, pxReadyTasksLists'[p], pxReadyTasksLists[p], t)
        /\ OnceEach(pxReadyTasksLists'[p])
        /\ InList(pxReadyTasksLists'[p], t) => list = "ready" /\ p = q
  <2> SUFFICES ASSUME NEW p \in Priorities
               PROVE  /\ SameOthers(Tasks, pxReadyTasksLists'[p], pxReadyTasksLists[p], t)
                      /\ OnceEach(pxReadyTasksLists'[p])
                      /\ InList(pxReadyTasksLists'[p], t) => list = "ready" /\ p = q
    OBVIOUS
  <2>1. CASE list = "ready" /\ p = q
    BY <1>2, <1>6, <1>7, <2>1 DEF SameOthers
  <2>2. CASE ~(list = "ready" /\ p = q)
    BY <1>2, <1>6, <2>2
  <2> QED
    BY <2>1, <2>2
<1>10. SameOthers(Tasks, xTasksWaitingTermination', xTasksWaitingTermination, t)
  <2>1. CASE list = "termination"
    BY <1>3, <1>4, <1>8, <2>1 DEF SameOthers
  <2>2. CASE list # "termination"
    BY <1>3, <1>4, <2>2
  <2> QED
    BY <2>1, <2>2
<1>11. OthersStay(t)
  BY <1>4, <1>9, <1>10 DEF OthersStay, SameOthers
<1>12. list # "none" => Allocated(t)'
  <2>1. CASE list = "ready"
    BY <1>1, <1>6, <1>7, <2>1 DEF Allocated, Ready
  <2>2. CASE list = "termination"
    BY <1>4, <1>8, <2>2 DEF Allocated
  <2>3. CASE list \in {"delayed", "suspended"}
    BY <1>4, <2>3 DEF Allocated
  <2> QED
    BY <2>1, <2>2, <2>3 DEF ListNames
<1>13. uxTopReadyPriority' >= uxTopReadyPriority /\ (list = "ready" => q <= uxTopReadyPriority')
  BY <1>1, <1>4, PriorityFacts
<1>14. uxTopReadyPriority' \in Nat /\ uxTopReadyPriority \in Nat
  BY <1>1, <1>4, PriorityFacts
<1>15. ASSUME NEW p \in Priorities, NEW u \in Tasks, InList(pxReadyTasksLists'[p], u)
       PROVE  uxPriority'[u] = p /\ p <= uxTopReadyPriority'
  <2>1. CASE u = t
    BY <1>9, <1>13, <1>15, <2>1
  <2>2. CASE u # t
    <3>1. InList(pxReadyTasksLists[p], u)
      BY <1>9, <1>15, <2>2 DEF SameOthers
    <3>2. uxPriority'[u] = p /\ p <= uxTopReadyPriority
      BY <2>2, <3>1 DEF Filed
    <3> QED
      BY <3>2, <1>13, <1>14, PriorityFacts
  <2> QED
    BY <2>1, <2>2
<1>16. Ready(t)' <=> list = "ready"
  BY <1>1, <1>6, <1>7, <1>9 DEF Ready
<1> QED
  BY <1>9, <1>11, <1>12, <1>15, <1>16 DEF Filed

\* A step that moves t, a task of the application, between lists.
Moves(t, list) ==
  /\ t \in AppTasks /\ list \in ListNames /\ MoveTo(t, list)
  /\ UNCHANGED pxCurrentTCBs
  /\ \A u \in Tasks : u # t => uxPriority'[u] = uxPriority[u]
  /\ list = "none" => xTaskRunState[t] = taskTASK_NOT_RUNNING

LEMMA NotRunning ==
  ASSUME CoreOK, NEW t \in Tasks, xTaskRunState[t] = taskTASK_NOT_RUNNING
  PROVE  \A c \in Cores : pxCurrentTCBs[c] # t
BY CoreFacts DEF CoreOK, Matches

LEMMA MoveKeepsPlace ==
  ASSUME CoreOK, ListOK, PlaceOK, uxPriority' \in [Tasks -> Priorities],
         NEW t, NEW list, Moves(t, list)
  PROVE  PlaceOK'
<1>1. t \in Tasks /\ list \in ListNames /\ MoveTo(t, list)
  BY PriorityFacts DEF Moves
<1>2. /\ Filed(pxReadyTasksLists', uxPriority', uxTopReadyPriority')
      /\ OthersStay(t) /\ (list # "none" => Allocated(t)')
  BY <1>1, MoveToKeeps DEF Moves, PlaceOK
<1>3. IdleTasksReady'
  <2>1. \A u \in IdleTasks : u \in Tasks /\ u # t
    BY IdleAssumption, PriorityFacts DEF Moves
  <2>2. \A u \in IdleTasks : InList(pxReadyTasksLists'[0], u)
    BY <1>2, <2>1, PriorityFacts DEF OthersStay, PlaceOK, IdleTasksReady
  <2>3. xDelayedTaskList' \subseteq AppTasks
    BY DEF Moves, MoveTo, PlaceOK, IdleTasksReady
  <2>4. ASSUME NEW u \in Tasks, InList(xTasksWaitingTermination', u) PROVE u \in AppTasks
    BY <1>2, <2>4 DEF OthersStay, PlaceOK, IdleTasksReady, Moves
  <2> QED
    BY <2>2, <2>3, <2>4 DEF IdleTasksReady
<1>4. FreedTaskIsOffCore'
  <2> SUFFICES ASSUME NEW u \in Tasks, ~Allocated(u)', NEW c \in Cores
               PROVE  pxCurrentTCBs'[c] # u
    BY DEF FreedTaskIsOffCore
  <2>1. CASE u = t
    BY <1>1, <1>2, <2>1, NotRunning DEF Moves
  <2>2. CASE u # t
    BY <1>2, <2>2, StayAllocated DEF PlaceOK, FreedTaskIsOffCore, Moves
  <2> QED
    BY <2>1, <2>2
<1> QED
  BY <1>2, <1>3, <1>4 DEF PlaceOK

\* The task that is chosen is ready, and no list above the new top holds a task.
LEMMA SelectKeepsPlace ==
  ASSUME CoreOK, ListOK, PlaceOK, NEW c \in Cores, prvSelectHighestPriorityTask(c),
         UNCHANGED <<uxPriority, xDelayedTaskList, xSuspendedTaskList, xTasksWaitingTermination>>
  PROVE  PlaceOK'
<1>1. PICK top \in Priorities, p \in Priorities : \E i \in 1 .. Len(pxReadyTasksLists[p]) :
        /\ IsTopReady(top) /\ p <= top
        /\ pxCurrentTCBs' = [pxCurrentTCBs EXCEPT ![c] = pxReadyTasksLists[p][i]]
        /\ pxReadyTasksLists' = [pxReadyTasksLists EXCEPT ![p] = MovedToEnd(@, i)]
        /\ uxTopReadyPriority' = top
  BY DEF prvSelectHighestPriorityTask, MayRun
<1>2. PICK i \in 1 .. Len(pxReadyTasksLists[p]) :
        /\ IsTopReady(top) /\ p <= top
        /\ pxCurrentTCBs' = [pxCurrentTCBs EXCEPT ![c] = pxReadyTasksLists[p][i]]
        /\ pxReadyTasksLists' = [pxReadyTasksLists EXCEPT ![p] = MovedToEnd(@, i)]
        /\ uxTopReadyPriority' = top
  BY <1>1
<1> DEFINE t == pxReadyTasksLists[p][i]
           list == pxReadyTasksLists[p]
<1>3. list \in Seq(Tasks) /\ t \in Tasks /\ InList(list, t)
  BY ElementOfSeq DEF ListOK, InList
<1>4. /\ \A u \in Tasks : InList(MovedToEnd(list, i), u) <=> InList(list, u)
      /\ OnceEach(list) => OnceEach(MovedToEnd(list, i))
  BY <1>3, MovedToEndKeeps
<1>5. /\ pxReadyTasksLists'[p] = MovedToEnd(list, i)
      /\ \A q \in Priorities : q # p => pxReadyTasksLists'[q] = pxReadyTasksLists[q]
  BY <1>2 DEF ListOK
<1>6. \A q \in Priorities : \A u \in Tasks :
        InList(pxReadyTasksLists'[q], u) <=> InList(pxReadyTasksLists[q], u)
  BY <1>4, <1>5
<1>7. Filed(pxReadyTasksLists', uxPriority', uxTopReadyPriority')
  <2>1. ASSUME NEW q \in Priorities, NEW u \in Tasks, InList(pxReadyTasksLists'[q], u)
        PROVE  uxPriority'[u] = q /\ q <= uxTopReadyPriority'
    <3>1. InList(pxReadyTasksLists[q], u)
      BY <1>6, <2>1
    <3>2. uxPriority[u] = q /\ q <= uxTopReadyPriority
      BY <3>1 DEF PlaceOK, Filed
    <3>3. pxReadyTasksLists[q] # <<>>
      BY <3>1 DEF InList
    <3>4. q <= top
      BY <1>2, <3>2, <3>3, PriorityFacts DEF IsTopReady, ListOK
    <3> QED
      BY <1>2, <3>2, <3>4
  <2>2. \A q \in Priorities : OnceEach(pxReadyTasksLists'[q])
    BY <1>4, <1>5 DEF PlaceOK, Filed
  <2> QED
    BY <2>1, <2>2 DEF Filed
<1>8. IdleTasksReady'
  BY <1>6, PriorityFacts DEF IdleTasksReady, PlaceOK
<1>9. \A u \in Tasks : Allocated(u)' <=> Allocated(u)
  BY <1>6 DEF Allocated, Ready
<1>10. Allocated(t)
  BY <1>3 DEF Allocated, Ready
<1>11. FreedTaskIsOffCore'
  BY <1>2, <1>3, <1>9, <1>10 DEF FreedTaskIsOffCore, PlaceOK, CoreOK
<1> QED
  BY <1>7, <1>8, <1>11 DEF PlaceOK

\* A step that leaves the lists alone; priorities change for no ready task.
LEMMA SameKeepsPlace ==
  ASSUME PlaceOK, UNCHANGED <<listVars, pxCurrentTCBs>>,
         \A u \in Tasks : uxPriority'[u] = uxPriority[u] \/ ~Ready(u)
  PROVE  PlaceOK'
<1>1. Filed(pxReadyTasksLists', uxPriority', uxTopReadyPriority')
  BY DEF PlaceOK, Filed, listVars, Ready
<1>2. IdleTasksReady' /\ FreedTaskIsOffCore'
  BY DEF PlaceOK, IdleTasksReady, FreedTaskIsOffCore, Allocated, Ready, listVars
<1> QED
  BY <1>1, <1>2 DEF PlaceOK

LEMMA InitPlace == Init => PlaceOK
<1> SUFFICES ASSUME Init PROVE PlaceOK
  OBVIOUS
<1>1. /\ pxReadyTasksLists = InitReadyLists /\ uxPriority = InitPriority
      /\ pxCurrentTCBs = xIdleTaskHandle
      /\ xDelayedTaskList = {} /\ xTasksWaitingTermination = <<>>
      /\ uxTopReadyPriority \in Priorities
      /\ \A p \in Priorities : p > uxTopReadyPriority => InitReadyLists[p] = <<>>
  BY DEF Init
<1>2. Filed(pxReadyTasksLists, uxPriority, uxTopReadyPriority)
  <2>1. ASSUME NEW p \in Priorities, NEW u \in Tasks, InList(InitReadyLists[p], u)
        PROVE  InitPriority[u] = p /\ p <= uxTopReadyPriority
    <3>1. InitReadyLists[p] # <<>>
      BY <2>1, EmptySeq DEF InList
    <3>2. p <= uxTopReadyPriority
      BY <1>1, <3>1, PriorityFacts
    <3> QED
      BY <2>1, <3>2, InitAssumption DEF InList
  <2>2. \A p \in Priorities : OnceEach(InitReadyLists[p])
    BY InitAssumption DEF OnceEach
  <2> QED
    BY <1>1, <2>1, <2>2 DEF Filed
<1>3. IdleTasksReady
  BY <1>1, InitAssumption, EmptySeq DEF IdleTasksReady, InList
<1>4. FreedTaskIsOffCore
  BY <1>1, <1>3, IdleAssumption, PriorityFacts
     DEF FreedTaskIsOffCore, IdleTasksReady, Allocated, Ready, IdleTasks
<1> QED
  BY <1>2, <1>3, <1>4 DEF PlaceOK

LEMMA PlaceStep == IInv /\ PlaceOK /\ [Next]_vars => PlaceOK'
<1> SUFFICES ASSUME IInv, PlaceOK, [Next]_vars PROVE PlaceOK'
  OBVIOUS
<1>1. CoreOK /\ ListOK /\ uxPriority' \in [Tasks -> Priorities] /\ uxPriority \in [Tasks -> Priorities]
  BY NextKeeps DEF IInv, ListOK
<1>2. ASSUME NEW t, NEW list, Moves(t, list) PROVE PlaceOK'
  BY <1>1, <1>2, MoveKeepsPlace
<1>3. ASSUME UNCHANGED <<listVars, uxPriority, pxCurrentTCBs>> PROVE PlaceOK'
  BY <1>3, SameKeepsPlace
<1>4. ASSUME NEW c \in Cores, SchedulerStep(c) PROVE PlaceOK'
  <2>1. CASE vTaskSwitchContext(c)
    <3>1. CASE prvSelectHighestPriorityTask(c)
      BY <1>1, <2>1, <3>1, SelectKeepsPlace DEF vTaskSwitchContext
    <3>2. CASE uxSchedulerSuspended # 0
      BY <1>3, <2>1, <3>2 DEF vTaskSwitchContext, listVars
    <3> QED
      BY <2>1, <3>1, <3>2 DEF vTaskSwitchContext
  <2>2. CASE SliceTime(c)
    BY <1>3, <2>2 DEF SliceTime, YieldCores
  <2>3. CASE YieldInterrupt(c)
    BY <1>3, <2>3 DEF YieldInterrupt
  <2>4. CASE vTaskExitCritical(c) \/ vTaskYieldWithinAPI(c)
    BY <1>3, <2>4 DEF vTaskExitCritical, vTaskYieldWithinAPI, coreVars
  <2>5. CASE prvCheckForRunStateChange(c) \/ Reacquire(c)
    BY <1>3, <2>5 DEF prvCheckForRunStateChange, Reacquire, coreVars
  <2>6. CASE xTaskResumeAll(c) \/ ResumeAllDone(c) \/ PendTick(c)
    BY <1>3, <2>6 DEF xTaskResumeAll, ResumeAllDone, PendTick, coreVars
  <2> QED
    BY <1>4, <2>1, <2>2, <2>3, <2>4, <2>5, <2>6 DEF SchedulerStep
<1>5. ASSUME NEW c \in Cores, ApplicationStep(c) PROVE PlaceOK'
  <2>1. CASE taskYIELD(c) \/ prvIdleTask(c) \/ vTaskSuspendAll(c)
    BY <1>3, <2>1 DEF taskYIELD, prvIdleTask, vTaskSuspendAll, coreVars
  <2>2. CASE prvCheckTasksWaitingTermination(c)
    <3> DEFINE t == Head(xTasksWaitingTermination)
    <3>1. t \in AppTasks
      <4>1. xTasksWaitingTermination \in Seq(Tasks) /\ xTasksWaitingTermination # <<>>
        BY <1>1, <2>2 DEF prvCheckTasksWaitingTermination, ListOK
      <4>2. t \in Tasks /\ InList(xTasksWaitingTermination, t)
        BY <4>1 DEF InList
      <4> QED
        BY <4>2 DEF PlaceOK, IdleTasksReady
    <3>2. UNCHANGED <<uxPriority, pxCurrentTCBs>>
      BY <2>2 DEF prvCheckTasksWaitingTermination, coreVars
    <3>3. CASE xTaskRunState[t] = taskTASK_NOT_RUNNING
      <4>1. Moves(t, "none")
        BY <2>2, <3>1, <3>2, <3>3 DEF prvCheckTasksWaitingTermination, Moves, ListNames
      <4> QED
        BY <1>2, <4>1
    <3>4. CASE xTaskRunState[t] # taskTASK_NOT_RUNNING
      BY <1>3, <2>2, <3>2, <3>4 DEF prvCheckTasksWaitingTermination
    <3> QED
      BY <3>3, <3>4
  <2>3. CASE prvAddCurrentTaskToDelayedList(c)
    <3>1. pxCurrentTCBs[c] \in AppTasks
      BY <1>1, <2>3, PriorityFacts DEF prvAddCurrentTaskToDelayedList, MayCall, CoreOK
    <3>2. Moves(pxCurrentTCBs[c], "delayed")
      BY <2>3, <3>1 DEF prvAddCurrentTaskToDelayedList, coreVars, Moves, ListNames
    <3> QED
      BY <1>2, <3>2
  <2>4. ASSUME NEW t \in Tasks, vTaskSuspend(c, t) PROVE PlaceOK'
    <3>1. Moves(t, "suspended")
      BY <2>4 DEF vTaskSuspend, MayStop, YieldCores, Moves, ListNames
    <3> QED
      BY <1>2, <3>1
  <2>5. ASSUME NEW t \in Tasks, vTaskResume(c, t) PROVE PlaceOK'
    <3>1. CASE t \in xSuspendedTaskList
      <4>1. Moves(t, "ready")
        BY <2>5, <3>1 DEF vTaskResume, prvYieldForTask, Moves, ListNames
      <4> QED
        BY <1>2, <4>1
    <3>2. CASE t \notin xSuspendedTaskList
      BY <1>3, <2>5, <3>2 DEF vTaskResume, coreVars
    <3> QED
      BY <3>1, <3>2
  <2>6. ASSUME NEW t \in Tasks, vTaskDelete(c, t) PROVE PlaceOK'
    <3> DEFINE list == IF xTaskRunState[t] = taskTASK_NOT_RUNNING THEN "none" ELSE "termination"
    <3>1. /\ t \in AppTasks /\ MoveTo(t, list) /\ UNCHANGED <<uxPriority, pxCurrentTCBs>>
      BY <2>6 DEF vTaskDelete, MayStop, YieldCores
    <3>2. list \in ListNames /\ (list = "none" => xTaskRunState[t] = taskTASK_NOT_RUNNING)
      BY DEF ListNames
    <3> HIDE DEF list
    <3>3. Moves(t, list)
      BY <3>1, <3>2 DEF Moves
    <3> QED
      BY <1>2, <3>3
  <2>7. ASSUME NEW t \in Tasks, NEW p \in Priorities, vTaskPrioritySet(c, t, p) PROVE PlaceOK'
    <3>1. /\ t \in AppTasks /\ uxPriority' = [uxPriority EXCEPT ![t] = p]
          /\ UNCHANGED pxCurrentTCBs
      BY <2>7 DEF vTaskPrioritySet, YieldCores, prvYieldForTask, coreVars
    <3>2. CASE p # uxPriority[t] /\ Ready(t)
      <4>1. Moves(t, "ready")
        BY <1>1, <2>7, <3>1, <3>2 DEF vTaskPrioritySet, Moves, ListNames
      <4> QED
        BY <1>2, <4>1
    <3>3. CASE ~(p # uxPriority[t] /\ Ready(t))
      <4>1. UNCHANGED <<listVars, pxCurrentTCBs>>
        BY <2>7, <3>1, <3>3 DEF vTaskPrioritySet
      <4>2. \A u \in Tasks : uxPriority'[u] = uxPriority[u] \/ ~Ready(u)
        BY <1>1, <3>1, <3>3
      <4> QED
        BY <4>1, <4>2, SameKeepsPlace
    <3> QED
      BY <3>2, <3>3
  <2>8. ASSUME NEW t \in Tasks, NEW p \in Priorities, prvAddNewTaskToReadyList(c, t, p)
        PROVE  PlaceOK'
    <3>1. Moves(t, "ready")
      BY <1>1, <2>8 DEF prvAddNewTaskToReadyList, prvYieldForTask, Moves, ListNames
    <3> QED
      BY <1>2, <3>1
  <2> QED
    BY <1>5, <2>1, <2>2, <2>3, <2>4, <2>5, <2>6, <2>7, <2>8 DEF ApplicationStep
<1>6. ASSUME NEW c \in Cores, NEW t \in Tasks, UnblockTask(c, t) PROVE PlaceOK'
  <2>1. Moves(t, "ready")
    BY <1>6 DEF UnblockTask, prvYieldForTask, Moves, ListNames, PlaceOK, IdleTasksReady
  <2> QED
    BY <1>2, <2>1
<1>7. ASSUME NEW c \in Cores, TickInterrupt(c) PROVE PlaceOK'
  BY <1>3, <1>7 DEF TickInterrupt, coreVars
<1>8. ASSUME UNCHANGED vars PROVE PlaceOK'
  BY <1>3, <1>8 DEF vars, coreVars
<1> QED
  BY <1>4, <1>5, <1>6, <1>7, <1>8 DEF Next

-----------------------------------------------------------------------------
(* A core that switches finds a task.                                      *)

\* A set of natural numbers that is not empty has a smallest one.
LEMMA LeastOne ==
  ASSUME NEW T \in SUBSET Nat, T # {}
  PROVE  \E x \in T : \A y \in T : x <= y
<1> DEFINE R == {s \in Nat \X Nat : s[1] < s[2]}
<1>1. IsWellFoundedOn(R, Nat)
  BY NatLessThanWellFounded DEF OpToRel
<1>2. \A x, y \in Nat : y < x => <<y, x>> \in R
  OBVIOUS
<1> HIDE DEF R
<1>3. PICK x \in T : \A y \in T : ~(<<y, x>> \in R)
  BY <1>1, WFMin
<1>4. \A z \in T : z \in Nat
  OBVIOUS
<1>5. ASSUME NEW y \in T PROVE x <= y
  <2>1. x \in Nat /\ y \in Nat
    BY <1>4
  <2>2. ~(y < x)
    BY <1>2, <1>3, <2>1
  <2> QED
    BY <2>1, <2>2
<1> QED
  BY <1>5

\* The search for the top priority ends at a list that holds a task.
LEMMA TopExists ==
  ASSUME ListOK, PlaceOK
  PROVE  \E top \in Priorities : IsTopReady(top)
<1>1. uxTopReadyPriority \in Nat /\ uxTopReadyPriority \in Priorities
  BY PriorityFacts DEF ListOK
<1>2. pxReadyTasksLists[0] # <<>>
  <2>1. 0 \in Cores
    BY CoresAssumption DEF Cores
  <2>2. InList(pxReadyTasksLists[0], xIdleTaskHandle[0])
    BY <2>1 DEF IdleTasks, PlaceOK, IdleTasksReady
  <2> QED
    BY <2>2, EmptySeq DEF InList
<1> DEFINE T == {n \in 0 .. uxTopReadyPriority : pxReadyTasksLists[uxTopReadyPriority - n] # <<>>}
<1>3. T \in SUBSET Nat /\ uxTopReadyPriority \in T
  BY <1>1, <1>2
<1>4. PICK x \in T : \A y \in T : x <= y
  BY <1>3, LeastOne
<1> DEFINE top == uxTopReadyPriority - x
<1>5. x \in 0 .. uxTopReadyPriority /\ pxReadyTasksLists[top] # <<>>
  OBVIOUS
<1>6. top \in 0 .. uxTopReadyPriority
  BY <1>1, <1>5
<1>7. ASSUME NEW p \in top + 1 .. uxTopReadyPriority PROVE pxReadyTasksLists[p] = <<>>
  <2> DEFINE n == uxTopReadyPriority - p
  <2>1. n \in 0 .. uxTopReadyPriority /\ n < x /\ uxTopReadyPriority - n = p
    BY <1>1, <1>5, <1>6
  <2>2. x \in Int /\ n \in Int
    BY <1>1, <1>5, <2>1
  <2>3. n \notin T
    BY <1>4, <2>1, <2>2
  <2> QED
    BY <2>1, <2>3
<1>8. top \in Priorities
  <2>1. configMAX_PRIORITIES \in Nat /\ uxTopReadyPriority \in 0 .. configMAX_PRIORITIES - 1
    BY <1>1, CoresAssumption DEF Priorities
  <2> QED
    BY <1>1, <1>6, <2>1 DEF Priorities
<1> HIDE DEF top
<1> QED
  BY <1>5, <1>6, <1>7, <1>8 DEF IsTopReady, top

\* There is an idle task more than other cores can run.
LEMMA IdleTaskLeft ==
  ASSUME CoreOK, NEW c \in Cores
  PROVE  \E t \in IdleTasks : xTaskRunState[t] = taskTASK_NOT_RUNNING \/ t = pxCurrentTCBs[c]
<1> SUFFICES ASSUME \A t \in IdleTasks : /\ xTaskRunState[t] # taskTASK_NOT_RUNNING
                                         /\ t # pxCurrentTCBs[c]
             PROVE  FALSE
  OBVIOUS
<1> DEFINE f == [x \in Cores |-> CHOOSE d \in Cores : pxCurrentTCBs[d] = xIdleTaskHandle[x]]
<1>1. ASSUME NEW x \in Cores
      PROVE  f[x] \in Cores \ {c} /\ pxCurrentTCBs[f[x]] = xIdleTaskHandle[x]
  <2>1. xIdleTaskHandle[x] \in IdleTasks /\ xIdleTaskHandle[x] \in Tasks
    BY PriorityFacts DEF IdleTasks
  <2>2. \E d \in Cores : pxCurrentTCBs[d] = xIdleTaskHandle[x]
    BY <2>1 DEF CoreOK, Matches
  <2>3. f[x] \in Cores /\ pxCurrentTCBs[f[x]] = xIdleTaskHandle[x]
    BY <2>2
  <2> QED
    BY <2>1, <2>3
<1>2. f \in [Cores -> Cores \ {c}]
  BY <1>1
<1>3. IsFiniteSet(Cores) /\ Cardinality(Cores) \in Nat
  BY FS_Interval, FS_CardinalityType, CoresAssumption DEF Cores
<1>4. IsFiniteSet(Cores \ {c}) /\ Cardinality(Cores \ {c}) = Cardinality(Cores) - 1
  BY <1>3, FS_RemoveElement
<1>5. Cardinality(Cores \ {c}) < Cardinality(Cores)
  BY <1>3, <1>4
<1> HIDE DEF f
<1>6. PICK x, y \in Cores : x # y /\ f[x] = f[y]
  BY <1>2, <1>3, <1>4, <1>5, FS_PigeonHole
<1> QED
  BY <1>1, <1>6, IdleAssumption

LEMMA FindsTask == IInv /\ PlaceOK => SwitchFindsTask
<1> SUFFICES ASSUME IInv, PlaceOK, NEW c \in Cores
             PROVE  \E top, p \in Priorities : \E i \in 1 .. Len(pxReadyTasksLists[p]) :
                      IsTopReady(top) /\ MayRun(c, top, p, i)
  BY DEF SwitchFindsTask
<1>1. PICK top \in Priorities : IsTopReady(top)
  BY TopExists DEF IInv
<1>2. PICK t \in IdleTasks : xTaskRunState[t] = taskTASK_NOT_RUNNING \/ t = pxCurrentTCBs[c]
  BY IdleTaskLeft DEF IInv
<1>3. PICK i \in 1 .. Len(pxReadyTasksLists[0]) : pxReadyTasksLists[0][i] = t
  BY DEF PlaceOK, IdleTasksReady, InList
<1>4. 0 \in Priorities /\ 0 <= top
  BY PriorityFacts
<1>5. MayRun(c, top, 0, i)
  BY <1>2, <1>3, <1>4 DEF MayRun, xIsIdle
<1> QED
  BY <1>1, <1>4, <1>5

-----------------------------------------------------------------------------
(* A yield asked of a core is kept until it switches.                      *)

\* Where core c stands when it owes a yield.
WillYield(c) ==
  \/ isr[c] \in {"ticking", "switch"}
  \/ pc[pxCurrentTCBs[c]] \in {"exit", "exitDelay"} \cup SuspendedRegion \cup Resuming
  \/ OnePriority /\ xIsIdle(pxCurrentTCBs[c])

\* A task that has interrupts disabled in vTaskSuspendAll owes no yield, so that it
\* may give the suspension back.
YieldOK ==
  /\ YieldRequestIsKept
  /\ \A c \in Cores : pc[pxCurrentTCBs[c]] = "susCheck" => ~xYieldPendings[c]

\* Who is newly asked to yield, of the tasks cur on cores, has an interrupt on its way.
AsksByInterrupt(cur, st) ==
  \A x \in Cores : /\ xTaskRunState'[cur[x]] = taskTASK_YIELDING =>
                        st[cur[x]] = taskTASK_YIELDING \/ yieldIRQ'[x]
                   /\ yieldIRQ[x] => yieldIRQ'[x]

\* No two cores have the same task.
OwnTasks(cur) == \A c, d \in Cores : cur[c] = cur[d] => c = d

LEMMA YieldCoreAsks ==
  ASSUME NEW me \in Cores, NEW inISR, NEW S \in SUBSET Cores, NEW cur \in [Cores -> Tasks],
         NEW st, NEW pend \in [Cores -> BOOLEAN], yieldIRQ \in [Cores -> BOOLEAN],
         OwnTasks(cur), prvYieldCore(me, inISR, S, cur, st, pend)
  PROVE  /\ AsksByInterrupt(cur, st)
         /\ \A x \in Cores \ {me} : xYieldPendings'[x] = pend[x]
         /\ pend[me] => xYieldPendings'[me]
         /\ me \notin S => xYieldPendings'[me] = pend[me]
<1> DEFINE asked == {x \in S : st[cur[x]] # taskTASK_YIELDING}
<1>1. /\ xYieldPendings' = [x \in Cores |->
                              pend[x] \/ (x = me /\ x \in S /\ (inISR \/ x \in asked))]
      /\ yieldIRQ' = [x \in Cores |-> yieldIRQ[x] \/ (x # me /\ x \in asked)]
      /\ xTaskRunState' = [t \in Tasks |-> IF \E x \in asked \ {me} : cur[x] = t
                                           THEN taskTASK_YIELDING ELSE st[t]]
  BY Zenon DEF prvYieldCore
<1>2. asked \in SUBSET Cores
  OBVIOUS
<1> HIDE DEF asked
<1>3. AsksByInterrupt(cur, st)
  <2> SUFFICES ASSUME NEW x \in Cores
               PROVE  /\ xTaskRunState'[cur[x]] = taskTASK_YIELDING =>
                           st[cur[x]] = taskTASK_YIELDING \/ yieldIRQ'[x]
                      /\ yieldIRQ[x] => yieldIRQ'[x]
    BY DEF AsksByInterrupt
  <2>1. yieldIRQ[x] => yieldIRQ'[x]
    BY <1>1
  <2>2. CASE \E y \in asked \ {me} : cur[y] = cur[x]
    <3>1. x \in asked \ {me}
      BY <1>2, <2>2 DEF OwnTasks
    <3>2. yieldIRQ'[x]
      BY <1>1, <3>1
    <3> QED
      BY <2>1, <3>2
  <2>3. CASE ~\E y \in asked \ {me} : cur[y] = cur[x]
    BY <1>1, <2>1, <2>3
  <2> QED
    BY <2>2, <2>3
<1>4. ASSUME NEW x \in Cores \ {me} PROVE xYieldPendings'[x] = pend[x]
  <2>1. x # me /\ pend[x] \in BOOLEAN
    OBVIOUS
  <2> QED
    BY <1>1, <2>1
<1>5. /\ pend[me] => xYieldPendings'[me]
      /\ me \notin S => xYieldPendings'[me] = pend[me]
  BY <1>1
<1> QED
  BY <1>3, <1>4, <1>5

\* What a step of core c does that no other core can disturb.
OthersGoOn(c) ==
  \A x \in Cores \ {c} : /\ xYieldPendings'[x] = xYieldPendings[x] /\ isr'[x] = isr[x]
                         /\ pc'[pxCurrentTCBs[x]] = pc[pxCurrentTCBs[x]]

LEMMA YieldKept ==
  ASSUME YieldOK, NEW c \in Cores, UNCHANGED pxCurrentTCBs, OthersGoOn(c),
         \A x \in Cores : /\ xTaskRunState'[pxCurrentTCBs[x]] = taskTASK_YIELDING =>
                               xTaskRunState[pxCurrentTCBs[x]] = taskTASK_YIELDING \/ yieldIRQ'[x]
                          /\ x # c => (yieldIRQ[x] => yieldIRQ'[x]),
         yieldIRQ[c] \/ isr[c] = "switch" => yieldIRQ'[c] \/ isr'[c] = "switch",
         xYieldPendings[c] => xYieldPendings'[c],
         xYieldPendings'[c] => WillYield(c)',
         pc'[pxCurrentTCBs[c]] = "susCheck" => ~xYieldPendings'[c]
  PROVE  YieldOK'
<1>1. ASSUME NEW x \in Cores
      PROVE  /\ xTaskRunState'[pxCurrentTCBs[x]] = taskTASK_YIELDING =>
                  yieldIRQ'[x] \/ isr'[x] = "switch" \/ xYieldPendings'[x]
             /\ xYieldPendings'[x] => WillYield(x)'
             /\ pc'[pxCurrentTCBs[x]] = "susCheck" => ~xYieldPendings'[x]
  <2>1. CASE x = c
    BY <2>1 DEF YieldOK, YieldRequestIsKept
  <2>2. CASE x # c
    <3>1. /\ xYieldPendings'[x] = xYieldPendings[x] /\ isr'[x] = isr[x]
          /\ pc'[pxCurrentTCBs[x]] = pc[pxCurrentTCBs[x]]
      BY <2>2 DEF OthersGoOn
    <3>2. xYieldPendings[x] => WillYield(x)
      BY DEF YieldOK, YieldRequestIsKept, WillYield
    <3>3. xYieldPendings'[x] => WillYield(x)'
      BY <3>1, <3>2 DEF WillYield
    <3> QED
      BY <2>2, <3>1, <3>3 DEF YieldOK, YieldRequestIsKept
  <2> QED
    BY <2>1, <2>2
<1> QED
  BY <1>1 DEF YieldOK, YieldRequestIsKept, WillYield

\* A step of core c that asks nobody.
LEMMA ControlKeepsYield ==
  ASSUME CoreOK, YieldOK, NEW c \in Cores, UNCHANGED coreVars,
         \A x \in Cores \ {c} : /\ isr'[x] = isr[x]
                                /\ pc'[pxCurrentTCBs[x]] = pc[pxCurrentTCBs[x]],
         isr[c] = "switch" => isr'[c] = "switch",
         xYieldPendings[c] => WillYield(c)',
         pc'[pxCurrentTCBs[c]] = "susCheck" => ~xYieldPendings[c]
  PROVE  YieldOK'
<1>1. /\ pxCurrentTCBs' = pxCurrentTCBs /\ xTaskRunState' = xTaskRunState
      /\ xYieldPendings' = xYieldPendings /\ yieldIRQ' = yieldIRQ
  BY DEF coreVars
<1>2. OthersGoOn(c)
  BY <1>1 DEF OthersGoOn
<1> QED
  BY <1>1, <1>2, YieldKept

\* A step of core c that asks some cores, at a place where c itself can be asked.
LEMMA AskingKeepsYield ==
  ASSUME CoreOK, YieldOK, NEW c \in Cores,
         \/ \E inISR, S : S \in SUBSET Cores /\ YieldCores(c, inISR, S)
         \/ \E inISR, t, preemptEqual : prvYieldForTask(c, inISR, t, preemptEqual)
         \/ UNCHANGED coreVars,
         \A x \in Cores \ {c} : /\ isr'[x] = isr[x]
                                /\ pc'[pxCurrentTCBs[x]] = pc[pxCurrentTCBs[x]],
         isr[c] = "switch" => isr'[c] = "switch",
         \/ isr'[c] \in {"ticking", "switch"}
         \/ pc'[pxCurrentTCBs[c]] \in {"exit", "exitSuspended", "resuming", "resumingDelay"},
         pc'[pxCurrentTCBs[c]] # "susCheck"
  PROVE  YieldOK'
<1>1. CASE UNCHANGED coreVars
  <2>1. WillYield(c)'
    BY <1>1 DEF WillYield, SuspendedRegion, Resuming, coreVars
  <2> QED
    BY <1>1, <2>1, ControlKeepsYield
<1>2. ASSUME NEW inISR, NEW S \in SUBSET Cores,
             UNCHANGED pxCurrentTCBs,
             prvYieldCore(c, inISR, S, pxCurrentTCBs, xTaskRunState, xYieldPendings)
      PROVE  YieldOK'
  <2>1. /\ AsksByInterrupt(pxCurrentTCBs, xTaskRunState)
        /\ \A x \in Cores \ {c} : xYieldPendings'[x] = xYieldPendings[x]
        /\ xYieldPendings[c] => xYieldPendings'[c]
    <3>1. OwnTasks(pxCurrentTCBs) /\ yieldIRQ \in [Cores -> BOOLEAN]
      BY DEF CoreOK, Matches, OwnTasks
    <3> QED
      BY <1>2, <3>1, YieldCoreAsks DEF CoreOK
  <2>2. OthersGoOn(c)
    BY <2>1 DEF OthersGoOn
  <2>3. WillYield(c)'
    BY <1>2 DEF WillYield, SuspendedRegion, Resuming
  <2> QED
    BY <1>2, <2>1, <2>2, <2>3, YieldKept DEF AsksByInterrupt
<1>3. ASSUME NEW inISR, NEW t, NEW preemptEqual, prvYieldForTask(c, inISR, t, preemptEqual)
      PROVE  YieldOK'
  <2>1. CoresYieldingFor(t, preemptEqual) \in SUBSET Cores
    BY DEF CoresYieldingFor
  <2> QED
    BY <1>2, <1>3, <2>1 DEF prvYieldForTask
<1> QED
  BY <1>1, <1>2, <1>3 DEF YieldCores

\* Only the application suspends the scheduler and delays.
IdleOutside == \A t \in IdleTasks : pc[t] \in {"run", "exit", "yield"}

\* The switch: what was asked of core c is done.
LEMMA SelectKeepsYield ==
  ASSUME IInv, YieldOK, NEW c \in Cores, prvSelectHighestPriorityTask(c),
         isr[c] = "switch", isr' = [isr EXCEPT ![c] = "none"], UNCHANGED pc,
         uxSchedulerSuspended = 0
  PROVE  YieldOK'
<1>1. PICK top \in Priorities, p \in Priorities : \E i \in 1 .. Len(pxReadyTasksLists[p]) :
        LET t == pxReadyTasksLists[p][i]
            cur == [pxCurrentTCBs EXCEPT ![c] = t]
            idleCores == IF OnePriority /\ top < uxTopReadyPriority
                         THEN {x \in Cores : xIsIdle(cur[x])} ELSE {}
        IN  /\ MayRun(c, top, p, i) /\ pxCurrentTCBs' = cur
            /\ prvYieldCore(c, FALSE, idleCores, cur, Dispatched(c, t),
                            [xYieldPendings EXCEPT ![c] = FALSE])
  BY DEF prvSelectHighestPriorityTask
<1>2. PICK i \in 1 .. Len(pxReadyTasksLists[p]) :
        LET t == pxReadyTasksLists[p][i]
            cur == [pxCurrentTCBs EXCEPT ![c] = t]
            idleCores == IF OnePriority /\ top < uxTopReadyPriority
                         THEN {x \in Cores : xIsIdle(cur[x])} ELSE {}
        IN  /\ MayRun(c, top, p, i) /\ pxCurrentTCBs' = cur
            /\ prvYieldCore(c, FALSE, idleCores, cur, Dispatched(c, t),
                            [xYieldPendings EXCEPT ![c] = FALSE])
  BY <1>1
<1> DEFINE t == pxReadyTasksLists[p][i]
           cur == [pxCurrentTCBs EXCEPT ![c] = t]
           idleCores == IF OnePriority /\ top < uxTopReadyPriority
                        THEN {x \in Cores : xIsIdle(cur[x])} ELSE {}
           st == Dispatched(c, t)
           pend == [xYieldPendings EXCEPT ![c] = FALSE]
<1>3. /\ pxCurrentTCBs' = cur
      /\ prvYieldCore(c, FALSE, idleCores, cur, st, pend)
  BY <1>2
<1>4. t \in Tasks /\ (xTaskRunState[t] = taskTASK_NOT_RUNNING \/ t = pxCurrentTCBs[c])
  BY <1>2, ElementOfSeq DEF IInv, ListOK, MayRun
<1>5. /\ cur \in [Cores -> Tasks] /\ pend \in [Cores -> BOOLEAN] /\ idleCores \in SUBSET Cores
      /\ cur[c] = t /\ ~pend[c] /\ yieldIRQ \in [Cores -> BOOLEAN]
      /\ \A x \in Cores \ {c} : cur[x] = pxCurrentTCBs[x] /\ pend[x] = xYieldPendings[x]
  BY <1>4 DEF IInv, CoreOK
<1>6. \A x \in Cores \ {c} : cur[x] # t /\ cur[x] # pxCurrentTCBs[c]
  BY <1>4, <1>5, CoreFacts DEF IInv, CoreOK, Matches
<1>7. OwnTasks(cur)
  BY <1>5, <1>6 DEF IInv, CoreOK, Matches, OwnTasks
<1>8. st[t] = c /\ \A x \in Cores \ {c} : st[cur[x]] = xTaskRunState[cur[x]]
  BY <1>4, <1>5, <1>6 DEF Dispatched, IInv, CoreOK
<1>9. c \in idleCores => OnePriority /\ xIsIdle(t)
  BY <1>5
<1> HIDE DEF cur, st, pend, idleCores
<1>10. /\ AsksByInterrupt(cur, st)
       /\ \A x \in Cores \ {c} : xYieldPendings'[x] = pend[x]
       /\ c \notin idleCores => xYieldPendings'[c] = pend[c]
  <2>1. /\ cur \in [Cores -> Tasks] /\ pend \in [Cores -> BOOLEAN]
        /\ idleCores \in SUBSET Cores /\ yieldIRQ \in [Cores -> BOOLEAN]
    BY <1>5
  <2>2. prvYieldCore(c, FALSE, idleCores, cur, st, pend)
    BY <1>3
  <2>3. PICK no, cur0, st0, pend0, S0 : no = FALSE /\ cur0 = cur /\ st0 = st /\ pend0 = pend /\ S0 = idleCores
    OBVIOUS
  <2>4. /\ cur0 \in [Cores -> Tasks] /\ pend0 \in [Cores -> BOOLEAN] /\ S0 \in SUBSET Cores
        /\ OwnTasks(cur0) /\ prvYieldCore(c, no, S0, cur0, st0, pend0)
    BY <1>7, <2>1, <2>2, <2>3
  <2>5. /\ AsksByInterrupt(cur0, st0)
        /\ \A x \in Cores \ {c} : xYieldPendings'[x] = pend0[x]
        /\ c \notin S0 => xYieldPendings'[c] = pend0[c]
    BY <2>1, <2>4, YieldCoreAsks
  <2> QED
    BY <2>3, <2>5
<1>11. ASSUME NEW x \in Cores \ {c}
       PROVE  /\ xTaskRunState'[pxCurrentTCBs'[x]] = taskTASK_YIELDING =>
                   yieldIRQ'[x] \/ isr'[x] = "switch" \/ xYieldPendings'[x]
              /\ xYieldPendings'[x] => WillYield(x)'
              /\ pc'[pxCurrentTCBs'[x]] = "susCheck" => ~xYieldPendings'[x]
  <2>1. /\ pxCurrentTCBs'[x] = pxCurrentTCBs[x] /\ xYieldPendings'[x] = xYieldPendings[x]
        /\ isr'[x] = isr[x]
    BY <1>3, <1>5, <1>10 DEF IInv, LockOK, ControlTypes
  <2>2. xYieldPendings[x] => WillYield(x)
    BY DEF YieldOK, YieldRequestIsKept, WillYield
  <2>3. xYieldPendings'[x] => WillYield(x)'
    BY <2>1, <2>2 DEF WillYield
  <2>4. xTaskRunState'[cur[x]] = taskTASK_YIELDING =>
          xTaskRunState[cur[x]] = taskTASK_YIELDING \/ yieldIRQ'[x]
    BY <1>8, <1>10 DEF AsksByInterrupt
  <2>5. yieldIRQ[x] => yieldIRQ'[x]
    BY <1>10 DEF AsksByInterrupt
  <2> QED
    BY <1>3, <1>5, <2>1, <2>3, <2>4, <2>5 DEF YieldOK, YieldRequestIsKept
<1>12. /\ xTaskRunState'[pxCurrentTCBs'[c]] = taskTASK_YIELDING => yieldIRQ'[c]
       /\ xYieldPendings'[c] => OnePriority /\ xIsIdle(pxCurrentTCBs'[c])
       /\ pc'[pxCurrentTCBs'[c]] # "susCheck"
  <2>1. xTaskRunState'[t] = taskTASK_YIELDING => yieldIRQ'[c]
    BY <1>5, <1>8, <1>10, CoreFacts DEF AsksByInterrupt
  <2>2. xYieldPendings'[c] => OnePriority /\ xIsIdle(t)
    BY <1>5, <1>9, <1>10
  <2>3. pc[t] # "susCheck"
    BY <1>4 DEF IInv, LockOK, SuspensionIsExclusive, SuspendedRegion
  <2> QED
    BY <1>3, <1>5, <2>1, <2>2, <2>3
<1>13. ASSUME NEW x \in Cores
       PROVE  /\ xTaskRunState'[pxCurrentTCBs'[x]] = taskTASK_YIELDING =>
                   yieldIRQ'[x] \/ isr'[x] = "switch" \/ xYieldPendings'[x]
              /\ xYieldPendings'[x] => WillYield(x)'
              /\ pc'[pxCurrentTCBs'[x]] = "susCheck" => ~xYieldPendings'[x]
  <2>1. CASE x = c
    BY <1>12, <2>1 DEF WillYield
  <2>2. CASE x # c
    BY <1>11, <2>2
  <2> QED
    BY <2>1, <2>2
<1> QED
  BY <1>13 DEF YieldOK, YieldRequestIsKept, WillYield

\* Only the task on core c moves.
LEMMA OneMoves ==
  ASSUME CoreOK, LockOK, NEW c \in Cores, NEW point, Goto(c, point)
  PROVE  /\ pc'[pxCurrentTCBs[c]] = point
         /\ \A x \in Cores \ {c} : pc'[pxCurrentTCBs[x]] = pc[pxCurrentTCBs[x]]
<1>1. pxCurrentTCBs \in [Cores -> Tasks] /\ pc \in [Tasks -> PCs]
  BY DEF CoreOK, LockOK, ControlTypes
<1>2. \A x \in Cores \ {c} : pxCurrentTCBs[x] # pxCurrentTCBs[c]
  BY DEF CoreOK, Matches
<1> QED
  BY <1>1, <1>2 DEF Goto

LEMMA OneHandler ==
  ASSUME LockOK, NEW c \in Cores, NEW h, isr' = [isr EXCEPT ![c] = h]
  PROVE  isr'[c] = h /\ \A x \in Cores \ {c} : isr'[x] = isr[x]
BY DEF LockOK, ControlTypes

\* A core that owes a yield does not start a call.
LEMMA NoYieldOwed ==
  ASSUME YieldOK, NEW c \in Cores, isr[c] = "none",
         pc[pxCurrentTCBs[c]] \in {"run", "reacquire", "yield"}, ~xIsIdle(pxCurrentTCBs[c])
  PROVE  ~xYieldPendings[c]
BY DEF YieldOK, YieldRequestIsKept, SuspendedRegion, Resuming

LEMMA CriticalKeepsYield ==
  ASSUME CoreOK, LockOK, YieldOK, NEW c \in Cores, vTaskEnterCritical(c), UNCHANGED isr,
         pc'[pxCurrentTCBs[c]] = AfterCritical(c),
         \A x \in Cores \ {c} : pc'[pxCurrentTCBs[x]] = pc[pxCurrentTCBs[x]],
         \/ \E inISR, S : S \in SUBSET Cores /\ YieldCores(c, inISR, S)
         \/ \E inISR, t, preemptEqual : prvYieldForTask(c, inISR, t, preemptEqual)
         \/ UNCHANGED coreVars
  PROVE  YieldOK'
<1>1. pc'[pxCurrentTCBs[c]] \in {"exit", "exitSuspended"}
  BY DEF AfterCritical
<1>2. isr[c] = "none" /\ isr' = isr
  BY DEF vTaskEnterCritical, At
<1> QED
  BY <1>1, <1>2, AskingKeepsYield

LEMMA YieldSchedulerStep ==
  ASSUME IInv, YieldOK, IdleOutside, NEW c \in Cores, SchedulerStep(c)
  PROVE  YieldOK'
<1>1. CoreOK /\ LockOK /\ pxCurrentTCBs[c] \in Tasks
  BY DEF IInv, CoreOK
<1>2. CASE vTaskExitCritical(c)
  <2>1. /\ UNCHANGED coreVars
        /\ pc'[pxCurrentTCBs[c]] \in {"run", "suspended", "yield"}
        /\ \A x \in Cores \ {c} : pc'[pxCurrentTCBs[x]] = pc[pxCurrentTCBs[x]]
    BY <1>1, <1>2, OneMoves DEF vTaskExitCritical, At
  <2>2. xYieldPendings[c] => isr'[c] = "switch"
    BY <1>1, <1>2, OneHandler DEF vTaskExitCritical, portYIELD
  <2>3. /\ \A x \in Cores \ {c} : isr'[x] = isr[x]
        /\ isr[c] = "none"
    BY <1>1, <1>2, OneHandler DEF vTaskExitCritical, portYIELD, At
  <2> QED
    BY <1>1, <2>1, <2>2, <2>3, ControlKeepsYield DEF WillYield
<1>3. CASE vTaskYieldWithinAPI(c)
  <2>1. /\ UNCHANGED coreVars /\ pc'[pxCurrentTCBs[c]] = "run"
        /\ \A x \in Cores \ {c} : pc'[pxCurrentTCBs[x]] = pc[pxCurrentTCBs[x]]
        /\ isr'[c] = "switch" /\ \A x \in Cores \ {c} : isr'[x] = isr[x]
    BY <1>1, <1>3, OneMoves, OneHandler DEF vTaskYieldWithinAPI, portYIELD
  <2> QED
    BY <1>1, <2>1, ControlKeepsYield DEF WillYield
<1>4. CASE YieldInterrupt(c)
  <2>1. /\ UNCHANGED <<pxCurrentTCBs, xTaskRunState, xYieldPendings, pc>>
        /\ yieldIRQ' = [yieldIRQ EXCEPT ![c] = FALSE]
        /\ isr'[c] = "switch" /\ \A x \in Cores \ {c} : isr'[x] = isr[x]
        /\ pc[pxCurrentTCBs[c]] # "susCheck"
    BY <1>1, <1>4, OneHandler DEF YieldInterrupt, InterruptsEnabled, portYIELD
  <2>2. OthersGoOn(c) /\ WillYield(c)'
    BY <2>1 DEF OthersGoOn, WillYield
  <2>3. \A x \in Cores \ {c} : yieldIRQ[x] => yieldIRQ'[x]
    BY <1>1, <2>1 DEF CoreOK
  <2> QED
    BY <2>1, <2>2, <2>3, YieldKept
<1>5. CASE vTaskSwitchContext(c)
  <2>1. isr[c] = "switch" /\ isr' = [isr EXCEPT ![c] = "none"] /\ UNCHANGED pc
    BY <1>5 DEF vTaskSwitchContext
  <2>2. CASE uxSchedulerSuspended = 0
    BY <1>5, <2>1, <2>2, SelectKeepsYield DEF vTaskSwitchContext
  <2>3. CASE uxSchedulerSuspended # 0
    <3>1. /\ xYieldPendings' = [xYieldPendings EXCEPT ![c] = TRUE]
          /\ UNCHANGED <<pxCurrentTCBs, xTaskRunState, yieldIRQ>>
      BY <1>5, <2>3 DEF vTaskSwitchContext
    <3>2. /\ isr'[c] = "none" /\ \A x \in Cores \ {c} : isr'[x] = isr[x]
          /\ xYieldPendings'[c] /\ \A x \in Cores \ {c} : xYieldPendings'[x] = xYieldPendings[x]
      BY <1>1, <2>1, <3>1, OneHandler DEF CoreOK
    <3>3. taskLock = c /\ pc[pxCurrentTCBs[c]] \in SuspendedRegion
      BY <1>1, <1>5, <2>3, CoreFacts
         DEF vTaskSwitchContext, LockOK, ControlTypes, SuspensionIsExclusive
    <3>4. pc[pxCurrentTCBs[c]] # "susCheck"
      BY <1>1, <2>1 DEF LockOK, LocksHeld
    <3>5. OthersGoOn(c) /\ WillYield(c)'
      BY <2>1, <3>1, <3>2, <3>3 DEF OthersGoOn, WillYield
    <3>6. /\ \A x \in Cores : YieldOK => 
               (xTaskRunState'[pxCurrentTCBs'[x]] = taskTASK_YIELDING =>
                 yieldIRQ'[x] \/ isr'[x] = "switch" \/ xYieldPendings'[x])
      BY <2>1, <3>1, <3>2 DEF YieldOK, YieldRequestIsKept
    <3>7. ASSUME NEW x \in Cores
          PROVE  /\ xYieldPendings'[x] => WillYield(x)'
                 /\ pc'[pxCurrentTCBs'[x]] = "susCheck" => ~xYieldPendings'[x]
      <4>1. CASE x = c
        BY <2>1, <3>1, <3>4, <3>5, <4>1
      <4>2. CASE x # c
        <5>1. xYieldPendings[x] => WillYield(x)
          BY DEF YieldOK, YieldRequestIsKept, WillYield
        <5>2. xYieldPendings'[x] => WillYield(x)'
          BY <2>1, <3>1, <3>2, <4>2, <5>1 DEF WillYield
        <5> QED
          BY <2>1, <3>1, <3>2, <4>2, <5>2 DEF YieldOK
      <4> QED
        BY <4>1, <4>2
    <3> QED
      BY <3>6, <3>7 DEF YieldOK, YieldRequestIsKept, WillYield
  <2> QED
    BY <2>2, <2>3
<1>6. CASE prvCheckForRunStateChange(c)
  <2>1. /\ UNCHANGED <<coreVars, isr>> /\ pc[pxCurrentTCBs[c]] = "susCheck"
        /\ pc'[pxCurrentTCBs[c]] \in {"reacquire", "suspended"}
        /\ \A x \in Cores \ {c} : pc'[pxCurrentTCBs[x]] = pc[pxCurrentTCBs[x]]
    BY <1>1, <1>6, OneMoves DEF prvCheckForRunStateChange, At
  <2>2. ~xYieldPendings[c]
    BY <2>1 DEF YieldOK
  <2> QED
    BY <1>1, <2>1, <2>2, ControlKeepsYield
<1>7. CASE Reacquire(c)
  <2>1. /\ UNCHANGED <<coreVars, isr>> /\ isr[c] = "none"
        /\ pc[pxCurrentTCBs[c]] = "reacquire"
        /\ \A x \in Cores \ {c} : pc'[pxCurrentTCBs[x]] = pc[pxCurrentTCBs[x]]
    BY <1>1, <1>7, OneMoves DEF Reacquire, At
  <2>2. ~xYieldPendings[c]
    BY <2>1, NoYieldOwed DEF IdleOutside, xIsIdle
  <2> QED
    BY <1>1, <2>1, <2>2, ControlKeepsYield
<1>8. CASE xTaskResumeAll(c) \/ ResumeAllDone(c)
  <2>1. /\ UNCHANGED <<coreVars, isr>>
        /\ pc'[pxCurrentTCBs[c]] \in {"resuming", "resumingDelay", "exit", "exitDelay"}
        /\ \A x \in Cores \ {c} : pc'[pxCurrentTCBs[x]] = pc[pxCurrentTCBs[x]]
    BY <1>1, <1>8, OneMoves DEF xTaskResumeAll, ResumeAllDone
  <2>2. WillYield(c)'
    BY <2>1 DEF WillYield, Resuming, coreVars
  <2> QED
    BY <1>1, <2>1, <2>2, ControlKeepsYield
<1>9. CASE PendTick(c)
  <2>1. UNCHANGED <<coreVars, pc, pxCurrentTCBs>> /\ isr[c] = "tick"
    BY <1>9 DEF PendTick, coreVars
  <2>2. PICK h \in ISRs : isr' = [isr EXCEPT ![c] = h]
    BY <1>9 DEF PendTick, EndOfInterrupt, ISRs
  <2>3. \A x \in Cores \ {c} : isr'[x] = isr[x]
    BY <1>1, <2>2, OneHandler
  <2>4. xYieldPendings[c] => WillYield(c)'
    BY <2>1 DEF YieldOK, YieldRequestIsKept, WillYield
  <2> QED
    BY <1>1, <2>1, <2>3, <2>4, ControlKeepsYield DEF YieldOK
<1>10. CASE SliceTime(c)
  <2> DEFINE S == {x \in Cores : \/ /\ configUSE_TIME_SLICING
                                    /\ Len(pxReadyTasksLists[uxPriority[pxCurrentTCBs[x]]]) > 1
                                 \/ xYieldPendings[x]}
  <2>1. UNCHANGED <<pc, pxCurrentTCBs>> /\ CountsTick(c) /\ S \ {c} \in SUBSET Cores
    BY <1>10 DEF SliceTime, YieldCores
  <2>2. xYieldPendings[c] => c \in S
    OBVIOUS
  <2>3. CASE InISR(c)
    <3>1. /\ prvYieldCore(c, TRUE, S \ {c}, pxCurrentTCBs, xTaskRunState, xYieldPendings)
          /\ EndOfInterrupt(c, c \in S)
      BY <1>10, <2>3 DEF SliceTime, YieldCores
    <3> HIDE DEF S
    <3>2. PICK yes, T : yes = TRUE /\ T = S \ {c}
      OBVIOUS
    <3>3. OwnTasks(pxCurrentTCBs) /\ yieldIRQ \in [Cores -> BOOLEAN]
      BY <1>1 DEF CoreOK, Matches, OwnTasks
    <3>4. /\ prvYieldCore(c, yes, T, pxCurrentTCBs, xTaskRunState, xYieldPendings)
          /\ T \in SUBSET Cores /\ c \notin T
      BY <2>1, <3>1, <3>2
    <3>5. /\ AsksByInterrupt(pxCurrentTCBs, xTaskRunState)
          /\ \A x \in Cores \ {c} : xYieldPendings'[x] = xYieldPendings[x]
          /\ xYieldPendings'[c] = xYieldPendings[c]
      BY <1>1, <3>3, <3>4, YieldCoreAsks DEF CoreOK
    <3>6. PICK h \in {"none", "switch"} : isr' = [isr EXCEPT ![c] = h] /\ (c \in S => h = "switch")
      BY <3>1 DEF EndOfInterrupt
    <3>7. isr'[c] = h /\ \A x \in Cores \ {c} : isr'[x] = isr[x]
      BY <1>1, <3>6, OneHandler
    <3>8. OthersGoOn(c)
      BY <2>1, <3>5, <3>7 DEF OthersGoOn
    <3>9. xYieldPendings'[c] => WillYield(c)'
      BY <2>2, <3>5, <3>6, <3>7 DEF WillYield
    <3>10. isr[c] = "ticking" /\ pc[pxCurrentTCBs[c]] # "susCheck"
      BY <1>1, <2>3 DEF InISR, LockOK, LocksHeld
    <3>11. yieldIRQ[c] => yieldIRQ'[c]
      BY <3>5 DEF AsksByInterrupt
    <3> QED
      BY <2>1, <3>5, <3>8, <3>9, <3>10, <3>11, YieldKept DEF AsksByInterrupt
  <2>4. CASE ~InISR(c)
    <3>1. /\ prvYieldCore(c, FALSE, S \ {c}, pxCurrentTCBs, xTaskRunState,
                          [xYieldPendings EXCEPT ![c] = @ \/ c \in S])
          /\ UNCHANGED isr
      BY <1>10, <2>4 DEF SliceTime
    <3> HIDE DEF S
    <3>2. PICK no, T, pend : /\ no = FALSE /\ T = S \ {c}
                             /\ pend = [xYieldPendings EXCEPT ![c] = @ \/ c \in S]
      OBVIOUS
    <3>3. OwnTasks(pxCurrentTCBs) /\ yieldIRQ \in [Cores -> BOOLEAN]
      BY <1>1 DEF CoreOK, Matches, OwnTasks
    <3>4. /\ prvYieldCore(c, no, T, pxCurrentTCBs, xTaskRunState, pend)
          /\ T \in SUBSET Cores
      BY <2>1, <3>1, <3>2
    <3>5. /\ pend \in [Cores -> BOOLEAN] /\ (xYieldPendings[c] => pend[c])
          /\ \A x \in Cores \ {c} : pend[x] = xYieldPendings[x]
      BY <1>1, <3>2 DEF CoreOK
    <3>6. /\ AsksByInterrupt(pxCurrentTCBs, xTaskRunState)
          /\ \A x \in Cores \ {c} : xYieldPendings'[x] = pend[x]
          /\ pend[c] => xYieldPendings'[c]
      BY <1>1, <3>3, <3>4, <3>5, YieldCoreAsks DEF CoreOK
    <3>7. OthersGoOn(c)
      BY <2>1, <3>1, <3>5, <3>6 DEF OthersGoOn
    <3>8. pc[pxCurrentTCBs[c]] \in Resuming
      BY <2>1, <2>4 DEF CountsTick, At
    <3>9. WillYield(c)' /\ pc'[pxCurrentTCBs[c]] # "susCheck"
      BY <2>1, <3>8 DEF WillYield, Resuming
    <3>10. yieldIRQ[c] \/ isr[c] = "switch" => yieldIRQ'[c] \/ isr'[c] = "switch"
      BY <3>1, <3>6 DEF AsksByInterrupt
    <3> QED
      BY <2>1, <3>5, <3>6, <3>7, <3>9, <3>10, YieldKept DEF AsksByInterrupt
  <2> QED
    BY <2>3, <2>4
<1> QED
  BY <1>2, <1>3, <1>4, <1>5, <1>6, <1>7, <1>8, <1>9, <1>10 DEF SchedulerStep

\* A task that is called on from core c, whose task then leaves its critical section.
LEMMA CallKeepsYield ==
  ASSUME IInv, YieldOK, NEW c \in Cores, NEW function, Calls(c, function),
         \/ \E inISR, S : S \in SUBSET Cores /\ YieldCores(c, inISR, S)
         \/ \E inISR, t, preemptEqual : prvYieldForTask(c, inISR, t, preemptEqual)
         \/ UNCHANGED coreVars
  PROVE  YieldOK'
<1>1. /\ vTaskEnterCritical(c) /\ UNCHANGED isr /\ Goto(c, AfterCritical(c))
      /\ CoreOK /\ LockOK
  BY DEF Calls, IInv
<1>2. /\ pc'[pxCurrentTCBs[c]] = AfterCritical(c)
      /\ \A x \in Cores \ {c} : pc'[pxCurrentTCBs[x]] = pc[pxCurrentTCBs[x]]
  <2>1. PICK point : point = AfterCritical(c)
    OBVIOUS
  <2> QED
    BY <1>1, <2>1, OneMoves
<1> QED
  BY <1>1, <1>2, CriticalKeepsYield

LEMMA YieldApplicationStep ==
  ASSUME IInv, PlaceOK, YieldOK, NEW c \in Cores, ApplicationStep(c)
  PROVE  YieldOK'
<1>1. CoreOK /\ LockOK /\ pxCurrentTCBs[c] \in Tasks
  BY DEF IInv, CoreOK
<1>2. CASE taskYIELD(c) \/ prvIdleTask(c)
  <2>1. UNCHANGED <<coreVars, pc, pxCurrentTCBs>> /\ isr' = [isr EXCEPT ![c] = "switch"]
    BY <1>2 DEF taskYIELD, prvIdleTask, portYIELD, coreVars
  <2>2. isr'[c] = "switch" /\ \A x \in Cores \ {c} : isr'[x] = isr[x]
    BY <1>1, <2>1, OneHandler
  <2> QED
    BY <1>1, <2>1, <2>2, ControlKeepsYield DEF WillYield, YieldOK
<1>3. CASE vTaskSuspendAll(c)
  <2>1. /\ UNCHANGED <<coreVars, isr>> /\ pc[pxCurrentTCBs[c]] = "run" /\ isr[c] = "none"
        /\ ~xIsIdle(pxCurrentTCBs[c])
        /\ \A x \in Cores \ {c} : pc'[pxCurrentTCBs[x]] = pc[pxCurrentTCBs[x]]
    BY <1>1, <1>3, OneMoves DEF vTaskSuspendAll, At, MayCall
  <2>2. ~xYieldPendings[c]
    BY <2>1, NoYieldOwed
  <2> QED
    BY <1>1, <2>1, <2>2, ControlKeepsYield
<1>4. CASE prvAddCurrentTaskToDelayedList(c)
  <2>1. /\ UNCHANGED <<coreVars, isr>> /\ pc'[pxCurrentTCBs[c]] = "delayed"
        /\ \A x \in Cores \ {c} : pc'[pxCurrentTCBs[x]] = pc[pxCurrentTCBs[x]]
    BY <1>1, <1>4, OneMoves DEF prvAddCurrentTaskToDelayedList
  <2>2. WillYield(c)'
    BY <2>1 DEF WillYield, SuspendedRegion, coreVars
  <2> QED
    BY <1>1, <2>1, <2>2, ControlKeepsYield
<1>5. CASE prvCheckTasksWaitingTermination(c)
  <2>1. /\ vTaskEnterCritical(c) /\ UNCHANGED <<isr, coreVars>> /\ Goto(c, AfterCritical(c))
    BY <1>5 DEF prvCheckTasksWaitingTermination
  <2>2. PICK point : point = AfterCritical(c)
    OBVIOUS
  <2>3. /\ pc'[pxCurrentTCBs[c]] = point
        /\ \A x \in Cores \ {c} : pc'[pxCurrentTCBs[x]] = pc[pxCurrentTCBs[x]]
    BY <1>1, <2>1, <2>2, OneMoves
  <2> QED
    BY <1>1, <2>1, <2>2, <2>3, CriticalKeepsYield
<1>6. ASSUME NEW t \in Tasks,
             vTaskSuspend(c, t) \/ vTaskResume(c, t) \/ vTaskDelete(c, t)
      PROVE  YieldOK'
  <2>1. PICK S, no : S = {xTaskRunState[t]} \cap Cores /\ no = FALSE /\ S \in SUBSET Cores
    OBVIOUS
  <2>2. CASE vTaskSuspend(c, t)
    <3>1. Calls(c, "vTaskSuspend") /\ YieldCores(c, no, S)
      BY <2>1, <2>2 DEF vTaskSuspend
    <3> QED
      BY <2>1, <3>1, CallKeepsYield
  <2>3. CASE vTaskDelete(c, t)
    <3>1. Calls(c, "vTaskDelete") /\ YieldCores(c, no, S)
      BY <2>1, <2>3 DEF vTaskDelete
    <3> QED
      BY <2>1, <3>1, CallKeepsYield
  <2>4. CASE vTaskResume(c, t)
    <3>1. PICK yes : yes = TRUE
      OBVIOUS
    <3>2. /\ Calls(c, "vTaskResume")
          /\ prvYieldForTask(c, no, t, yes) \/ UNCHANGED coreVars
      BY <2>1, <2>4, <3>1 DEF vTaskResume
    <3> QED
      BY <3>2, CallKeepsYield
  <2> QED
    BY <1>6, <2>2, <2>3, <2>4
<1>7. ASSUME NEW t \in Tasks, NEW p \in Priorities, vTaskPrioritySet(c, t, p) PROVE YieldOK'
  <2>1. PICK no, yes : no = FALSE /\ yes = TRUE
    OBVIOUS
  <2>2. PICK S : S = {xTaskRunState[t]}
    OBVIOUS
  <2>3. /\ Calls(c, "vTaskPrioritySet")
        /\ \/ IsRunning(t) /\ YieldCores(c, no, S)
           \/ prvYieldForTask(c, no, t, yes)
           \/ UNCHANGED coreVars
    BY <1>7, <2>1, <2>2 DEF vTaskPrioritySet
  <2>4. IsRunning(t) => S \in SUBSET Cores
    BY <2>2 DEF IsRunning
  <2> QED
    BY <2>3, <2>4, CallKeepsYield
<1>8. ASSUME NEW t \in Tasks, NEW p \in Priorities, prvAddNewTaskToReadyList(c, t, p)
      PROVE  YieldOK'
  <2>1. PICK no : no = FALSE
    OBVIOUS
  <2>2. /\ vTaskEnterCritical(c) /\ UNCHANGED isr /\ ~Allocated(t)
        /\ prvYieldForTask(c, no, t, no)
        /\ pc' = [pc EXCEPT ![t] = "run", ![pxCurrentTCBs[c]] = AfterCritical(c)]
    BY <1>8, <2>1 DEF prvAddNewTaskToReadyList
  <2>3. \A x \in Cores : pxCurrentTCBs[x] # t
    BY <2>2 DEF PlaceOK, FreedTaskIsOffCore
  <2>4. PICK point : point = AfterCritical(c)
    OBVIOUS
  <2>5. /\ pc'[pxCurrentTCBs[c]] = point
        /\ \A x \in Cores \ {c} : pc'[pxCurrentTCBs[x]] = pc[pxCurrentTCBs[x]]
    BY <1>1, <2>2, <2>3, <2>4 DEF CoreOK, Matches, LockOK, ControlTypes
  <2> QED
    BY <1>1, <2>2, <2>4, <2>5, CriticalKeepsYield
<1> QED
  BY <1>2, <1>3, <1>4, <1>5, <1>6, <1>7, <1>8 DEF ApplicationStep

LEMMA YieldStep == IInv /\ PlaceOK /\ IdleOutside /\ YieldOK /\ [Next]_vars => YieldOK'
<1> SUFFICES ASSUME IInv, PlaceOK, IdleOutside, YieldOK, [Next]_vars PROVE YieldOK'
  OBVIOUS
<1>1. CoreOK /\ LockOK
  BY DEF IInv
<1>2. ASSUME NEW c \in Cores, NEW t \in Tasks, UnblockTask(c, t) PROVE YieldOK'
  <2>1. PICK yes, inISR : yes = TRUE /\ inISR = InISR(c)
    OBVIOUS
  <2>2. prvYieldForTask(c, inISR, t, yes) /\ UNCHANGED <<isr, pc>> /\ CountsTick(c)
    BY <1>2, <2>1 DEF UnblockTask
  <2>3. UNCHANGED pxCurrentTCBs
    BY <2>2 DEF prvYieldForTask
  <2>4. /\ isr[c] = "ticking" \/ pc[pxCurrentTCBs[c]] \in Resuming
        /\ pc[pxCurrentTCBs[c]] # "susCheck"
    BY <1>1, <2>2 DEF CountsTick, InISR, At, LockOK, LocksHeld, Resuming
  <2> QED
    BY <1>1, <2>2, <2>3, <2>4, AskingKeepsYield DEF Resuming
<1>3. ASSUME NEW c \in Cores, TickInterrupt(c) PROVE YieldOK'
  <2>1. /\ UNCHANGED <<coreVars, pc, pxCurrentTCBs>> /\ isr' = [isr EXCEPT ![c] = "tick"]
        /\ isr[c] = "none"
    BY <1>3 DEF TickInterrupt, InterruptsEnabled, coreVars
  <2>2. isr'[c] = "tick" /\ \A x \in Cores \ {c} : isr'[x] = isr[x]
    BY <1>1, <2>1, OneHandler
  <2>3. xYieldPendings[c] => WillYield(c)'
    BY <2>1 DEF YieldOK, YieldRequestIsKept, WillYield
  <2> QED
    BY <1>1, <2>1, <2>2, <2>3, ControlKeepsYield DEF YieldOK
<1>4. ASSUME UNCHANGED vars PROVE YieldOK'
  BY <1>4 DEF vars, coreVars, YieldOK, YieldRequestIsKept
<1> QED
  BY <1>2, <1>3, <1>4, YieldSchedulerStep, YieldApplicationStep DEF Next

LEMMA YieldInit == Init => YieldOK /\ IdleOutside
<1> SUFFICES ASSUME Init PROVE YieldOK /\ IdleOutside
  OBVIOUS
<1>1. /\ pxCurrentTCBs = xIdleTaskHandle /\ \A c \in Cores : ~xYieldPendings[c]
      /\ pc = [t \in Tasks |-> IF xIsIdle(t) THEN "yield" ELSE "run"]
      /\ xTaskRunState = [t \in Tasks |-> IF xIsIdle(t)
                                          THEN CHOOSE c \in Cores : xIdleTaskHandle[c] = t
                                          ELSE taskTASK_NOT_RUNNING]
  BY DEF Init
<1>2. ASSUME NEW t \in IdleTasks
      PROVE  t \in Tasks /\ pc[t] = "yield" /\ xTaskRunState[t] \in Cores
  <2>1. t \in Tasks /\ xIsIdle(t)
    BY DEF Tasks, xIsIdle
  <2>2. \E c \in Cores : xIdleTaskHandle[c] = t
    BY DEF IdleTasks
  <2> QED
    BY <1>1, <2>1, <2>2
<1>3. \A c \in Cores : pxCurrentTCBs[c] \in IdleTasks
  BY <1>1 DEF IdleTasks
<1> QED
  BY <1>1, <1>2, <1>3, CoreFacts DEF YieldOK, YieldRequestIsKept, IdleOutside

\* Where the idle tasks stand.
LEMMA IdleStep == IInv /\ PlaceOK /\ IdleOutside /\ [Next]_vars => IdleOutside'
<1> SUFFICES ASSUME IInv, PlaceOK, IdleOutside, [Next]_vars, NEW u \in IdleTasks
             PROVE  pc'[u] \in {"run", "exit", "yield"}
  BY DEF IdleOutside
<1>1. /\ pc \in [Tasks -> PCs] /\ u \in Tasks /\ pc[u] \in {"run", "exit", "yield"}
      /\ \A c \in Cores : pxCurrentTCBs[c] \in Tasks
  BY DEF IInv, CoreOK, LockOK, ControlTypes, IdleOutside, Tasks
<1>2. ASSUME NEW c \in Cores, NEW point, Goto(c, point),
             pxCurrentTCBs[c] = u => point \in {"run", "exit", "yield"}
      PROVE  pc'[u] \in {"run", "exit", "yield"}
  BY <1>1, <1>2 DEF Goto
<1>3. ASSUME NEW c \in Cores, SchedulerStep(c) PROVE pc'[u] \in {"run", "exit", "yield"}
  <2>1. CASE vTaskExitCritical(c)
    <3>1. pxCurrentTCBs[c] = u => pc[pxCurrentTCBs[c]] = "exit"
      BY <1>1, <2>1 DEF vTaskExitCritical, At
    <3> QED
      BY <1>2, <2>1, <3>1 DEF vTaskExitCritical
  <2>2. CASE vTaskYieldWithinAPI(c)
    BY <1>2, <2>2 DEF vTaskYieldWithinAPI
  <2>3. CASE prvCheckForRunStateChange(c)
    BY <1>1, <1>2, <2>3 DEF prvCheckForRunStateChange, At
  <2>4. CASE Reacquire(c)
    BY <1>1, <1>2, <2>4 DEF Reacquire, At
  <2>5. CASE xTaskResumeAll(c)
    BY <1>1, <1>2, <2>5 DEF xTaskResumeAll, At
  <2>6. CASE ResumeAllDone(c)
    BY <1>1, <1>2, <2>6 DEF ResumeAllDone, At, Resuming
  <2>7. CASE YieldInterrupt(c) \/ vTaskSwitchContext(c) \/ PendTick(c) \/ SliceTime(c)
    BY <1>1, <2>7 DEF YieldInterrupt, vTaskSwitchContext, PendTick, SliceTime
  <2> QED
    BY <1>3, <2>1, <2>2, <2>3, <2>4, <2>5, <2>6, <2>7 DEF SchedulerStep
<1>4. ASSUME NEW c \in Cores, ApplicationStep(c) PROVE pc'[u] \in {"run", "exit", "yield"}
  <2>1. pxCurrentTCBs[c] = u => AfterCritical(c) = "exit" \/ ~vTaskEnterCritical(c)
    BY <1>1 DEF AfterCritical, vTaskEnterCritical, At
  <2>2. CASE taskYIELD(c) \/ prvIdleTask(c)
    BY <1>1, <2>2 DEF taskYIELD, prvIdleTask
  <2>3. CASE vTaskSuspendAll(c)
    BY <1>2, <2>3 DEF vTaskSuspendAll, MayCall, xIsIdle
  <2>4. CASE prvAddCurrentTaskToDelayedList(c)
    BY <1>2, <2>4 DEF prvAddCurrentTaskToDelayedList, MayCall, xIsIdle
  <2>5. CASE prvCheckTasksWaitingTermination(c)
    BY <1>2, <2>1, <2>5 DEF prvCheckTasksWaitingTermination
  <2>6. ASSUME NEW function, Calls(c, function) PROVE pc'[u] \in {"run", "exit", "yield"}
    BY <1>2, <2>1, <2>6 DEF Calls
  <2>7. ASSUME NEW t \in Tasks,
               \/ vTaskSuspend(c, t) \/ vTaskResume(c, t) \/ vTaskDelete(c, t)
               \/ \E p \in Priorities : vTaskPrioritySet(c, t, p)
        PROVE  pc'[u] \in {"run", "exit", "yield"}
    BY <2>6, <2>7 DEF vTaskSuspend, vTaskResume, vTaskDelete, vTaskPrioritySet
  <2>8. ASSUME NEW t \in Tasks, NEW p \in Priorities, prvAddNewTaskToReadyList(c, t, p)
        PROVE  pc'[u] \in {"run", "exit", "yield"}
    <3>1. /\ ~xIsIdle(pxCurrentTCBs[c])
          /\ pc' = [pc EXCEPT ![t] = "run", ![pxCurrentTCBs[c]] = AfterCritical(c)]
      BY <2>8 DEF prvAddNewTaskToReadyList, MayCall
    <3> QED
      BY <1>1, <3>1 DEF xIsIdle
  <2> QED
    BY <1>4, <2>2, <2>3, <2>4, <2>5, <2>7, <2>8 DEF ApplicationStep
<1>5. ASSUME \/ \E c \in Cores : TickInterrupt(c) \/ \E t \in Tasks : UnblockTask(c, t)
             \/ UNCHANGED vars
      PROVE  pc'[u] \in {"run", "exit", "yield"}
  BY <1>1, <1>5 DEF TickInterrupt, UnblockTask, vars
<1> QED
  BY <1>3, <1>4, <1>5 DEF Next

-----------------------------------------------------------------------------
(* Who runs: every step either leaves the cores that stay with their task    *)
(* alone, or makes one task ready and asks for it, or is a switch.           *)

\* Core c was asked for a yield, or owes one.
Asked(c) == xYieldPendings[c] \/ xTaskRunState[pxCurrentTCBs[c]] = taskTASK_YIELDING

\* Core c will switch without having been asked.
Due(c) == \/ isr[c] = "switch"
          \/ pc[pxCurrentTCBs[c]] \in {"delayed", "resumingDelay", "exitDelay", "yield"}

Stays(c) == ~Asked(c) /\ ~Due(c)

\* A core that stays with its task has a ready one.
StaysReady == \A c \in Cores : Stays(c) => Ready(pxCurrentTCBs[c])

\* No core that is to switch is forgotten.
Steady ==
  /\ UNCHANGED pxCurrentTCBs
  /\ \A x \in Cores : (Asked(x) => Asked(x)') /\ (Stays(x)' => Stays(x))

\* Nobody becomes ready or more urgent, and a core that is to stay stays as it is.
Quiet ==
  /\ Steady /\ UNCHANGED uxTopReadyPriority
  /\ \A u \in Tasks : Ready(u)' => Ready(u) /\ uxPriority'[u] <= uxPriority[u]
  /\ \A x \in Cores : \A t \in Tasks :
       pxCurrentTCBs[x] = t /\ Stays(x)' /\ Ready(t) =>
         Ready(t)' /\ uxPriority'[t] = uxPriority[t]

\* Task t becomes ready or more urgent, and prvYieldForTask asks for it.
Readied(t, preemptEqual) ==
  /\ Steady /\ t \in AppTasks /\ Ready(t)'
  /\ \A u \in Tasks : u # t => (Ready(u)' <=> Ready(u)) /\ uxPriority'[u] = uxPriority[u]
  /\ Ready(t) => uxPriority[t] <= uxPriority'[t]
  /\ uxTopReadyPriority' = IF uxPriority'[t] > uxTopReadyPriority
                           THEN uxPriority'[t] ELSE uxTopReadyPriority
  /\ \A x \in Cores : Asked(x)' <=> Asked(x) \/ x \in CoresYieldingFor(t, preemptEqual)

Switches(c) ==
  /\ prvSelectHighestPriorityTask(c)
  /\ isr' = [isr EXCEPT ![c] = "none"]
  /\ UNCHANGED <<pc, uxPriority>>

LEMMA AskedAfter ==
  ASSUME NEW me \in Cores, NEW inISR, NEW S \in SUBSET Cores, NEW cur \in [Cores -> Tasks],
         NEW st, NEW pend \in [Cores -> BOOLEAN], OwnTasks(cur), pxCurrentTCBs' = cur,
         prvYieldCore(me, inISR, S, cur, st, pend)
  PROVE  \A x \in Cores : Asked(x)' <=> pend[x] \/ st[cur[x]] = taskTASK_YIELDING \/ x \in S
<1> DEFINE asked == {x \in S : st[cur[x]] # taskTASK_YIELDING}
<1>1. /\ xYieldPendings' = [x \in Cores |->
                              pend[x] \/ (x = me /\ x \in S /\ (inISR \/ x \in asked))]
      /\ xTaskRunState' = [t \in Tasks |-> IF \E x \in asked \ {me} : cur[x] = t
                                           THEN taskTASK_YIELDING ELSE st[t]]
  BY Zenon DEF prvYieldCore
<1>2. \A x \in Cores : x \in asked <=> x \in S /\ st[cur[x]] # taskTASK_YIELDING
  OBVIOUS
<1>3. asked \in SUBSET Cores
  OBVIOUS
<1> HIDE DEF asked
<1> SUFFICES ASSUME NEW x \in Cores
             PROVE  Asked(x)' <=> pend[x] \/ st[cur[x]] = taskTASK_YIELDING \/ x \in S
  OBVIOUS
<1>4. cur[x] \in Tasks
  OBVIOUS
<1>5. (\E y \in asked \ {me} : cur[y] = cur[x]) <=> x \in asked \ {me}
  BY <1>3 DEF OwnTasks
<1>6. xTaskRunState'[cur[x]] = taskTASK_YIELDING <=>
        x \in asked \ {me} \/ st[cur[x]] = taskTASK_YIELDING
  BY <1>1, <1>4, <1>5
<1>7. /\ pend[x] => xYieldPendings'[x]
      /\ x = me /\ x \in asked => xYieldPendings'[x]
      /\ xYieldPendings'[x] => pend[x] \/ x \in S
  BY <1>1, <1>2
<1> QED
  BY <1>2, <1>6, <1>7 DEF Asked

\* The same for a step that changes no current task.
LEMMA AskedThen ==
  ASSUME CoreOK, NEW me \in Cores, NEW inISR, NEW S \in SUBSET Cores, UNCHANGED pxCurrentTCBs,
         NEW pend \in [Cores -> BOOLEAN], \A x \in Cores : xYieldPendings[x] => pend[x],
         prvYieldCore(me, inISR, S, pxCurrentTCBs, xTaskRunState, pend)
  PROVE  /\ \A x \in Cores : Asked(x) \/ x \in S => Asked(x)'
         /\ pend = xYieldPendings => \A x \in Cores : Asked(x)' => Asked(x) \/ x \in S
<1>1. PICK cur, st : cur = pxCurrentTCBs /\ st = xTaskRunState
  OBVIOUS
<1>2. /\ cur \in [Cores -> Tasks] /\ OwnTasks(cur) /\ pxCurrentTCBs' = cur
      /\ prvYieldCore(me, inISR, S, cur, st, pend)
  BY <1>1 DEF CoreOK, Matches, OwnTasks
<1>3. \A x \in Cores : Asked(x)' <=> pend[x] \/ st[cur[x]] = taskTASK_YIELDING \/ x \in S
  BY <1>2, AskedAfter
<1> QED
  BY <1>1, <1>3 DEF Asked

LEMMA AskedForCores ==
  ASSUME CoreOK, NEW me \in Cores, NEW inISR, NEW S \in SUBSET Cores, YieldCores(me, inISR, S)
  PROVE  \A x \in Cores : Asked(x)' <=> Asked(x) \/ x \in S
<1>1. PICK pend : pend = xYieldPendings
  OBVIOUS
<1>2. /\ pend \in [Cores -> BOOLEAN] /\ UNCHANGED pxCurrentTCBs
      /\ prvYieldCore(me, inISR, S, pxCurrentTCBs, xTaskRunState, pend)
  BY <1>1 DEF CoreOK, YieldCores
<1> QED
  BY <1>1, <1>2, AskedThen

LEMMA AskedForTask ==
  ASSUME CoreOK, NEW me \in Cores, NEW inISR, NEW t, NEW preemptEqual,
         prvYieldForTask(me, inISR, t, preemptEqual)
  PROVE  \A x \in Cores : Asked(x)' <=> Asked(x) \/ x \in CoresYieldingFor(t, preemptEqual)
<1>1. PICK S : S = CoresYieldingFor(t, preemptEqual)
  OBVIOUS
<1>2. S \in SUBSET Cores /\ YieldCores(me, inISR, S)
  BY <1>1 DEF CoresYieldingFor, prvYieldForTask, YieldCores
<1> QED
  BY <1>1, <1>2, AskedForCores

\* What keeps the cores that are to switch.
LEMMA SteadyIf ==
  ASSUME UNCHANGED pxCurrentTCBs,
         \A x \in Cores : /\ Asked(x) => Asked(x)'
                          /\ Due(x) => Due(x)' \/ Asked(x)'
  PROVE  Steady
BY DEF Steady, Stays

LEMMA SteadyStep ==
  ASSUME NEW c \in Cores, UNCHANGED pxCurrentTCBs, \A x \in Cores : Asked(x) => Asked(x)',
         \A x \in Cores \ {c} : /\ isr'[x] = isr[x]
                                /\ pc'[pxCurrentTCBs[x]] = pc[pxCurrentTCBs[x]],
         Due(c) => Due(c)' \/ Asked(c)'
  PROVE  Steady
<1>1. ASSUME NEW x \in Cores PROVE Due(x) => Due(x)' \/ Asked(x)'
  <2>1. CASE x = c
    BY <2>1
  <2>2. CASE x # c
    BY <2>2 DEF Due
  <2> QED
    BY <2>1, <2>2
<1> QED
  BY <1>1, SteadyIf

LEMMA SameAsked == UNCHANGED coreVars => \A x \in Cores : Asked(x)' <=> Asked(x)
BY DEF coreVars, Asked

\* A step that changes neither lists nor priorities.
LEMMA QuietIfSame ==
  ASSUME ListOK, Steady, UNCHANGED <<listVars, uxPriority>>
  PROVE  Quiet
<1>1. \A u \in Tasks : uxPriority[u] \in Nat
  BY PriorityFacts DEF ListOK
<1>2. \A u \in Tasks : (Ready(u)' <=> Ready(u)) /\ uxPriority'[u] <= uxPriority[u]
  BY <1>1 DEF Ready, listVars
<1> QED
  BY <1>2 DEF Quiet, listVars, Ready

\* A step that takes a task from the ready lists.
LEMMA QuietIfLeaves ==
  ASSUME CoreOK, ListOK, PlaceOK, UNCHANGED uxPriority, Steady, NEW t, NEW list, Moves(t, list),
         list # "ready", \A x \in Cores : pxCurrentTCBs[x] = t => ~Stays(x)'
  PROVE  Quiet
<1>1. t \in Tasks /\ list \in ListNames /\ MoveTo(t, list)
  BY PriorityFacts DEF Moves
<1>2. uxPriority' \in [Tasks -> Priorities] /\ \A u \in Tasks : uxPriority[u] \in Nat
  BY PriorityFacts DEF ListOK
<1>3. OthersStay(t) /\ ~Ready(t)'
  BY <1>1, <1>2, MoveToKeeps DEF PlaceOK
<1>4. \A u \in Tasks : u # t => (Ready(u)' <=> Ready(u))
  BY <1>3 DEF OthersStay, Ready
<1>5. \A u \in Tasks : Ready(u)' => Ready(u) /\ uxPriority'[u] <= uxPriority[u]
  BY <1>2, <1>3, <1>4
<1>6. UNCHANGED uxTopReadyPriority
  BY <1>1 DEF MoveTo
<1> QED
  BY <1>4, <1>5, <1>6 DEF Quiet, CoreOK

\* A step that puts a task on a ready list.
LEMMA ReadiedIfMoved ==
  ASSUME CoreOK, ListOK, PlaceOK, Steady, NEW t, NEW preemptEqual, Moves(t, "ready"),
         uxPriority' \in [Tasks -> Priorities], Ready(t) => uxPriority[t] <= uxPriority'[t],
         NEW me \in Cores, NEW inISR, prvYieldForTask(me, inISR, t, preemptEqual)
  PROVE  Readied(t, preemptEqual)
<1>1. t \in Tasks /\ MoveTo(t, "ready") /\ "ready" \in ListNames
  BY PriorityFacts DEF Moves
<1>2. OthersStay(t) /\ Ready(t)'
  BY <1>1, MoveToKeeps DEF PlaceOK, Moves
<1>3. \A u \in Tasks : u # t => (Ready(u)' <=> Ready(u)) /\ uxPriority'[u] = uxPriority[u]
  BY <1>2 DEF OthersStay, Ready, Moves
<1>4. uxTopReadyPriority' = IF uxPriority'[t] > uxTopReadyPriority
                            THEN uxPriority'[t] ELSE uxTopReadyPriority
  BY <1>1 DEF MoveTo
<1>5. \A x \in Cores : Asked(x)' <=> Asked(x) \/ x \in CoresYieldingFor(t, preemptEqual)
  BY AskedForTask
<1> QED
  BY <1>2, <1>3, <1>4, <1>5 DEF Readied, Moves

LEMMA SchedulerKinds ==
  ASSUME IInv, NEW c \in Cores, SchedulerStep(c)
  PROVE  Quiet \/ Switches(c)
<1>1. /\ CoreOK /\ ListOK /\ LockOK /\ pxCurrentTCBs[c] \in Tasks
      /\ isr \in [Cores -> ISRs] /\ pc \in [Tasks -> PCs]
  BY DEF IInv, CoreOK, LockOK, ControlTypes
<1>2. ASSUME UNCHANGED <<coreVars, listVars, uxPriority>>,
             \A x \in Cores \ {c} : /\ isr'[x] = isr[x]
                                    /\ pc'[pxCurrentTCBs[x]] = pc[pxCurrentTCBs[x]],
             Due(c) => Due(c)' \/ Asked(c)
      PROVE  Quiet
  <2>1. UNCHANGED pxCurrentTCBs
    BY <1>2 DEF coreVars
  <2>2. Steady
    BY <1>2, <2>1, SameAsked, SteadyStep
  <2> QED
    BY <1>1, <1>2, <2>2, QuietIfSame
<1>3. CASE vTaskExitCritical(c) \/ vTaskYieldWithinAPI(c)
  <2>1. /\ UNCHANGED <<coreVars, listVars, uxPriority, pxCurrentTCBs>>
        /\ isr' = isr \/ isr' = [isr EXCEPT ![c] = "switch"]
        /\ isr[c] = "none"
    BY <1>3 DEF vTaskExitCritical, vTaskYieldWithinAPI, portYIELD, At, coreVars
  <2>2. PICK point : Goto(c, point) /\ (pc[pxCurrentTCBs[c]] = "exitDelay" => point = "yield")
                     /\ (pc[pxCurrentTCBs[c]] = "yield" => isr'[c] = "switch")
                     /\ (pc[pxCurrentTCBs[c]] \in {"exit", "exitSuspended", "exitDelay", "yield"})
    <3>1. CASE vTaskExitCritical(c)
      BY <3>1 DEF vTaskExitCritical, At
    <3>2. CASE vTaskYieldWithinAPI(c)
      <4>1. isr'[c] = "switch"
        BY <1>1, <3>2, OneHandler DEF vTaskYieldWithinAPI, portYIELD
      <4> QED
        BY <3>2, <4>1 DEF vTaskYieldWithinAPI, At
    <3> QED
      BY <1>3, <3>1, <3>2
  <2>3. /\ pc'[pxCurrentTCBs[c]] = point
        /\ \A x \in Cores \ {c} : pc'[pxCurrentTCBs[x]] = pc[pxCurrentTCBs[x]]
    BY <1>1, <2>2, OneMoves
  <2>4. \A x \in Cores \ {c} : isr'[x] = isr[x]
    BY <1>1, <2>1
  <2> QED
    BY <1>2, <2>1, <2>2, <2>3, <2>4 DEF Due
<1>4. CASE YieldInterrupt(c)
  <2>1. /\ UNCHANGED <<pxCurrentTCBs, xTaskRunState, xYieldPendings, listVars, uxPriority, pc>>
        /\ isr'[c] = "switch" /\ \A x \in Cores \ {c} : isr'[x] = isr[x]
    BY <1>1, <1>4, OneHandler DEF YieldInterrupt, portYIELD
  <2>2. Steady
    BY <2>1, SteadyStep DEF Asked, Due
  <2> QED
    BY <1>1, <2>1, <2>2, QuietIfSame
<1>5. CASE vTaskSwitchContext(c)
  <2>1. CASE uxSchedulerSuspended = 0
    BY <1>5, <2>1 DEF vTaskSwitchContext, Switches
  <2>2. CASE uxSchedulerSuspended # 0
    <3>1. /\ xYieldPendings' = [xYieldPendings EXCEPT ![c] = TRUE]
          /\ UNCHANGED <<pxCurrentTCBs, xTaskRunState, listVars, uxPriority, pc>>
          /\ isr' = [isr EXCEPT ![c] = "none"]
      BY <1>5, <2>2 DEF vTaskSwitchContext, listVars
    <3>2. /\ xYieldPendings'[c]
          /\ \A x \in Cores : xYieldPendings[x] => xYieldPendings'[x]
          /\ \A x \in Cores \ {c} : isr'[x] = isr[x]
      BY <1>1, <3>1, OneHandler DEF CoreOK
    <3>3. Steady
      BY <3>1, <3>2, SteadyStep DEF Asked
    <3> QED
      BY <1>1, <3>1, <3>3, QuietIfSame
  <2> QED
    BY <2>1, <2>2
<1>6. CASE prvCheckForRunStateChange(c) \/ Reacquire(c)
  <2>1. /\ UNCHANGED <<coreVars, listVars, uxPriority, isr>>
        /\ isr[c] = "none" /\ pc[pxCurrentTCBs[c]] \in {"susCheck", "reacquire"}
        /\ \A x \in Cores \ {c} : pc'[pxCurrentTCBs[x]] = pc[pxCurrentTCBs[x]]
    BY <1>1, <1>6, OneMoves DEF prvCheckForRunStateChange, Reacquire, At
  <2> QED
    BY <1>2, <2>1 DEF Due
<1>7. CASE xTaskResumeAll(c)
  <2>1. PICK point : /\ Goto(c, point) /\ (pc[pxCurrentTCBs[c]] = "delayed" => point = "resumingDelay")
                     /\ pc[pxCurrentTCBs[c]] \in {"delayed", "suspended"}
                     /\ isr[c] = "none" /\ UNCHANGED <<coreVars, listVars, uxPriority, isr>>
    BY <1>7 DEF xTaskResumeAll, At
  <2>2. /\ pc'[pxCurrentTCBs[c]] = point
        /\ \A x \in Cores \ {c} : pc'[pxCurrentTCBs[x]] = pc[pxCurrentTCBs[x]]
    BY <1>1, <2>1, OneMoves
  <2> QED
    BY <1>2, <2>1, <2>2 DEF Due, coreVars
<1>8. CASE ResumeAllDone(c)
  <2>1. PICK point : /\ Goto(c, point) /\ pc[pxCurrentTCBs[c]] \in {"resuming", "resumingDelay"}
                     /\ (pc[pxCurrentTCBs[c]] = "resumingDelay" =>
                           point = "exitDelay" \/ xYieldPendings[c])
                     /\ isr[c] = "none" /\ UNCHANGED <<coreVars, listVars, uxPriority, isr>>
    BY <1>8 DEF ResumeAllDone, At, Resuming
  <2>2. /\ pc'[pxCurrentTCBs[c]] = point
        /\ \A x \in Cores \ {c} : pc'[pxCurrentTCBs[x]] = pc[pxCurrentTCBs[x]]
    BY <1>1, <2>1, OneMoves
  <2> QED
    BY <1>2, <2>1, <2>2 DEF Due, Asked, coreVars
<1>9. CASE PendTick(c)
  <2>1. UNCHANGED <<coreVars, listVars, uxPriority, pc>> /\ isr[c] = "tick"
    BY <1>9 DEF PendTick
  <2>2. PICK h \in ISRs : isr' = [isr EXCEPT ![c] = h]
    BY <1>9 DEF PendTick, EndOfInterrupt, ISRs
  <2>3. \A x \in Cores \ {c} : isr'[x] = isr[x]
    BY <1>1, <2>2, OneHandler
  <2> QED
    BY <1>2, <2>1, <2>3 DEF Due, coreVars
<1>10. CASE SliceTime(c)
  <2> DEFINE S == {x \in Cores : \/ /\ configUSE_TIME_SLICING
                                    /\ Len(pxReadyTasksLists[uxPriority[pxCurrentTCBs[x]]]) > 1
                                 \/ xYieldPendings[x]}
  <2>1. /\ UNCHANGED <<pc, pxCurrentTCBs, listVars, uxPriority>> /\ CountsTick(c)
        /\ S \ {c} \in SUBSET Cores
    BY <1>10 DEF SliceTime, YieldCores
  <2>2. isr[c] # "switch"
    BY <2>1 DEF CountsTick, InISR, At
  <2>3. \A x \in Cores \ {c} : isr'[x] = isr[x]
    BY <1>1, <1>10 DEF SliceTime, EndOfInterrupt
  <2>4. \A x \in Cores : Asked(x) => Asked(x)'
    <3>1. CASE InISR(c)
      <4>1. YieldCores(c, TRUE, S \ {c})
        BY <1>10, <3>1 DEF SliceTime
      <4> HIDE DEF S
      <4>2. PICK yes, T : yes = TRUE /\ T = S \ {c} /\ T \in SUBSET Cores
        BY <2>1
      <4> QED
        BY <1>1, <4>1, <4>2, AskedForCores
    <3>2. CASE ~InISR(c)
      <4>1. prvYieldCore(c, FALSE, S \ {c}, pxCurrentTCBs, xTaskRunState,
                         [xYieldPendings EXCEPT ![c] = @ \/ c \in S])
        BY <1>10, <3>2 DEF SliceTime
      <4> HIDE DEF S
      <4>2. PICK no, T, pend : /\ no = FALSE /\ T = S \ {c} /\ T \in SUBSET Cores
                               /\ pend = [xYieldPendings EXCEPT ![c] = @ \/ c \in S]
        BY <2>1
      <4>3. /\ pend \in [Cores -> BOOLEAN] /\ \A x \in Cores : xYieldPendings[x] => pend[x]
            /\ prvYieldCore(c, no, T, pxCurrentTCBs, xTaskRunState, pend)
        BY <1>1, <4>1, <4>2 DEF CoreOK
      <4> QED
        BY <1>1, <2>1, <4>2, <4>3, AskedThen
    <3> QED
      BY <3>1, <3>2
  <2>5. Steady
    BY <2>1, <2>2, <2>3, <2>4, SteadyStep DEF Due
  <2> QED
    BY <1>1, <2>1, <2>5, QuietIfSame
<1> QED
  BY <1>3, <1>4, <1>5, <1>6, <1>7, <1>8, <1>9, <1>10 DEF SchedulerStep

LEMMA CriticalSteady ==
  ASSUME NEW c \in Cores, vTaskEnterCritical(c), UNCHANGED <<pxCurrentTCBs, isr>>,
         \A x \in Cores : Asked(x) => Asked(x)',
         \A x \in Cores \ {c} : pc'[pxCurrentTCBs[x]] = pc[pxCurrentTCBs[x]]
  PROVE  Steady
<1>1. ~Due(c)
  BY DEF vTaskEnterCritical, At, Due
<1> QED
  BY <1>1, SteadyStep

LEMMA CallSteady ==
  ASSUME CoreOK, LockOK, NEW c \in Cores, NEW function, Calls(c, function),
         UNCHANGED pxCurrentTCBs, \A x \in Cores : Asked(x) => Asked(x)'
  PROVE  Steady
<1>1. PICK point : point = AfterCritical(c)
  OBVIOUS
<1>2. vTaskEnterCritical(c) /\ UNCHANGED isr /\ Goto(c, point)
  BY <1>1 DEF Calls
<1> QED
  BY <1>2, OneMoves, CriticalSteady

\* A task that is not running has no core, one that is has been asked.
LEMMA StoppedIsAsked ==
  ASSUME CoreOK, NEW t \in Tasks, NEW S, S = {xTaskRunState[t]} \cap Cores,
         \A x \in Cores : Asked(x) \/ x \in S => Asked(x)'
  PROVE  \A x \in Cores : pxCurrentTCBs[x] = t => Asked(x)'
<1> SUFFICES ASSUME NEW x \in Cores, pxCurrentTCBs[x] = t PROVE Asked(x)'
  OBVIOUS
<1>1. xTaskRunState[t] = x \/ xTaskRunState[t] = taskTASK_YIELDING
  BY DEF CoreOK, Matches
<1> QED
  BY <1>1 DEF Asked

LEMMA ApplicationKinds ==
  ASSUME IInv, PlaceOK, NEW c \in Cores, ApplicationStep(c)
  PROVE  Quiet \/ \E t, preemptEqual : Readied(t, preemptEqual)
<1>1. /\ CoreOK /\ ListOK /\ LockOK /\ pxCurrentTCBs[c] \in Tasks
      /\ isr \in [Cores -> ISRs] /\ pc \in [Tasks -> PCs]
  BY DEF IInv, CoreOK, LockOK, ControlTypes
<1>2. CASE taskYIELD(c) \/ prvIdleTask(c)
  <2>1. /\ UNCHANGED <<coreVars, listVars, uxPriority, pc, pxCurrentTCBs>>
        /\ isr' = [isr EXCEPT ![c] = "switch"]
    BY <1>2 DEF taskYIELD, prvIdleTask, portYIELD, coreVars
  <2>2. isr'[c] = "switch" /\ \A x \in Cores \ {c} : isr'[x] = isr[x]
    BY <1>1, <2>1, OneHandler
  <2>3. Steady
    BY <2>1, <2>2, SameAsked, SteadyStep DEF Due
  <2> QED
    BY <1>1, <2>1, <2>3, QuietIfSame
<1>3. CASE vTaskSuspendAll(c)
  <2>1. /\ UNCHANGED <<coreVars, listVars, uxPriority, isr, pxCurrentTCBs>>
        /\ isr[c] = "none" /\ pc[pxCurrentTCBs[c]] = "run"
        /\ \A x \in Cores \ {c} : pc'[pxCurrentTCBs[x]] = pc[pxCurrentTCBs[x]]
    BY <1>1, <1>3, OneMoves DEF vTaskSuspendAll, At, coreVars
  <2>2. Steady
    BY <2>1, SameAsked, SteadyStep DEF Due
  <2> QED
    BY <1>1, <2>1, <2>2, QuietIfSame
<1>4. CASE prvAddCurrentTaskToDelayedList(c)
  <2> DEFINE t == pxCurrentTCBs[c]
  <2>1. /\ UNCHANGED <<coreVars, uxPriority, isr, pxCurrentTCBs>> /\ isr[c] = "none"
        /\ pc'[pxCurrentTCBs[c]] = "delayed" /\ pc[pxCurrentTCBs[c]] = "suspended"
        /\ \A x \in Cores \ {c} : pc'[pxCurrentTCBs[x]] = pc[pxCurrentTCBs[x]]
        /\ MoveTo(t, "delayed") /\ t \in AppTasks
    BY <1>1, <1>4, OneMoves, PriorityFacts
       DEF prvAddCurrentTaskToDelayedList, At, MayCall, coreVars
  <2>2. Steady
    BY <2>1, SameAsked, SteadyStep DEF Due
  <2>3. PICK list : list = "delayed"
    OBVIOUS
  <2>4. Moves(t, list) /\ list # "ready"
    BY <2>1, <2>3 DEF Moves, ListNames
  <2>5. \A x \in Cores : pxCurrentTCBs[x] = t => ~Stays(x)'
    BY <1>1, <2>1 DEF CoreOK, Matches, Stays, Due
  <2>6. PICK u : u = t
    OBVIOUS
  <2> HIDE DEF t
  <2> QED
    BY <1>1, <2>1, <2>2, <2>4, <2>5, <2>6, QuietIfLeaves
<1>5. CASE prvCheckTasksWaitingTermination(c)
  <2>1. /\ vTaskEnterCritical(c) /\ UNCHANGED <<isr, coreVars, uxPriority, pxCurrentTCBs>>
        /\ Goto(c, AfterCritical(c)) /\ xTasksWaitingTermination # <<>>
    BY <1>5 DEF prvCheckTasksWaitingTermination, coreVars
  <2>2. PICK point : point = AfterCritical(c)
    OBVIOUS
  <2>3. \A x \in Cores \ {c} : pc'[pxCurrentTCBs[x]] = pc[pxCurrentTCBs[x]]
    BY <1>1, <2>1, <2>2, OneMoves
  <2>4. Steady
    BY <2>1, <2>3, SameAsked, CriticalSteady
  <2>5. PICK t : t = Head(xTasksWaitingTermination)
    OBVIOUS
  <2>6. CASE xTaskRunState[t] = taskTASK_NOT_RUNNING
    <3>1. t \in Tasks /\ t \in AppTasks
      <4>1. xTasksWaitingTermination \in Seq(Tasks)
        BY <1>1 DEF ListOK
      <4>2. t \in Tasks /\ InList(xTasksWaitingTermination, t)
        BY <2>1, <2>5, <4>1 DEF InList
      <4> QED
        BY <4>2 DEF PlaceOK, IdleTasksReady
    <3>2. PICK list : list = "none"
      OBVIOUS
    <3>3. Moves(t, list) /\ list # "ready"
      BY <1>5, <2>1, <2>5, <2>6, <3>1, <3>2 DEF prvCheckTasksWaitingTermination, Moves, ListNames
    <3>4. \A x \in Cores : pxCurrentTCBs[x] # t
      BY <1>1, <2>6, <3>1, NotRunning
    <3> QED
      BY <1>1, <2>1, <2>4, <3>3, <3>4, QuietIfLeaves
  <2>7. CASE xTaskRunState[t] # taskTASK_NOT_RUNNING
    <3>1. UNCHANGED listVars
      BY <1>5, <2>5, <2>7 DEF prvCheckTasksWaitingTermination
    <3> QED
      BY <1>1, <2>1, <2>4, <3>1, QuietIfSame
  <2> QED
    BY <2>6, <2>7
<1>6. ASSUME NEW t \in Tasks, vTaskSuspend(c, t) \/ vTaskDelete(c, t) PROVE Quiet
  <2>1. PICK S, no : S = {xTaskRunState[t]} \cap Cores /\ no = FALSE /\ S \in SUBSET Cores
    OBVIOUS
  <2>2. PICK function, list :
          /\ Calls(c, function) /\ YieldCores(c, no, S) /\ UNCHANGED uxPriority
          /\ t \in AppTasks /\ MoveTo(t, list) /\ list \in {"suspended", "none", "termination"}
          /\ list = "none" => xTaskRunState[t] = taskTASK_NOT_RUNNING
    <3>1. CASE vTaskSuspend(c, t)
      <4>1. /\ Calls(c, "vTaskSuspend") /\ YieldCores(c, no, S) /\ UNCHANGED uxPriority
            /\ t \in AppTasks /\ MoveTo(t, "suspended")
        BY <2>1, <3>1 DEF vTaskSuspend, MayStop
      <4> QED
        BY <4>1
    <3>2. CASE vTaskDelete(c, t)
      <4>1. PICK list : list = IF xTaskRunState[t] = taskTASK_NOT_RUNNING
                               THEN "none" ELSE "termination"
        OBVIOUS
      <4>2. /\ Calls(c, "vTaskDelete") /\ YieldCores(c, no, S) /\ UNCHANGED uxPriority
            /\ t \in AppTasks /\ MoveTo(t, list)
        BY <2>1, <3>2, <4>1 DEF vTaskDelete, MayStop
      <4> QED
        BY <4>1, <4>2
    <3> QED
      BY <1>6, <3>1, <3>2
  <2>3. \A x \in Cores : Asked(x) \/ x \in S => Asked(x)'
    BY <1>1, <2>1, <2>2, AskedForCores
  <2>4. UNCHANGED pxCurrentTCBs
    BY <2>2 DEF YieldCores
  <2>5. Steady
    BY <1>1, <2>2, <2>3, <2>4, CallSteady
  <2>6. \A x \in Cores : pxCurrentTCBs[x] = t => ~Stays(x)'
    BY <1>1, <2>1, <2>3, StoppedIsAsked DEF Stays
  <2>7. Moves(t, list) /\ list # "ready"
    BY <2>2, <2>4 DEF Moves, ListNames
  <2> QED
    BY <1>1, <2>2, <2>5, <2>6, <2>7, QuietIfLeaves
<1>7. ASSUME NEW t \in Tasks, vTaskResume(c, t)
      PROVE  Quiet \/ \E preemptEqual : Readied(t, preemptEqual)
  <2>1. PICK no, yes, list : no = FALSE /\ yes = TRUE /\ list = "ready"
    OBVIOUS
  <2>2. Calls(c, "vTaskResume") /\ UNCHANGED uxPriority /\ t \in AppTasks
    BY <1>7 DEF vTaskResume
  <2>3. CASE t \in xSuspendedTaskList
    <3>1. MoveTo(t, "ready") /\ prvYieldForTask(c, no, t, yes) /\ UNCHANGED pxCurrentTCBs
      BY <1>7, <2>1, <2>3 DEF vTaskResume, prvYieldForTask
    <3>2. \A x \in Cores : Asked(x) => Asked(x)'
      BY <1>1, <3>1, AskedForTask
    <3>3. Steady
      BY <1>1, <2>2, <3>1, <3>2, CallSteady
    <3>4. Moves(t, "ready")
      BY <2>2, <3>1 DEF Moves, ListNames
    <3>5. uxPriority' \in [Tasks -> Priorities] /\ uxPriority[t] <= uxPriority'[t]
      BY <1>1, <2>2, PriorityFacts DEF ListOK
    <3> QED
      BY <1>1, <3>1, <3>3, <3>4, <3>5, ReadiedIfMoved
  <2>4. CASE t \notin xSuspendedTaskList
    <3>1. UNCHANGED <<coreVars, listVars, pxCurrentTCBs>>
      BY <1>7, <2>4 DEF vTaskResume, coreVars
    <3>2. Steady
      BY <1>1, <2>2, <3>1, SameAsked, CallSteady
    <3> QED
      BY <1>1, <2>2, <3>1, <3>2, QuietIfSame
  <2> QED
    BY <2>3, <2>4
<1>8. ASSUME NEW t \in Tasks, NEW p \in Priorities, prvAddNewTaskToReadyList(c, t, p)
      PROVE  \E preemptEqual : Readied(t, preemptEqual)
  <2>1. PICK no : no = FALSE
    OBVIOUS
  <2>2. /\ vTaskEnterCritical(c) /\ UNCHANGED isr /\ ~Allocated(t) /\ t \in AppTasks
        /\ prvYieldForTask(c, no, t, no) /\ MoveTo(t, "ready")
        /\ uxPriority' = [uxPriority EXCEPT ![t] = p]
        /\ pc' = [pc EXCEPT ![t] = "run", ![pxCurrentTCBs[c]] = AfterCritical(c)]
    BY <1>8, <2>1 DEF prvAddNewTaskToReadyList
  <2>3. \A x \in Cores : pxCurrentTCBs[x] # t
    BY <2>2 DEF PlaceOK, FreedTaskIsOffCore
  <2>4. UNCHANGED pxCurrentTCBs /\ \A x \in Cores : Asked(x) => Asked(x)'
    BY <1>1, <2>2, AskedForTask DEF prvYieldForTask
  <2>5. \A x \in Cores \ {c} : pc'[pxCurrentTCBs[x]] = pc[pxCurrentTCBs[x]]
    BY <1>1, <2>2, <2>3 DEF CoreOK, Matches
  <2>6. Steady
    BY <2>2, <2>4, <2>5, CriticalSteady
  <2>7. Moves(t, "ready") /\ uxPriority' \in [Tasks -> Priorities]
    BY <1>1, <2>2, <2>4 DEF Moves, ListNames, ListOK
  <2>8. ~Ready(t)
    BY <2>2 DEF Allocated
  <2> QED
    BY <1>1, <2>2, <2>6, <2>7, <2>8, ReadiedIfMoved
<1>9. ASSUME NEW t \in Tasks, NEW p \in Priorities, vTaskPrioritySet(c, t, p)
      PROVE  Quiet \/ \E preemptEqual : Readied(t, preemptEqual)
  <2>1. PICK no, yes, S : no = FALSE /\ yes = TRUE /\ S = {xTaskRunState[t]}
    OBVIOUS
  <2>2. /\ Calls(c, "vTaskPrioritySet") /\ t \in AppTasks
        /\ uxPriority' = [uxPriority EXCEPT ![t] = p]
        /\ \A u \in Tasks : uxPriority'[u] = IF u = t THEN p ELSE uxPriority[u]
        /\ uxPriority' \in [Tasks -> Priorities]
    BY <1>1, <1>9 DEF vTaskPrioritySet, ListOK
  <2>3. p \in Nat /\ uxPriority[t] \in Nat /\ \A u \in Tasks : uxPriority[u] \in Nat
    BY <1>1, PriorityFacts DEF ListOK
  <2>4. CASE p > uxPriority[t] /\ Ready(t)
    <3>0. p # uxPriority[t] /\ ~(p < uxPriority[t])
      BY <2>3, <2>4
    <3>1. MoveTo(t, "ready") /\ prvYieldForTask(c, no, t, yes) /\ UNCHANGED pxCurrentTCBs
      BY Zenon, <1>9, <2>1, <2>4, <3>0 DEF vTaskPrioritySet, prvYieldForTask
    <3>2. \A x \in Cores : Asked(x) => Asked(x)'
      BY <1>1, <3>1, AskedForTask
    <3>3. Steady
      BY <1>1, <2>2, <3>1, <3>2, CallSteady
    <3>4. Moves(t, "ready") /\ uxPriority[t] <= uxPriority'[t]
      BY <2>2, <2>3, <2>4, <3>1 DEF Moves, ListNames
    <3> QED
      BY <1>1, <2>2, <3>1, <3>3, <3>4, ReadiedIfMoved
  <2>5. CASE ~(p > uxPriority[t] /\ Ready(t))
    <3>1. /\ \/ p < uxPriority[t] /\ IsRunning(t) /\ YieldCores(c, no, S)
             \/ ~(p < uxPriority[t] /\ IsRunning(t)) /\ UNCHANGED coreVars
          /\ UNCHANGED pxCurrentTCBs
      BY <1>9, <2>1, <2>3, <2>5 DEF vTaskPrioritySet, YieldCores, coreVars
    <3>2. /\ \A x \in Cores : Asked(x) => Asked(x)'
          /\ p < uxPriority[t] => \A x \in Cores : pxCurrentTCBs[x] = t => Asked(x)'
      <4>1. CASE p < uxPriority[t] /\ IsRunning(t) /\ YieldCores(c, no, S)
        <5>1. S \in SUBSET Cores /\ S = {xTaskRunState[t]} \cap Cores
          BY <2>1, <4>1 DEF IsRunning
        <5>2. \A x \in Cores : Asked(x) \/ x \in S => Asked(x)'
          BY <1>1, <4>1, <5>1, AskedForCores
        <5> QED
          BY <1>1, <5>1, <5>2, StoppedIsAsked
      <4>2. CASE ~(p < uxPriority[t] /\ IsRunning(t)) /\ UNCHANGED coreVars
        <5>1. \A x \in Cores : Asked(x)' <=> Asked(x)
          BY <4>2, SameAsked
        <5>2. ~IsRunning(t) => \A x \in Cores : pxCurrentTCBs[x] = t => Asked(x)
          BY <1>1 DEF CoreOK, Matches, IsRunning, Asked
        <5> QED
          BY <4>2, <5>1, <5>2
      <4> QED
        BY <3>1, <4>1, <4>2
    <3>3. Steady
      BY <1>1, <2>2, <3>1, <3>2, CallSteady
    <3>4. UNCHANGED uxTopReadyPriority /\ \A u \in Tasks : Ready(u)' <=> Ready(u)
      <4>1. CASE p # uxPriority[t] /\ Ready(t)
        <5>1. MoveTo(t, "ready") /\ "ready" \in ListNames
          BY <1>9, <4>1 DEF vTaskPrioritySet, ListNames
        <5>2. OthersStay(t) /\ Ready(t)'
          BY <1>1, <2>2, <5>1, MoveToKeeps DEF PlaceOK
        <5>3. p < uxPriority[t] /\ uxPriority[t] <= uxTopReadyPriority
          BY <2>3, <2>5, <4>1 DEF PlaceOK, Filed, Ready
        <5>4. uxTopReadyPriority \in Nat
          BY <1>1, PriorityFacts DEF ListOK
        <5>5. ~(uxPriority'[t] > uxTopReadyPriority)
          BY <2>2, <2>3, <5>3, <5>4
        <5>6. UNCHANGED uxTopReadyPriority
          BY <5>1, <5>5 DEF MoveTo
        <5> QED
          BY <4>1, <5>2, <5>6 DEF OthersStay, Ready
      <4>2. CASE ~(p # uxPriority[t] /\ Ready(t))
        BY <1>9, <4>2 DEF vTaskPrioritySet, listVars, Ready
      <4> QED
        BY <4>1, <4>2
    <3>5. \A u \in Tasks : Ready(u)' => Ready(u) /\ uxPriority'[u] <= uxPriority[u]
      BY <2>2, <2>3, <2>5, <3>4
    <3>6. ASSUME NEW x \in Cores, NEW u \in Tasks, pxCurrentTCBs[x] = u, Stays(x)', Ready(u)
          PROVE  Ready(u)' /\ uxPriority'[u] = uxPriority[u]
      <4>1. u = t => ~(p < uxPriority[t])
        BY <3>2, <3>6 DEF Stays
      <4>2. u = t => p = uxPriority[t]
        BY <2>3, <2>5, <3>6, <4>1
      <4> QED
        BY <2>2, <3>4, <3>6, <4>2
    <3> QED
      BY <3>3, <3>4, <3>5, <3>6 DEF Quiet
  <2> QED
    BY <2>4, <2>5
<1> QED
  BY <1>2, <1>3, <1>4, <1>5, <1>6, <1>7, <1>8, <1>9 DEF ApplicationStep

\* Every step is of one of the three kinds.
LEMMA StepKinds ==
  ASSUME IInv, PlaceOK, [Next]_vars
  PROVE  \/ Quiet
         \/ \E t, preemptEqual : Readied(t, preemptEqual)
         \/ \E c \in Cores : Switches(c)
<1>1. /\ CoreOK /\ ListOK /\ isr \in [Cores -> ISRs]
  BY DEF IInv, LockOK, ControlTypes
<1>2. ASSUME NEW c \in Cores, NEW t \in Tasks, UnblockTask(c, t)
      PROVE  \E preemptEqual : Readied(t, preemptEqual)
  <2>1. PICK yes, inISR : yes = TRUE /\ inISR = InISR(c)
    OBVIOUS
  <2>2. /\ UNCHANGED <<isr, pc, uxPriority>> /\ MoveTo(t, "ready")
        /\ prvYieldForTask(c, inISR, t, yes) /\ t \in xDelayedTaskList
    BY <1>2, <2>1 DEF UnblockTask
  <2>3. UNCHANGED pxCurrentTCBs /\ \A x \in Cores : Asked(x) => Asked(x)'
    BY <1>1, <2>2, AskedForTask DEF prvYieldForTask
  <2>4. Steady
    BY <2>2, <2>3, SteadyIf DEF Due
  <2>5. Moves(t, "ready")
    BY <2>2, <2>3 DEF Moves, ListNames, PlaceOK, IdleTasksReady
  <2>6. uxPriority' \in [Tasks -> Priorities] /\ uxPriority[t] <= uxPriority'[t]
    BY <1>1, <2>2, PriorityFacts DEF ListOK
  <2> QED
    BY <1>1, <2>2, <2>4, <2>5, <2>6, ReadiedIfMoved
<1>3. ASSUME NEW c \in Cores, TickInterrupt(c) PROVE Quiet
  <2>1. /\ UNCHANGED <<coreVars, listVars, uxPriority, pc, pxCurrentTCBs>>
        /\ isr' = [isr EXCEPT ![c] = "tick"] /\ isr[c] = "none"
    BY <1>3 DEF TickInterrupt, InterruptsEnabled, coreVars
  <2>2. \A x \in Cores \ {c} : isr'[x] = isr[x]
    BY <1>1, <2>1
  <2>3. Steady
    BY <2>1, <2>2, SameAsked, SteadyStep DEF Due
  <2> QED
    BY <1>1, <2>1, <2>3, QuietIfSame
<1>4. ASSUME UNCHANGED vars PROVE Quiet
  <2>1. UNCHANGED <<coreVars, listVars, uxPriority, pc, pxCurrentTCBs, isr>>
    BY <1>4 DEF vars, coreVars
  <2>2. Steady
    BY <2>1, SameAsked, SteadyIf DEF Due
  <2> QED
    BY <1>1, <2>1, <2>2, QuietIfSame
<1> QED
  BY <1>2, <1>3, <1>4, SchedulerKinds, ApplicationKinds DEF Next

\* Core c takes task t, the best there is; the other cores are left alone, or asked
\* when one priority only may run.
Takes(c, t) ==
  /\ t \in Tasks /\ Ready(t) /\ UNCHANGED uxPriority
  /\ pxCurrentTCBs' = [pxCurrentTCBs EXCEPT ![c] = t]
  /\ xTaskRunState[t] = taskTASK_NOT_RUNNING \/ t = pxCurrentTCBs[c]
  /\ \A u \in Tasks : Ready(u)' <=> Ready(u)
  /\ uxTopReadyPriority' <= uxTopReadyPriority
  /\ \A u \in Tasks : Ready(u) => uxPriority[u] <= uxTopReadyPriority'
  /\ OnePriority => uxPriority[t] = uxTopReadyPriority' \/ xIsIdle(t)
  /\ ~OnePriority => \A u \in Tasks : Ready(u) /\ uxPriority[u] > uxPriority[t] =>
                       xTaskRunState[u] # taskTASK_NOT_RUNNING /\ u # pxCurrentTCBs[c]
  /\ \A x \in Cores \ {c} : (Stays(x)' => Stays(x)) /\ (Asked(x) => Asked(x)')
  /\ ~OnePriority => ~Asked(c)' /\ \A x \in Cores \ {c} : Asked(x)' => Asked(x)

LEMMA SwitchTakes ==
  ASSUME IInv, PlaceOK, NEW c \in Cores, Switches(c)
  PROVE  \E t : Takes(c, t)
<1> DEFINE Chosen(top, p, i, t, cur, idleCores) ==
             /\ cur = [pxCurrentTCBs EXCEPT ![c] = t]
             /\ idleCores = IF OnePriority /\ top < uxTopReadyPriority
                            THEN {x \in Cores : xIsIdle(cur[x])} ELSE {}
             /\ IsTopReady(top) /\ MayRun(c, top, p, i)
             /\ \A q \in p + 1 .. top :
                  \A j \in 1 .. Len(pxReadyTasksLists[q]) : ~MayRun(c, top, q, j)
             /\ pxCurrentTCBs' = cur
             /\ pxReadyTasksLists' = [pxReadyTasksLists EXCEPT ![p] = MovedToEnd(@, i)]
             /\ uxTopReadyPriority' = top
             /\ prvYieldCore(c, FALSE, idleCores, cur, Dispatched(c, t),
                             [xYieldPendings EXCEPT ![c] = FALSE])
<1>1. PICK top \in Priorities, p \in Priorities : \E i \in 1 .. Len(pxReadyTasksLists[p]) :
        LET t == pxReadyTasksLists[p][i]
            cur == [pxCurrentTCBs EXCEPT ![c] = t]
            idleCores == IF OnePriority /\ top < uxTopReadyPriority
                         THEN {x \in Cores : xIsIdle(cur[x])} ELSE {}
        IN  /\ IsTopReady(top) /\ MayRun(c, top, p, i)
            /\ \A q \in p + 1 .. top :
                 \A j \in 1 .. Len(pxReadyTasksLists[q]) : ~MayRun(c, top, q, j)
            /\ pxCurrentTCBs' = cur
            /\ pxReadyTasksLists' = [pxReadyTasksLists EXCEPT ![p] = MovedToEnd(@, i)]
            /\ uxTopReadyPriority' = top
            /\ prvYieldCore(c, FALSE, idleCores, cur, Dispatched(c, t),
                            [xYieldPendings EXCEPT ![c] = FALSE])
  BY DEF Switches, prvSelectHighestPriorityTask
<1>2. PICK i \in 1 .. Len(pxReadyTasksLists[p]) :
        \E t, cur, idleCores :
          t = pxReadyTasksLists[p][i] /\ Chosen(top, p, i, t, cur, idleCores)
  BY <1>1
<1>21. PICK t, cur, idleCores :
         t = pxReadyTasksLists[p][i] /\ Chosen(top, p, i, t, cur, idleCores)
  BY <1>2
<1>3. /\ CoreOK /\ ListOK /\ pxCurrentTCBs \in [Cores -> Tasks]
      /\ isr \in [Cores -> ISRs] /\ pxReadyTasksLists[p] \in Seq(Tasks)
  BY DEF IInv, CoreOK, LockOK, ControlTypes, ListOK
<1>4. t \in Tasks /\ InList(pxReadyTasksLists[p], t) /\ Ready(t) /\ uxPriority[t] = p
  <2>1. t \in Tasks /\ InList(pxReadyTasksLists[p], t)
    BY <1>21, <1>3, ElementOfSeq DEF InList
  <2> QED
    BY <2>1 DEF Ready, PlaceOK, Filed
<1>5. /\ xTaskRunState[t] = taskTASK_NOT_RUNNING \/ t = pxCurrentTCBs[c]
      /\ p <= top /\ (OnePriority /\ p < top => xIsIdle(t))
  BY <1>21 DEF MayRun
<1>6. top \in Nat /\ p \in Nat /\ uxTopReadyPriority \in Nat
  BY <1>3, PriorityFacts DEF ListOK
<1>7. \A u \in Tasks : Ready(u)' <=> Ready(u)
  <2>1. \A u \in Tasks : InList(MovedToEnd(pxReadyTasksLists[p], i), u)
                           <=> InList(pxReadyTasksLists[p], u)
    BY <1>3, MovedToEndKeeps
  <2>2. /\ pxReadyTasksLists'[p] = MovedToEnd(pxReadyTasksLists[p], i)
        /\ \A q \in Priorities : q # p => pxReadyTasksLists'[q] = pxReadyTasksLists[q]
    BY <1>21, <1>3 DEF ListOK
  <2> QED
    BY <2>1, <2>2 DEF Ready
<1>8. \A u \in Tasks : Ready(u) => uxPriority[u] <= top
  <2> SUFFICES ASSUME NEW u \in Tasks, Ready(u) PROVE uxPriority[u] <= top
    OBVIOUS
  <2>1. PICK q \in Priorities : InList(pxReadyTasksLists[q], u)
    BY DEF Ready
  <2>2. uxPriority[u] = q /\ q <= uxTopReadyPriority
    BY <2>1 DEF PlaceOK, Filed
  <2>3. pxReadyTasksLists[q] # <<>> /\ q \in Nat
    BY <2>1, PriorityFacts DEF InList
  <2>4. ~(q \in top + 1 .. uxTopReadyPriority)
    BY <1>21, <2>3 DEF IsTopReady
  <2> QED
    BY <1>6, <2>2, <2>3, <2>4
<1>9. ASSUME ~OnePriority, NEW u \in Tasks, Ready(u), uxPriority[u] > uxPriority[t]
      PROVE  xTaskRunState[u] # taskTASK_NOT_RUNNING /\ u # pxCurrentTCBs[c]
  <2>1. PICK q \in Priorities : InList(pxReadyTasksLists[q], u)
    BY <1>9 DEF Ready
  <2>2. PICK j \in 1 .. Len(pxReadyTasksLists[q]) : pxReadyTasksLists[q][j] = u
    BY <2>1 DEF InList
  <2>3. uxPriority[u] = q /\ q \in Nat /\ q <= top
    BY <1>8, <1>9, <2>1, PriorityFacts DEF PlaceOK, Filed
  <2>4. q \in p + 1 .. top
    BY <1>4, <1>6, <1>9, <2>3
  <2>5. ~MayRun(c, top, q, j)
    BY <1>21, <2>4
  <2> QED
    BY <1>9, <2>2, <2>3, <2>5 DEF MayRun
<1>10. /\ \A x \in Cores \ {c} : Asked(x)' <=> Asked(x) \/ x \in idleCores
       /\ Asked(c)' <=> c \in idleCores
  <2>1. PICK no, st, pend : /\ no = FALSE /\ st = Dispatched(c, t)
                            /\ pend = [xYieldPendings EXCEPT ![c] = FALSE]
    OBVIOUS
  <2>2. /\ cur \in [Cores -> Tasks] /\ pend \in [Cores -> BOOLEAN] /\ idleCores \in SUBSET Cores
        /\ cur[c] = t /\ ~pend[c] /\ pxCurrentTCBs' = cur
        /\ \A x \in Cores \ {c} : cur[x] = pxCurrentTCBs[x] /\ pend[x] = xYieldPendings[x]
    BY <1>21, <1>3, <1>4, <2>1 DEF CoreOK
  <2>3. \A x \in Cores \ {c} : cur[x] # t /\ cur[x] # pxCurrentTCBs[c]
    BY <1>3, <1>4, <1>5, <2>2, CoreFacts DEF CoreOK, Matches
  <2>4. OwnTasks(cur)
    BY <1>3, <2>2, <2>3 DEF CoreOK, Matches, OwnTasks
  <2>5. st[t] = c /\ \A x \in Cores \ {c} : st[cur[x]] = xTaskRunState[cur[x]]
    BY <1>3, <1>4, <2>1, <2>2, <2>3 DEF Dispatched, CoreOK
  <2>6. /\ cur \in [Cores -> Tasks] /\ pend \in [Cores -> BOOLEAN] /\ idleCores \in SUBSET Cores
        /\ OwnTasks(cur) /\ pxCurrentTCBs' = cur
        /\ prvYieldCore(c, no, idleCores, cur, st, pend)
    BY <1>21, <2>1, <2>2, <2>4
  <2>7. \A x \in Cores : Asked(x)' <=> pend[x] \/ st[cur[x]] = taskTASK_YIELDING \/ x \in idleCores
    BY <2>6, AskedAfter
  <2>8. \A x \in Cores \ {c} : Asked(x)' <=> Asked(x) \/ x \in idleCores
    BY <2>2, <2>5, <2>7 DEF Asked
  <2>9. Asked(c)' <=> c \in idleCores
    BY <2>2, <2>5, <2>7, CoreFacts
  <2> QED
    BY <2>8, <2>9
<1>11. \A x \in Cores \ {c} : (Stays(x)' => Stays(x)) /\ (Asked(x) => Asked(x)')
  <2>1. \A x \in Cores \ {c} : pxCurrentTCBs'[x] = pxCurrentTCBs[x] /\ isr'[x] = isr[x]
    BY <1>21, <1>3 DEF Switches
  <2>2. \A x \in Cores \ {c} : Due(x)' <=> Due(x)
    BY <2>1 DEF Due, Switches
  <2> QED
    BY <1>10, <2>2 DEF Stays
<1>12. ~OnePriority => idleCores = {}
  BY <1>21
<1>13. top <= uxTopReadyPriority /\ (OnePriority => p = top \/ xIsIdle(t))
  BY <1>21, <1>5, <1>6 DEF IsTopReady
<1>14. uxTopReadyPriority' = top /\ pxCurrentTCBs' = [pxCurrentTCBs EXCEPT ![c] = t]
  BY <1>21
<1>15. ~OnePriority => ~Asked(c)' /\ \A x \in Cores \ {c} : Asked(x)' => Asked(x)
  BY <1>10, <1>12
<1> HIDE DEF Chosen
<1> QED
  BY <1>4, <1>5, <1>7, <1>8, <1>9, <1>11, <1>13, <1>14, <1>15 DEF Takes, Switches

LEMMA StaysReadyStep == IInv /\ PlaceOK /\ StaysReady /\ [Next]_vars => StaysReady'
<1> SUFFICES ASSUME IInv, PlaceOK, StaysReady, [Next]_vars, NEW x \in Cores, Stays(x)'
             PROVE  Ready(pxCurrentTCBs[x])'
  BY DEF StaysReady
<1>1. pxCurrentTCBs \in [Cores -> Tasks] /\ pxCurrentTCBs[x] \in Tasks
  BY DEF IInv, CoreOK
<1>2. CASE Quiet
  BY <1>1, <1>2 DEF Quiet, Steady, StaysReady, Ready
<1>3. ASSUME NEW t, NEW preemptEqual, Readied(t, preemptEqual) PROVE Ready(pxCurrentTCBs[x])'
  BY <1>1, <1>3 DEF Readied, Steady, StaysReady, Ready
<1>4. ASSUME NEW c \in Cores, NEW t, Takes(c, t) PROVE Ready(pxCurrentTCBs[x])'
  <2>1. PICK u \in Tasks : u = pxCurrentTCBs'[x]
    BY <1>1, <1>4 DEF Takes
  <2>2. Ready(u)
    <3>1. CASE x = c
      BY <1>1, <1>4, <2>1, <3>1 DEF Takes
    <3>2. CASE x # c
      BY <1>1, <1>4, <2>1, <3>2 DEF Takes, StaysReady
    <3> QED
      BY <3>1, <3>2
  <2>3. Ready(u)'
    BY <1>4, <2>2 DEF Takes
  <2> QED
    BY <2>1, <2>3 DEF Ready
<1> QED
  BY <1>2, <1>3, <1>4, StepKinds, SwitchTakes

-----------------------------------------------------------------------------
(* With one running priority, who stays runs the top one.                    *)

TopStays ==
  OnePriority => \A x \in Cores : Stays(x) /\ ~xIsIdle(pxCurrentTCBs[x]) =>
                   uxPriority[pxCurrentTCBs[x]] = uxTopReadyPriority

\* A core that was not asked runs its task.
LEMMA UnaskedRuns ==
  ASSUME CoreOK, NEW x \in Cores, ~Asked(x)
  PROVE  IsRunning(pxCurrentTCBs[x]) /\ ~xYieldPendings[x]
BY DEF CoreOK, Matches, Asked, IsRunning

\* A task at the top has every core that runs a lower one yield.
LEMMA LowerIsAsked ==
  ASSUME CoreOK, OnePriority, NEW t, NEW preemptEqual, NEW x \in Cores, ~Asked(x),
         ~(uxPriority'[t] < uxTopReadyPriority'), ~xIsIdle(pxCurrentTCBs[x]),
         uxPriority'[pxCurrentTCBs[x]] \in Nat, uxPriority'[pxCurrentTCBs[x]] < uxPriority'[t]
  PROVE  x \in CoresYieldingFor(t, preemptEqual)
<1> DEFINE mine == uxPriority'[t]
           asked == {y \in Cores : IsRunning(pxCurrentTCBs[y]) /\ ~xYieldPendings[y]}
           prio == [y \in Cores |-> CorePriority(uxPriority', y)]
           lower == {y \in asked : prio[y] >= 0 /\ prio[y] < mine}
<1>1. x \in asked
  BY UnaskedRuns
<1>2. prio[x] = uxPriority'[pxCurrentTCBs[x]]
  BY DEF CorePriority
<1>3. x \in lower
  BY <1>1, <1>2
<1>4. CoresYieldingFor(t, preemptEqual) = lower
  BY <1>3 DEF CoresYieldingFor
<1> QED
  BY <1>3, <1>4

LEMMA TopStaysStep ==
  IInv /\ PlaceOK /\ StaysReady /\ TopStays /\ [Next]_vars => TopStays'
<1> SUFFICES ASSUME IInv, PlaceOK, StaysReady, TopStays, [Next]_vars, OnePriority,
                    NEW x \in Cores, NEW v, v = pxCurrentTCBs'[x], Stays(x)', ~xIsIdle(v)
             PROVE  uxPriority'[v] = uxTopReadyPriority'
  BY DEF TopStays, OnePriority, xIsIdle
<1>1. /\ CoreOK /\ ListOK /\ pxCurrentTCBs \in [Cores -> Tasks]
      /\ \A u \in Tasks : uxPriority[u] \in Nat
      /\ uxTopReadyPriority \in Nat
  BY PriorityFacts DEF IInv, CoreOK, ListOK
<1>2. /\ v \in Tasks /\ uxTopReadyPriority' \in Nat
      /\ \A u \in Tasks : uxPriority'[u] \in Nat
  <2>1. CoreOK' /\ ListOK'
    BY NextKeeps DEF IInv
  <2> QED
    BY <2>1, PriorityFacts DEF CoreOK, ListOK
<1>3. ASSUME Stays(x), pxCurrentTCBs[x] = v
      PROVE  Ready(v) /\ uxPriority[v] = uxTopReadyPriority /\ ~Asked(x)
  BY <1>3 DEF StaysReady, TopStays, Stays
<1>4. CASE Quiet
  <2>1. Stays(x) /\ pxCurrentTCBs[x] = v
    BY <1>4 DEF Quiet, Steady
  <2> QED
    BY <1>2, <1>3, <1>4, <2>1 DEF Quiet
<1>5. ASSUME NEW t, NEW preemptEqual, Readied(t, preemptEqual)
      PROVE  uxPriority'[v] = uxTopReadyPriority'
  <2>1. /\ Stays(x) /\ pxCurrentTCBs[x] = v /\ ~Asked(x)'
        /\ t \in Tasks /\ uxPriority'[t] \in Nat
        /\ uxTopReadyPriority' = IF uxPriority'[t] > uxTopReadyPriority
                                 THEN uxPriority'[t] ELSE uxTopReadyPriority
    BY <1>2, <1>5 DEF Readied, Steady, Stays, Tasks
  <2>2. CASE v = t
    <3>1. uxPriority[t] <= uxPriority'[t]
      BY <1>3, <1>5, <2>1, <2>2 DEF Readied
    <3> QED
      BY <1>1, <1>3, <2>1, <2>2, <3>1
  <2>3. CASE v # t
    <3>1. uxPriority'[v] = uxTopReadyPriority
      BY <1>2, <1>3, <1>5, <2>1, <2>3 DEF Readied
    <3>2. CASE uxPriority'[t] > uxTopReadyPriority
      <4>1. ~(uxPriority'[t] < uxTopReadyPriority') /\ uxPriority'[v] < uxPriority'[t]
        BY <1>1, <2>1, <3>1, <3>2
      <4>2. x \in CoresYieldingFor(t, preemptEqual)
        BY <1>1, <1>2, <1>3, <2>1, <4>1, LowerIsAsked
      <4> QED
        BY <1>5, <2>1, <4>2 DEF Readied
    <3> QED
      BY <2>1, <3>1, <3>2
  <2> QED
    BY <2>2, <2>3
<1>6. ASSUME NEW c \in Cores, NEW t, Takes(c, t)
      PROVE  uxPriority'[v] = uxTopReadyPriority'
  <2>1. CASE x = c
    BY <1>1, <1>6, <2>1 DEF Takes
  <2>2. CASE x # c
    <3>1. Stays(x) /\ pxCurrentTCBs[x] = v /\ uxPriority' = uxPriority
      BY <1>1, <1>6, <2>2 DEF Takes
    <3>2. /\ uxTopReadyPriority' <= uxTopReadyPriority
          /\ uxPriority[v] <= uxTopReadyPriority'
      BY <1>2, <1>3, <1>6, <3>1 DEF Takes
    <3> QED
      BY <1>1, <1>2, <1>3, <3>1, <3>2
  <2> QED
    BY <2>1, <2>2
<1> QED
  BY <1>4, <1>5, <1>6, StepKinds, SwitchTakes

-----------------------------------------------------------------------------
(* Otherwise, those that outrank a core that stays are counted against the   *)
(* cores that are asked to switch.                                           *)

AskedCores == {c \in Cores : Asked(c)}

\* The tasks above k that run nowhere, or on a core that is to give them up.
Owed(k) == {t \in Tasks : /\ Ready(t) /\ uxPriority[t] > k
                          /\ \A c \in Cores : pxCurrentTCBs[c] = t => Asked(c)}

Covered(k) == IsFiniteSet(Owed(k)) /\ Cardinality(Owed(k)) <= Cardinality(AskedCores)

RankOK ==
  ~OnePriority => \A c \in Cores : \A t \in Tasks :
                    Stays(c) /\ pxCurrentTCBs[c] = t => Covered(uxPriority[t])

\* A set whose members f gives, each for an element of A.
LEMMA NoMoreThan ==
  ASSUME NEW S, NEW A, IsFiniteSet(A), NEW f, \A s \in S : \E y \in A : f[y] = s
  PROVE  IsFiniteSet(S) /\ Cardinality(S) <= Cardinality(A)
<1> DEFINE g == [s \in S |-> CHOOSE y \in A : f[y] = s]
<1>1. \A s \in S : g[s] \in A /\ f[g[s]] = s
  OBVIOUS
<1>2. g \in Injection(S, A)
  BY <1>1 DEF Injection, IsInjective
<1> HIDE DEF g
<1> QED
  BY <1>2, FS_Injection

\* The same beside a set that is no larger than another.
LEMMA NoMoreThanBoth ==
  ASSUME NEW S, NEW old, NEW A, NEW B, NEW f, IsFiniteSet(B), A \subseteq B,
         IsFiniteSet(old), Cardinality(old) <= Cardinality(A),
         \A s \in S : s \in old \/ \E y \in B \ A : f[y] = s
  PROVE  IsFiniteSet(S) /\ Cardinality(S) <= Cardinality(B)
<1> DEFINE T == S \ old
           X == B \ A
<1>1. IsFiniteSet(A) /\ IsFiniteSet(X)
  BY FS_Subset
<1>2. IsFiniteSet(T) /\ Cardinality(T) <= Cardinality(X)
  <2>1. \A s \in T : \E y \in X : f[y] = s
    OBVIOUS
  <2> HIDE DEF T, X
  <2> QED
    BY <1>1, <2>1, NoMoreThan
<1>3. /\ IsFiniteSet(old \cup T)
      /\ Cardinality(old \cup T) = Cardinality(old) + Cardinality(T) - Cardinality(old \cap T)
  <2> HIDE DEF T
  <2> QED
    BY <1>2, FS_Union
<1>4. Cardinality(A \cup X) = Cardinality(A) + Cardinality(X) - Cardinality(A \cap X)
  <2> HIDE DEF X
  <2> QED
    BY <1>1, FS_Union
<1>5. A \cup X = B /\ A \cap X = {} /\ old \cap T = {} /\ S \in SUBSET (old \cup T)
  OBVIOUS
<1>6. IsFiniteSet(S) /\ Cardinality(S) <= Cardinality(old \cup T)
  BY <1>3, <1>5, FS_Subset
<1>7. Cardinality(S) \in Nat /\ Cardinality(old) \in Nat /\ Cardinality(A) \in Nat
  BY <1>1, <1>6, FS_CardinalityType
<1>8. Cardinality(T) \in Nat /\ Cardinality(X) \in Nat
  <2> HIDE DEF T, X
  <2> QED
    BY <1>1, <1>2, FS_CardinalityType
<1>9. Cardinality(A \cap X) = 0 /\ Cardinality(old \cap T) = 0
  BY <1>5, FS_EmptySet
<1>10. Cardinality(old \cup T) <= Cardinality(B)
  <2> HIDE DEF T, X
  <2>1. A \cup X = B
    BY <1>5
  <2>2. Cardinality(B) = Cardinality(A) + Cardinality(X) - 0
    BY <1>4, <1>9, <2>1, Zenon
  <2>3. Cardinality(B) = Cardinality(A) + Cardinality(X)
    BY <1>7, <1>8, <2>2
  <2>4. Cardinality(old \cup T) = Cardinality(old) + Cardinality(T)
    BY <1>3, <1>7, <1>8, <1>9
  <2> QED
    BY <1>2, <1>7, <1>8, <2>3, <2>4
<1>11. Cardinality(B) \in Nat /\ Cardinality(old \cup T) \in Nat
  BY <1>3, FS_CardinalityType
<1> HIDE DEF T, X
<1> QED
  BY <1>6, <1>7, <1>10, <1>11

LEMMA CoresFinite == IsFiniteSet(Cores)
BY FS_Interval, CoresAssumption DEF Cores

LEMMA AskedFinite == IsFiniteSet(AskedCores) /\ IsFiniteSet(AskedCores)'
<1>1. \A S \in SUBSET Cores : IsFiniteSet(S)
  BY CoresFinite, FS_Subset
<1> QED
  BY <1>1 DEF AskedCores

\* More cores are asked, and each task that is owed anew has one of them.
LEMMA CoveredByNew ==
  ASSUME NEW k, NEW m, NEW f, Covered(k), \A x \in Cores : Asked(x) => Asked(x)',
         \A u \in Tasks : u \in Owed(m)' =>
           u \in Owed(k) \/ \E y \in Cores : Asked(y)' /\ ~Asked(y) /\ f[y] = u
  PROVE  Covered(m)'
<1>1. PICK S, old, A, B : /\ S = Owed(m)' /\ old = Owed(k) /\ A = AskedCores /\ B = AskedCores'
  OBVIOUS
<1>2. /\ IsFiniteSet(B) /\ A \subseteq B /\ IsFiniteSet(old)
      /\ Cardinality(old) <= Cardinality(A)
  BY <1>1, AskedFinite DEF Covered, AskedCores
<1>3. S \subseteq Tasks
  BY <1>1 DEF Owed, Tasks
<1>4. \A s \in S : s \in old \/ \E y \in B \ A : f[y] = s
  BY <1>1, <1>3 DEF AskedCores
<1>5. IsFiniteSet(S) /\ Cardinality(S) <= Cardinality(B)
  BY <1>2, <1>4, NoMoreThanBoth
<1> QED
  BY <1>1, <1>5 DEF Covered

LEMMA QuietCovers ==
  ASSUME CoreOK, ListOK, StaysReady, RankOK, ~OnePriority, Quiet,
         uxPriority' \in [Tasks -> Priorities],
         NEW x \in Cores, NEW v \in Tasks, pxCurrentTCBs'[x] = v, Stays(x)',
         NEW k, k = uxPriority'[v]
  PROVE  Covered(k)'
<1>1. PICK f : f = pxCurrentTCBs
  OBVIOUS
<1>2. /\ Stays(x) /\ pxCurrentTCBs[x] = v /\ UNCHANGED pxCurrentTCBs
      /\ \A y \in Cores : Asked(y) => Asked(y)'
  BY DEF Quiet, Steady
<1>3. Ready(v)
  BY <1>2 DEF StaysReady
<1>4. k = uxPriority[v] /\ k \in Nat
  BY <1>1, <1>2, <1>3, PriorityFacts DEF Quiet, ListOK
<1>5. Covered(k)
  BY <1>2, <1>4 DEF RankOK
<1>6. ASSUME NEW u \in Tasks, u \in Owed(k)'
      PROVE  u \in Owed(k) \/ \E y \in Cores : Asked(y)' /\ ~Asked(y) /\ f[y] = u
  <2>1. /\ Ready(u)' /\ uxPriority'[u] > k
        /\ \A y \in Cores : pxCurrentTCBs[y] = u => Asked(y)'
    BY <1>2, <1>6 DEF Owed, Ready
  <2>2. Ready(u) /\ uxPriority'[u] <= uxPriority[u]
    BY <2>1 DEF Quiet
  <2>3. uxPriority'[u] \in Nat /\ uxPriority[u] \in Nat
    BY PriorityFacts DEF ListOK
  <2>4. uxPriority[u] > k
    BY <1>4, <2>1, <2>2, <2>3
  <2> QED
    BY <1>1, <2>1, <2>2, <2>4 DEF Owed
<1> QED
  BY <1>2, <1>5, <1>6, CoveredByNew

\* Some core that runs nothing above t is asked for t; it runs the lowest there is.
LEMMA LowestIsAsked ==
  ASSUME CoreOK, PlaceOK, ~OnePriority, NEW t \in Tasks, NEW preemptEqual, NEW x \in Cores,
         NEW k \in Nat, uxPriority' \in [Tasks -> Priorities],
         \A i \in IdleTasks : uxPriority'[i] = 0, ~Asked(x),
         uxPriority'[pxCurrentTCBs[x]] = k, k < uxPriority'[t]
  PROVE  \E z \in CoresYieldingFor(t, preemptEqual) :
           z \in Cores /\ ~Asked(z) /\ uxPriority'[pxCurrentTCBs[z]] <= k
<1> DEFINE mine == uxPriority'[t]
           limit == IF preemptEqual THEN mine ELSE mine - 1
           asked == {y \in Cores : IsRunning(pxCurrentTCBs[y]) /\ ~xYieldPendings[y]}
           prio == [y \in Cores |-> CorePriority(uxPriority', y)]
           lowest == {y \in asked : /\ prio[y] <= limit
                                    /\ \A z \in asked : \/ prio[y] < prio[z]
                                                       \/ (prio[y] = prio[z] /\ z <= y)}
<1>1. /\ \A y \in Cores : pxCurrentTCBs[y] \in Tasks /\ uxPriority'[pxCurrentTCBs[y]] \in Nat
      /\ mine \in Nat
  BY PriorityFacts DEF CoreOK
<1>2. \A y \in Cores : prio[y] \in Int /\ prio[y] + 1 \in Nat /\ y \in Nat
  BY <1>1, CoresAssumption DEF CorePriority, Cores
<1>3. x \in asked /\ prio[x] <= k
  BY <1>1, UnaskedRuns DEF CorePriority
<1>4. limit \in Int /\ k <= limit
  BY <1>1
<1>5. CoresYieldingFor(t, preemptEqual) = lowest
  BY DEF CoresYieldingFor
<1>6. asked \subseteq Cores
  OBVIOUS
<1>7. \A y \in asked : ~Asked(y)
  BY DEF Asked, IsRunning, CoreOK, Matches, Cores, taskTASK_YIELDING
<1> HIDE DEF prio, asked, limit
<1>8. PICK m \in Int : (\E y \in asked : prio[y] = m) /\ \A y \in asked : m <= prio[y]
  <2> DEFINE T == {prio[y] + 1 : y \in asked}
  <2>1. T \in SUBSET Nat /\ T # {}
    BY <1>2, <1>3, <1>6
  <2>2. PICK n \in T : \A i \in T : n <= i
    BY <2>1, LeastOne
  <2>3. PICK y \in asked : n = prio[y] + 1
    BY <2>2
  <2>4. ASSUME NEW z \in asked PROVE prio[y] <= prio[z]
    <3>1. n <= prio[z] + 1
      BY <2>2
    <3> QED
      BY <1>2, <1>6, <2>3, <3>1
  <2> QED
    BY <1>2, <1>6, <2>3, <2>4
<1>9. PICK z \in asked : prio[z] = m /\ \A y \in asked : prio[y] = m => y <= z
  <2> DEFINE T == {configNUM_CORES - y : y \in {w \in asked : prio[w] = m}}
  <2>1. \A y \in Cores : configNUM_CORES - y \in Nat
    BY CoresAssumption DEF Cores
  <2>2. T \in SUBSET Nat /\ T # {}
    BY <1>6, <1>8, <2>1
  <2>3. PICK n \in T : \A i \in T : n <= i
    BY <2>2, LeastOne
  <2>4. PICK z \in asked : prio[z] = m /\ n = configNUM_CORES - z
    BY <2>3
  <2>5. ASSUME NEW y \in asked, prio[y] = m PROVE y <= z
    <3>1. configNUM_CORES - y \in T
      BY <2>5
    <3>2. n <= configNUM_CORES - y
      BY <2>3, <3>1
    <3> QED
      BY <1>2, <1>6, <2>4, <3>2, CoresAssumption
  <2> QED
    BY <2>4, <2>5
<1>10. prio[z] <= limit /\ prio[z] <= k
  <2>1. prio[z] <= prio[x] /\ prio[x] \in Int /\ prio[z] \in Int
    BY <1>2, <1>3, <1>6, <1>8, <1>9
  <2> QED
    BY <1>3, <1>4, <2>1
<1>11. z \in lowest
  <2>1. \A y \in asked : prio[z] < prio[y] \/ (prio[z] = prio[y] /\ y <= z)
    BY <1>2, <1>6, <1>8, <1>9
  <2> QED
    BY <1>10, <2>1
<1>12. uxPriority'[pxCurrentTCBs[z]] <= k
  <2>1. z \in Cores /\ prio[z] = CorePriority(uxPriority', z)
    BY <1>6 DEF prio
  <2>2. CASE xIsIdle(pxCurrentTCBs[z])
    BY <2>2 DEF xIsIdle
  <2>3. CASE ~xIsIdle(pxCurrentTCBs[z])
    BY <1>10, <2>1, <2>3 DEF CorePriority
  <2> QED
    BY <2>2, <2>3
<1> QED
  BY <1>5, <1>6, <1>7, <1>11, <1>12

LEMMA ReadiedCovers ==
  ASSUME CoreOK, ListOK, PlaceOK, StaysReady, RankOK, ~OnePriority,
         NEW t, NEW preemptEqual, Readied(t, preemptEqual),
         uxPriority' \in [Tasks -> Priorities], \A i \in IdleTasks : uxPriority'[i] = 0,
         NEW x \in Cores, NEW v \in Tasks, pxCurrentTCBs'[x] = v, Stays(x)',
         NEW k, k = uxPriority'[v]
  PROVE  Covered(k)'
<1>1. PICK old : old = uxPriority[v]
  OBVIOUS
<1>2. /\ Stays(x) /\ pxCurrentTCBs[x] = v /\ UNCHANGED pxCurrentTCBs /\ t \in Tasks
      /\ \A y \in Cores : Asked(y)' <=> Asked(y) \/ y \in CoresYieldingFor(t, preemptEqual)
      /\ Ready(t) => uxPriority[t] <= uxPriority'[t]
      /\ \A u \in Tasks : u # t => (Ready(u)' <=> Ready(u)) /\ uxPriority'[u] = uxPriority[u]
  BY DEF Readied, Steady, Tasks
<1>3. Ready(v) /\ Covered(old) /\ ~Asked(x)
  BY <1>1, <1>2 DEF StaysReady, RankOK, Stays
<1>4. /\ \A u \in Tasks : uxPriority[u] \in Nat /\ uxPriority'[u] \in Nat
      /\ k \in Nat /\ old \in Nat
  BY <1>1, PriorityFacts DEF ListOK
<1>5. old <= k /\ (v # t => old = k)
  BY <1>1, <1>2, <1>3, <1>4
<1>6. ASSUME NEW u \in Tasks, u \in Owed(k)'
      PROVE  /\ Ready(u)' /\ uxPriority'[u] > k
             /\ \A y \in Cores : pxCurrentTCBs[y] = u => Asked(y)'
             /\ u # t => Ready(u) /\ uxPriority[u] > old
  <2>1. /\ Ready(u)' /\ uxPriority'[u] > k
        /\ \A y \in Cores : pxCurrentTCBs[y] = u => Asked(y)'
    BY <1>2, <1>6 DEF Owed, Ready
  <2>2. u # t => Ready(u) /\ uxPriority[u] = uxPriority'[u]
    BY <1>2, <2>1
  <2> QED
    BY <1>4, <1>5, <2>1, <2>2
<1>7. ASSUME NEW u \in Tasks, u \in Owed(k)', Ready(u), uxPriority[u] > old
      PROVE  u \in Owed(old) \/ \E y \in Cores : Asked(y)' /\ ~Asked(y) /\ pxCurrentTCBs[y] = u
  BY <1>6, <1>7 DEF Owed
<1>8. \A y \in Cores : Asked(y) => Asked(y)'
  BY <1>2
<1>9. CASE t \in Owed(k)' => Ready(t) /\ uxPriority[t] > old
  <2>1. PICK f : f = pxCurrentTCBs
    OBVIOUS
  <2>2. \A u \in Tasks : u \in Owed(k)' =>
          u \in Owed(old) \/ \E y \in Cores : Asked(y)' /\ ~Asked(y) /\ f[y] = u
    BY <1>6, <1>7, <1>9, <2>1
  <2> QED
    BY <1>3, <1>8, <2>2, CoveredByNew
<1>10. CASE t \in Owed(k)' /\ ~(Ready(t) /\ uxPriority[t] > old)
  <2>1. k < uxPriority'[t]
    BY <1>2, <1>4, <1>6, <1>10
  <2>2. uxPriority'[pxCurrentTCBs[x]] = k
    BY <1>2
  <2>3. PICK z \in Cores : /\ z \in CoresYieldingFor(t, preemptEqual)
                           /\ ~Asked(z) /\ uxPriority'[pxCurrentTCBs[z]] <= k
    BY <1>2, <1>3, <1>4, <2>1, <2>2, LowestIsAsked
  <2>4. Asked(z)' /\ pxCurrentTCBs[z] \in Tasks
    BY <1>2, <2>3 DEF CoreOK
  <2> DEFINE f == [y \in Cores |-> IF y = z THEN t ELSE pxCurrentTCBs[y]]
  <2>5. ASSUME NEW u \in Tasks, u \in Owed(k)'
        PROVE  u \in Owed(old) \/ \E y \in Cores : Asked(y)' /\ ~Asked(y) /\ f[y] = u
    <3>1. CASE u = t
      BY <2>3, <2>4, <3>1
    <3>2. CASE u # t
      <4>1. u \in Owed(old) \/ \E y \in Cores : Asked(y)' /\ ~Asked(y) /\ pxCurrentTCBs[y] = u
        BY <1>6, <1>7, <2>5, <3>2
      <4>2. pxCurrentTCBs[z] # u
        BY <1>4, <1>6, <2>3, <2>4, <2>5
      <4> QED
        BY <4>1, <4>2
    <3> QED
      BY <3>1, <3>2
  <2> HIDE DEF f
  <2>6. PICK g : \A u \in Tasks : u \in Owed(k)' =>
                   u \in Owed(old) \/ \E y \in Cores : Asked(y)' /\ ~Asked(y) /\ g[y] = u
    BY <2>5
  <2> QED
    BY <1>3, <1>8, <2>6, CoveredByNew
<1> QED
  BY <1>9, <1>10

LEMMA TakesCovers ==
  ASSUME CoreOK, ListOK, RankOK, ~OnePriority, NEW c \in Cores, NEW t, Takes(c, t),
         NEW x \in Cores, NEW v \in Tasks, pxCurrentTCBs'[x] = v, Stays(x)',
         NEW k, k = uxPriority'[v]
  PROVE  Covered(k)'
<1>1. /\ pxCurrentTCBs \in [Cores -> Tasks] /\ t \in Tasks /\ pxCurrentTCBs[c] \in Tasks
      /\ \A u \in Tasks : uxPriority[u] \in Nat
      /\ k = uxPriority[v] /\ k \in Nat /\ UNCHANGED uxPriority
  BY PriorityFacts DEF CoreOK, ListOK, Takes
<1>2. /\ pxCurrentTCBs'[c] = t
      /\ \A y \in Cores \ {c} : pxCurrentTCBs'[y] = pxCurrentTCBs[y]
      /\ ~Asked(c)' /\ \A y \in Cores \ {c} : Asked(y)' <=> Asked(y)
      /\ Ready(t)
  BY <1>1 DEF Takes
<1>3. ASSUME NEW u \in Tasks, u \in Owed(k)'
      PROVE  /\ Ready(u) /\ uxPriority[u] > k /\ u # t
             /\ \A y \in Cores \ {c} : pxCurrentTCBs[y] = u => Asked(y)
  <2>1. /\ Ready(u)' /\ uxPriority'[u] > k
        /\ \A y \in Cores : pxCurrentTCBs'[y] = u => Asked(y)'
    BY <1>3 DEF Owed, Ready
  <2> QED
    BY <1>1, <1>2, <2>1 DEF Takes
<1>4. CASE uxPriority[t] <= k
  <2>1. ASSUME NEW u \in Tasks, u \in Owed(k)'
        PROVE  \E y \in Cores : Asked(y)' /\ pxCurrentTCBs'[y] = u
    <3>1. xTaskRunState[u] # taskTASK_NOT_RUNNING /\ u # pxCurrentTCBs[c]
      <4>1. Ready(u) /\ uxPriority[u] > uxPriority[t]
        BY <1>1, <1>3, <1>4, <2>1
      <4> QED
        BY <4>1 DEF Takes
    <3>2. PICK y \in Cores : pxCurrentTCBs[y] = u
      BY <3>1 DEF CoreOK, Matches
    <3> QED
      BY <1>2, <1>3, <2>1, <3>1, <3>2
  <2>2. PICK S, A, f : S = Owed(k)' /\ A = AskedCores' /\ f = pxCurrentTCBs'
    OBVIOUS
  <2>3. IsFiniteSet(A) /\ \A s \in S : \E y \in A : f[y] = s
    BY <2>1, <2>2, AskedFinite DEF AskedCores, Owed, Tasks, Cores
  <2>4. IsFiniteSet(S) /\ Cardinality(S) <= Cardinality(A)
    BY <2>3, NoMoreThan
  <2> QED
    BY <2>2, <2>4 DEF Covered
<1>5. CASE uxPriority[t] > k
  <2>1. x # c /\ Stays(x) /\ pxCurrentTCBs[x] = v
    BY <1>1, <1>2, <1>5 DEF Takes
  <2>2. Covered(k)
    BY <1>1, <2>1 DEF RankOK
  <2>3. PICK S, A, B, old : /\ S = Owed(k)' /\ A = AskedCores /\ B = AskedCores'
                            /\ old = Owed(k)
    OBVIOUS
  <2>4. /\ IsFiniteSet(A) /\ IsFiniteSet(old) /\ Cardinality(old) <= Cardinality(A)
        /\ Cardinality(A) \in Nat /\ Cardinality(old) \in Nat
    BY <2>2, <2>3, AskedFinite, FS_CardinalityType DEF Covered
  <2>5. t # pxCurrentTCBs[c] => t \in old
    <3>1. t # pxCurrentTCBs[c] => \A y \in Cores : pxCurrentTCBs[y] # t
      BY <1>1, CoreFacts DEF Takes, CoreOK, Matches
    <3> QED
      BY <1>1, <1>2, <1>5, <2>3, <3>1 DEF Owed
  <2>6. S \subseteq Tasks /\ \A u \in S : u # t /\ (u # pxCurrentTCBs[c] => u \in old)
    BY <1>3, <2>3 DEF Owed, Tasks
  <2>7. B = A \ {c}
    BY <1>2, <2>3 DEF AskedCores
  <2>8. CASE Asked(c)
    <3>1. c \in A /\ t \in old /\ S \in SUBSET (old \ {t})
      <4>1. c \in A
        BY <2>3, <2>8 DEF AskedCores
      <4>2. ASSUME NEW u \in Tasks, Ready(u), uxPriority[u] > k, u = pxCurrentTCBs[c]
            PROVE  u \in old
        BY <2>3, <2>8, <4>2 DEF Owed, CoreOK, Matches
      <4>3. t \in old
        BY <1>1, <1>2, <1>5, <2>5, <4>2
      <4>4. \A u \in S : u \in old
        BY <1>3, <2>3, <2>6, <4>2
      <4> QED
        BY <2>6, <4>1, <4>3, <4>4
    <3>2. /\ IsFiniteSet(old \ {t}) /\ Cardinality(old \ {t}) = Cardinality(old) - 1
          /\ Cardinality(A \ {c}) = Cardinality(A) - 1
      BY <2>4, <3>1, FS_RemoveElement
    <3>3. /\ IsFiniteSet(S) /\ Cardinality(S) <= Cardinality(old \ {t})
          /\ Cardinality(S) \in Nat
      BY <3>1, <3>2, FS_Subset, FS_CardinalityType
    <3>4. Cardinality(S) <= Cardinality(B)
      BY <2>4, <2>7, <3>2, <3>3
    <3> QED
      BY <2>3, <3>3, <3>4 DEF Covered
  <2>9. CASE ~Asked(c)
    <3>1. B = A
      BY <2>3, <2>7, <2>9 DEF AskedCores
    <3>2. \E T : IsFiniteSet(T) /\ S \in SUBSET T /\ Cardinality(T) <= Cardinality(old)
      <4>1. CASE t = pxCurrentTCBs[c]
        BY <2>4, <2>6, <4>1
      <4>2. CASE t # pxCurrentTCBs[c]
        <5> DEFINE u == pxCurrentTCBs[c]
                   T == old \ {t}
        <5>1. IsFiniteSet(T) /\ Cardinality(T) = Cardinality(old) - 1
          BY <2>4, <2>5, <4>2, FS_RemoveElement
        <5>2. Cardinality(T) \in Nat
          BY <5>1, FS_CardinalityType
        <5> HIDE DEF u, T
        <5>3. /\ IsFiniteSet(T \cup {u})
              /\ Cardinality(T \cup {u}) = IF u \in T THEN Cardinality(T) ELSE Cardinality(T) + 1
          BY <5>1, FS_AddElement
        <5>4. Cardinality(T \cup {u}) <= Cardinality(old)
          BY <2>4, <5>1, <5>2, <5>3
        <5>5. S \in SUBSET (T \cup {u})
          BY <2>6 DEF T, u
        <5> QED
          BY <5>3, <5>4, <5>5
      <4> QED
        BY <4>1, <4>2
    <3>3. PICK T : IsFiniteSet(T) /\ S \in SUBSET T /\ Cardinality(T) <= Cardinality(old)
      BY <3>2
    <3>4. /\ IsFiniteSet(S) /\ Cardinality(S) <= Cardinality(T)
          /\ Cardinality(S) \in Nat /\ Cardinality(T) \in Nat
      BY <3>3, FS_Subset, FS_CardinalityType
    <3>5. Cardinality(S) <= Cardinality(B)
      BY <2>4, <3>1, <3>3, <3>4
    <3> QED
      BY <2>3, <3>4, <3>5 DEF Covered
  <2> QED
    BY <2>8, <2>9
<1>6. uxPriority[t] \in Nat
  BY <1>1
<1> QED
  BY <1>1, <1>4, <1>5, <1>6

LEMMA RankStep ==
  IInv /\ PlaceOK /\ StaysReady /\ RankOK /\ [Next]_vars => RankOK'
<1> SUFFICES ASSUME IInv, PlaceOK, StaysReady, RankOK, [Next]_vars, ~OnePriority,
                    NEW x \in Cores, NEW v \in Tasks, pxCurrentTCBs'[x] = v, Stays(x)',
                    NEW k, k = uxPriority'[v]
             PROVE  Covered(k)'
  BY DEF RankOK, OnePriority, Covered, Owed
<1>1. /\ CoreOK /\ ListOK /\ uxPriority' \in [Tasks -> Priorities]
      /\ \A i \in IdleTasks : uxPriority'[i] = 0
  <2>1. ListOK'
    BY NextKeeps DEF IInv
  <2>2. PlaceOK'
    BY PlaceStep
  <2>3. \A i \in IdleTasks : uxPriority'[i] = 0
    BY <2>2, PriorityFacts DEF PlaceOK, IdleTasksReady, Filed
  <2> QED
    BY <2>1, <2>3 DEF IInv, ListOK
<1>2. CASE Quiet
  BY <1>1, <1>2, QuietCovers
<1>3. ASSUME NEW t, NEW preemptEqual, Readied(t, preemptEqual) PROVE Covered(k)'
  BY <1>1, <1>3, ReadiedCovers
<1>4. ASSUME NEW c \in Cores, NEW t, Takes(c, t) PROVE Covered(k)'
  BY <1>1, <1>4, TakesCovers
<1> QED
  BY <1>2, <1>3, <1>4, StepKinds, SwitchTakes

LEMMA RunInit == Init => StaysReady /\ TopStays /\ RankOK
<1> SUFFICES ASSUME Init, NEW c \in Cores PROVE ~Stays(c)
  BY DEF StaysReady, TopStays, RankOK
<1>1. pxCurrentTCBs[c] \in IdleTasks /\ pc = [t \in Tasks |-> IF xIsIdle(t) THEN "yield" ELSE "run"]
  BY IdleAssumption DEF Init
<1> QED
  BY <1>1 DEF Stays, Due, xIsIdle, Tasks

\* A settled core stays with its task.
LEMMA SettledStays == \A c \in Cores : Settled(c) => Stays(c) /\ ~Asked(c)
BY CoreFacts DEF Settled, Stays, Asked, Due, At

-----------------------------------------------------------------------------
(* The theorems.                                                           *)

\* The three parts that speak of cores, lists and locks.
THEOREM Invariance == Spec => []IInv
BY InitIInv, NextKeeps, PTL DEF Spec

\* The parts that rest on them: where each task is filed, where the idle tasks
\* stand, and what becomes of a yield.
THEOREM PlaceInvariance == Spec => [](IInv /\ PlaceOK /\ IdleOutside /\ YieldOK)
<1>1. Init => PlaceOK /\ IdleOutside /\ YieldOK
  BY InitPlace, YieldInit
<1>2. /\ IInv /\ PlaceOK /\ [Next]_vars => PlaceOK'
      /\ IInv /\ PlaceOK /\ IdleOutside /\ [Next]_vars => IdleOutside'
      /\ IInv /\ PlaceOK /\ IdleOutside /\ YieldOK /\ [Next]_vars => YieldOK'
  BY PlaceStep, IdleStep, YieldStep
<1> QED
  BY <1>1, <1>2, Invariance, PTL DEF Spec

\* Every variable keeps its type, in particular uxSchedulerSuspended never
\* counts beyond one and xPendedTicks never below zero.
THEOREM TypeCorrect == Spec => []TypeOK
<1>1. IInv => TypeOK
  BY DEF IInv, CoreOK, ListOK, LockOK, ControlTypes, TypeOK, RunStates
<1> QED
  BY <1>1, Invariance, PTL

\* No task runs on two cores and run states name the right cores, for any number
\* of cores, tasks and priorities.
THEOREM RunStateCorrect == Spec => []RunStateMatchesCore
<1>1. IInv => RunStateMatchesCore
  BY DEF IInv, CoreOK, Matches, RunStateMatchesCore
<1> QED
  BY <1>1, Invariance, PTL

\* One task at most has the scheduler suspended, and it keeps its core and the
\* task lock: prvCheckForRunStateChange never breaks this when it gives a
\* suspension back and takes it again.
THEOREM SuspensionCorrect == Spec => []SuspensionIsExclusive
<1>1. IInv => SuspensionIsExclusive
  BY DEF IInv, LockOK
<1> QED
  BY <1>1, Invariance, PTL

\* A TCB that vTaskDelete or the idle task gave back is the current task of no
\* core: it waits on xTasksWaitingTermination until it has been switched out.
THEOREM FreedTaskCorrect == Spec => []FreedTaskIsOffCore
<1>1. PlaceOK => FreedTaskIsOffCore
  BY DEF PlaceOK
<1> QED
  BY <1>1, PlaceInvariance, PTL

\* A ready task is on the list of its own priority, at or below
\* uxTopReadyPriority, whatever vTaskPrioritySet, the tick and the switch do.
THEOREM ReadyTasksCorrect == Spec => []ReadyTasksAreFound
<1>1. ASSUME IInv, PlaceOK, NEW p \in Priorities, NEW i \in 1 .. Len(pxReadyTasksLists[p])
      PROVE  p <= uxTopReadyPriority /\ uxPriority[pxReadyTasksLists[p][i]] = p
  <2>1. pxReadyTasksLists[p] \in Seq(Tasks)
    BY <1>1 DEF IInv, ListOK
  <2>2. pxReadyTasksLists[p][i] \in Tasks /\ InList(pxReadyTasksLists[p], pxReadyTasksLists[p][i])
    BY <1>1, <2>1, ElementOfSeq DEF InList
  <2> QED
    BY <1>1, <2>2 DEF PlaceOK, Filed
<1>2. IInv /\ PlaceOK => ReadyTasksAreFound
  BY <1>1 DEF ReadyTasksAreFound
<1> QED
  BY <1>2, PlaceInvariance, PTL

\* prvSelectHighestPriorityTask always finds a task, on any number of cores:
\* the other cores cannot run all the idle tasks.
THEOREM SwitchCorrect == Spec => []SwitchFindsTask
BY FindsTask, PlaceInvariance, PTL

\* No yield that prvYieldCore or vTaskSwitchContext leaves for later is lost,
\* through suspended regions, critical sections and ticks.
THEOREM YieldRequestCorrect == Spec => []YieldRequestIsKept
<1>1. YieldOK => YieldRequestIsKept
  BY DEF YieldOK
<1> QED
  BY <1>1, PlaceInvariance, PTL

\* What the cores that stay with their task run.
THEOREM RunInvariance == Spec => [](IInv /\ PlaceOK /\ StaysReady /\ TopStays /\ RankOK)
<1>1. /\ IInv /\ PlaceOK /\ StaysReady /\ [Next]_vars => StaysReady'
      /\ IInv /\ PlaceOK /\ StaysReady /\ TopStays /\ [Next]_vars => TopStays'
      /\ IInv /\ PlaceOK /\ StaysReady /\ RankOK /\ [Next]_vars => RankOK'
  BY StaysReadyStep, TopStaysStep, RankStep
<1> QED
  BY <1>1, RunInit, PlaceInvariance, PTL DEF Spec

\* With configRUN_MULTIPLE_PRIORITIES 0 the application tasks that go on running
\* have one priority: prvYieldForTask and prvSelectHighestPriorityTask get every
\* core that runs a lower one to switch.
THEOREM OnePriorityCorrect == Spec => []OnePriorityRuns
<1>1. ASSUME TopStays, OnePriority, NEW c \in Cores, Settled(c), ~xIsIdle(pxCurrentTCBs[c])
      PROVE  uxPriority[pxCurrentTCBs[c]] = uxTopReadyPriority
  BY <1>1, SettledStays DEF TopStays
<1>2. TopStays => OnePriorityRuns
  BY <1>1 DEF OnePriorityRuns
<1> QED
  BY <1>2, RunInvariance, PTL

\* At most as many waiting tasks outrank one that goes on running as there are
\* cores about to switch: one core asked by prvYieldForTask for each task that
\* becomes ready is enough, whatever happens before it switches.
THEOREM HighestPrioritiesCorrect == Spec => []HighestPrioritiesRun
<1>1. ASSUME IInv, RankOK, ~OnePriority, NEW c \in Cores, Settled(c)
      PROVE  Cardinality({t \in Tasks : Waiting(t) /\ uxPriority[t] > uxPriority[pxCurrentTCBs[c]]})
               <= Cardinality({d \in Cores : ~Settled(d)})
  <2>1. PICK v, k : v \in Tasks /\ v = pxCurrentTCBs[c] /\ k = uxPriority[v]
    BY <1>1 DEF IInv, CoreOK
  <2>2. PICK W, S, A, U : /\ W = {t \in Tasks : Waiting(t) /\ uxPriority[t] > k}
                          /\ S = Owed(k) /\ A = AskedCores /\ U = {d \in Cores : ~Settled(d)}
    OBVIOUS
  <2>3. IsFiniteSet(S) /\ Cardinality(S) <= Cardinality(A)
    BY <1>1, <2>1, <2>2, SettledStays DEF RankOK, Covered
  <2>4. W \in SUBSET S
    <3>1. ASSUME NEW t \in Tasks, Waiting(t) PROVE \A y \in Cores : pxCurrentTCBs[y] # t
      BY <1>1, <3>1, CoreFacts DEF Waiting, IInv, CoreOK, Matches
    <3> QED
      BY <2>2, <3>1 DEF Owed, Waiting
  <2>5. A \in SUBSET U /\ IsFiniteSet(U)
    <3>1. A \in SUBSET U /\ U \in SUBSET Cores
      BY <2>2, SettledStays DEF AskedCores
    <3> QED
      BY <3>1, CoresFinite, FS_Subset
  <2>6. /\ IsFiniteSet(W) /\ Cardinality(W) <= Cardinality(S)
        /\ IsFiniteSet(A) /\ Cardinality(A) <= Cardinality(U)
    BY <2>3, <2>4, <2>5, FS_Subset
  <2>7. /\ Cardinality(W) \in Nat /\ Cardinality(S) \in Nat
        /\ Cardinality(A) \in Nat /\ Cardinality(U) \in Nat
    BY <2>3, <2>5, <2>6, FS_CardinalityType
  <2>8. Cardinality(W) <= Cardinality(U)
    BY <2>3, <2>6, <2>7
  <2> QED
    BY <2>1, <2>2, <2>8
<1>2. IInv /\ RankOK => HighestPrioritiesRun
  BY <1>1 DEF HighestPrioritiesRun, OnePriority
<1> QED
  BY <1>2, RunInvariance, PTL
==============================================================================
