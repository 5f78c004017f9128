----------------------------- MODULE TicksProofs -----------------------------
(***************************************************************************)
(* Theorems about Ticks, for every set of tasks, every width of the tick   *)
(* count and every start value.                                            *)
(*                                                                         *)
(* IInv, the inductive invariant, is about lists, unblock time and event   *)
(* list items; from it the wrapping clock with its two lists implements    *)
(* SleepClock.  On it rest, each inductive with those before: CountOK      *)
(* (ticks raised are counted or pended), WaitOK (what is left of a wait    *)
(* ends it at the tick that was asked for), SleepOK (a sleeper's list item *)
(* wakes it then), PeriodOK (xTaskDelayUntil keeps the period) and AbortOK *)
(* (without xTaskAbortDelay nothing is marked as aborted).                 *)
(*                                                                         *)
(* Their hypotheses name calls that break them: xTaskCatchUpTicks can lose *)
(* ticks, an abort that comes too late ends the next wait, and no timeout  *)
(* is told from the one before when it is looked at a turn later.          *)
(***************************************************************************)
EXTENDS Ticks, TLAPS

\* A task is on one state list at most.
ListsApart ==
  /\ pxDelayedTaskList \cap pxOverflowDelayedTaskList = {}
  /\ xSuspendedTaskList \cap Delayed = {}
  /\ xReadyTasks \cap (Delayed \cup xSuspendedTaskList) = {}

\* Nobody on the current list should have been woken already.
DelayedAhead == \A t \in pxDelayedTaskList : xItemValue[t] > xTickCount

\* Only a running task is in the suspended region; xTaskAbortDelay holds a task
\* that is on no list.
RegionOK ==
  /\ step = "none" <=> suspendedBy = NoTask
  /\ step = "in" => suspendedBy \in xReadyTasks
  /\ step = "aborting" =>
       \E v \in Tasks : v \notin Delayed \cup xSuspendedTaskList \cup xReadyTasks

EventOK == xEventList \cap xPendingReadyList = {} /\ EventItemIsFree

IInv == TypeOK /\ ListsApart /\ UnblockTimeIsNotLate /\ DelayedAhead /\ RegionOK /\ EventOK

ListTypes ==
  /\ pxDelayedTaskList \subseteq Tasks /\ pxOverflowDelayedTaskList \subseteq Tasks
  /\ xItemValue \in [Tasks -> TickType]
  /\ xSuspendedTaskList \subseteq Tasks /\ xReadyTasks \subseteq Tasks

-----------------------------------------------------------------------------
(* Arithmetic of the tick count.                                           *)

\* A sum of two tick values wraps once at most.
LEMMA WrapIsTick ==
  ASSUME NEW a \in TickType, NEW b \in TickType
  PROVE  /\ Wrap(a + b) \in TickType
         /\ Wrap(a + b) = a + b \/ Wrap(a + b) = a + b - TickRange
         /\ Wrap(a + b) < a <=> a + b > portMAX_DELAY
         /\ b > 0 => Wrap(a + b) # a
BY TicksAssumption DEF TickType, TickRange, Wrap

\* A difference of two tick values is the time between them.
LEMMA MinusIsTick ==
  ASSUME NEW a \in TickType, NEW b \in TickType
  PROVE  /\ Minus(a, b) \in TickType
         /\ a # b => Minus(a, b) > 0
BY TicksAssumption DEF TickType, TickRange, Minus

\* The clock without wrap counts from zero.
LEMMA NowIsInt ==
  ASSUME TypeOK
  PROVE  Epoch \in Nat /\ Now \in Nat
<1>1. TickRange \in Nat /\ xNumOfOverflows \in Nat /\ xTickCount \in Nat
  BY TicksAssumption DEF TypeOK, TickType, TickRange
<1> QED BY <1>1 DEF Epoch, Now

\* The next tick is the next number of the clock without wrap.
LEMMA NextTick ==
  ASSUME TypeOK, CountTick
  PROVE  /\ xTickCount' \in TickType /\ xNumOfOverflows' \in Nat
         /\ Now \in Nat /\ Now' = Now + 1
         /\ Epoch \in Nat
         /\ Epoch' = IF xTickCount' = 0 THEN Epoch + TickRange ELSE Epoch
         /\ xTickCount' = Wrap(xTickCount + 1)
<1>1. TickRange \in Nat /\ xNumOfOverflows \in Nat /\ xTickCount \in TickType
  BY TicksAssumption DEF TypeOK, TickType, TickRange
<1>2. Epoch \in Nat
  BY <1>1 DEF Epoch
<1>3. (xNumOfOverflows + 1) * TickRange = xNumOfOverflows * TickRange + TickRange
  BY <1>1
<1>4. /\ xTickCount' = Wrap(xTickCount + 1)
      /\ xNumOfOverflows' = xNumOfOverflows + (IF xTickCount' = 0 THEN 1 ELSE 0)
  BY DEF CountTick
<1>5. CASE xTickCount' = 0
  <2>1. xTickCount = portMAX_DELAY
    BY <1>1, <1>4, <1>5, TicksAssumption DEF Wrap, TickRange, TickType
  <2>2. Epoch' = Epoch + TickRange
    BY <1>1, <1>3, <1>4, <1>5 DEF Epoch, TickRange
  <2> QED
    BY <1>1, <1>2, <1>4, <1>5, <2>1, <2>2, TicksAssumption DEF Now, TickRange, TickType
<1>6. CASE xTickCount' # 0
  <2>1. xTickCount' = xTickCount + 1 /\ xTickCount' \in TickType
    BY <1>1, <1>4, <1>6, TicksAssumption DEF Wrap, TickRange, TickType
  <2>2. Epoch' = Epoch
    BY <1>1, <1>4, <1>6 DEF Epoch, TickRange
  <2> QED
    BY <1>1, <1>2, <1>4, <1>6, <2>1, <2>2 DEF Now, TickType
<1> QED BY <1>5, <1>6

-----------------------------------------------------------------------------
(* What the list operations keep.                                          *)

\* Tasks moved to the ready list are on no other, and none joins a delayed list.
LEMMA MakeReadyKeeps ==
  ASSUME TypeOK, NEW S \in SUBSET Tasks,
         MakeReady(S, pxDelayedTaskList, pxOverflowDelayedTaskList),
         ListsApart
  PROVE  /\ ListTypes' /\ ListsApart'
         /\ xAsked' \in [Tasks -> Int]
         /\ \A t \in pxDelayedTaskList' : t \in pxDelayedTaskList /\ xItemValue'[t] = xItemValue[t]
BY TicksAssumption DEF TypeOK, MakeReady, ListTypes, ListsApart, Delayed, TickType

\* A running task put to sleep is on the list, with the value, of the tick n
\* from now, and the unblock time takes it into account.
LEMMA AddKeeps ==
  ASSUME TypeOK, ListsApart, UnblockTimeIsNotLate, DelayedAhead,
         NEW t \in xReadyTasks, NEW n \in TickType \ {0}, NEW b \in BOOLEAN,
         prvAddCurrentTaskToDelayedList(t, n, b), UNCHANGED clockVars
  PROVE  /\ ListTypes' /\ ListsApart' /\ UnblockTimeIsNotLate' /\ DelayedAhead'
         /\ xNextTaskUnblockTime' \in TickType
         /\ ucDelayAborted' \in [Tasks -> BOOLEAN]
         /\ xReadyTasks' = xReadyTasks \ {t}
         /\ \A u \in Tasks \ {t} : WakeOf(u)' = WakeOf(u)
         /\ WakeOf(t) = Awake /\ WakeOf(t)' \in {Forever, Now + n}
<1> DEFINE w == Wrap(xTickCount + n)
<1>1. /\ w \in TickType /\ w # xTickCount
      /\ w = xTickCount + n \/ w = xTickCount + n - TickRange
      /\ w < xTickCount <=> xTickCount + n > portMAX_DELAY
  BY WrapIsTick DEF TypeOK, TickType
<1>2. w = IF w < xTickCount THEN xTickCount + n - TickRange ELSE xTickCount + n
  BY <1>1, TicksAssumption DEF Wrap, TickType, TickRange, TypeOK
<1>3. t \in Tasks /\ t \notin Delayed /\ t \notin xSuspendedTaskList
  BY DEF TypeOK, ListsApart
<1>4. UNCHANGED <<xTickCount, xNumOfOverflows>> /\ Epoch' = Epoch /\ Now' = Now
  BY DEF clockVars, Epoch, Now
<1> HIDE DEF w
<1>5. CASE n = portMAX_DELAY /\ b
  <2>1. /\ pxDelayedTaskList' = pxDelayedTaskList
        /\ pxOverflowDelayedTaskList' = pxOverflowDelayedTaskList
        /\ xSuspendedTaskList' = xSuspendedTaskList \cup {t}
        /\ xItemValue' = xItemValue /\ xReadyTasks' = xReadyTasks \ {t}
        /\ xNextTaskUnblockTime' = xNextTaskUnblockTime
        /\ ucDelayAborted' = [ucDelayAborted EXCEPT ![t] = FALSE]
    BY <1>5 DEF prvAddCurrentTaskToDelayedList
  <2> QED
    BY <2>1, <1>3, <1>4 DEF TypeOK, ListTypes, ListsApart, UnblockTimeIsNotLate, DelayedAhead,
      Delayed, WakeOf, Awake, Forever
<1>6. CASE ~(n = portMAX_DELAY /\ b) /\ w < xTickCount
  <2>1. /\ pxDelayedTaskList' = pxDelayedTaskList
        /\ pxOverflowDelayedTaskList' = pxOverflowDelayedTaskList \cup {t}
        /\ xSuspendedTaskList' = xSuspendedTaskList
        /\ xItemValue' = [xItemValue EXCEPT ![t] = w] /\ xReadyTasks' = xReadyTasks \ {t}
        /\ xNextTaskUnblockTime' = xNextTaskUnblockTime
        /\ ucDelayAborted' = [ucDelayAborted EXCEPT ![t] = FALSE]
    BY <1>6 DEF prvAddCurrentTaskToDelayedList, w
  <2>2. /\ ListTypes' /\ ListsApart' /\ UnblockTimeIsNotLate' /\ DelayedAhead'
        /\ ucDelayAborted' \in [Tasks -> BOOLEAN]
    BY <2>1, <1>1, <1>3, <1>4 DEF TypeOK, ListTypes, ListsApart, UnblockTimeIsNotLate,
      DelayedAhead, Delayed
  <2>3. \A u \in Tasks \ {t} : WakeOf(u)' = WakeOf(u)
    BY <2>1, <1>3, <1>4 DEF WakeOf, TypeOK
  <2>4. WakeOf(t) = Awake /\ WakeOf(t)' = Epoch + TickRange + w
    BY <2>1, <1>3, <1>4 DEF WakeOf, Delayed, TypeOK
  <2>5. Epoch + TickRange + w = Now + n
    <3>1. w = xTickCount + n - TickRange
      BY <1>2, <1>6
    <3>2. Epoch \in Nat /\ xTickCount \in Int /\ n \in Int /\ TickRange \in Int
      BY NowIsInt, TicksAssumption DEF TypeOK, TickType, TickRange
    <3> QED BY <3>1, <3>2 DEF Now
  <2> QED BY <2>1, <2>2, <2>3, <2>4, <2>5 DEF TypeOK
<1>7. CASE ~(n = portMAX_DELAY /\ b) /\ ~(w < xTickCount)
  <2>1. /\ pxDelayedTaskList' = pxDelayedTaskList \cup {t}
        /\ pxOverflowDelayedTaskList' = pxOverflowDelayedTaskList
        /\ xSuspendedTaskList' = xSuspendedTaskList
        /\ xItemValue' = [xItemValue EXCEPT ![t] = w] /\ xReadyTasks' = xReadyTasks \ {t}
        /\ xNextTaskUnblockTime' = IF w < xNextTaskUnblockTime THEN w ELSE xNextTaskUnblockTime
        /\ ucDelayAborted' = [ucDelayAborted EXCEPT ![t] = FALSE]
    BY <1>7 DEF prvAddCurrentTaskToDelayedList, w
  <2>2. /\ ListTypes' /\ ListsApart' /\ UnblockTimeIsNotLate' /\ DelayedAhead'
        /\ ucDelayAborted' \in [Tasks -> BOOLEAN] /\ xNextTaskUnblockTime' \in TickType
    BY <2>1, <1>1, <1>3, <1>4, <1>7, TicksAssumption DEF TypeOK, ListTypes, ListsApart,
      UnblockTimeIsNotLate, DelayedAhead, Delayed, TickType
  <2>3. \A u \in Tasks \ {t} : WakeOf(u)' = WakeOf(u)
    BY <2>1, <1>3, <1>4 DEF WakeOf, TypeOK
  <2>4. WakeOf(t) = Awake /\ WakeOf(t)' = Epoch + w
    BY <2>1, <1>3, <1>4 DEF WakeOf, Delayed, TypeOK
  <2>5. Epoch + w = Now + n
    BY <1>2, <1>7, NowIsInt DEF Now, TickRange, TypeOK, TickType
  <2> QED BY <2>1, <2>2, <2>3, <2>4, <2>5
<1> QED BY <1>5, <1>6, <1>7

-----------------------------------------------------------------------------
\* A tick wakes the tasks that sleep until the next number of the clock, and
\* nobody else: none is left behind by the unblock time or by the wrap.
LEMMA TickKeeps ==
  ASSUME TypeOK, ListsApart, UnblockTimeIsNotLate, DelayedAhead, EventOK, CountTick
  PROVE  /\ ListTypes' /\ ListsApart' /\ UnblockTimeIsNotLate' /\ DelayedAhead' /\ EventOK'
         /\ xNextTaskUnblockTime' \in TickType /\ xAsked' \in [Tasks -> Int]
         /\ xEventList' \subseteq Tasks /\ xPendingReadyList' \subseteq Tasks
         /\ xReadyTasks \subseteq xReadyTasks'
         /\ xSuspendedTaskList' \subseteq xSuspendedTaskList
         /\ Delayed' \subseteq Delayed
         /\ \A t \in Tasks : WakeOf(t)' = IF WakeOf(t) = Now + 1 THEN Awake ELSE WakeOf(t)
<1> DEFINE tick == Wrap(xTickCount + 1)
           wrapped == tick = 0
           delayed == IF wrapped THEN pxOverflowDelayedTaskList ELSE pxDelayedTaskList
           overflow == IF wrapped THEN pxDelayedTaskList ELSE pxOverflowDelayedTaskList
           expired == Expired(delayed, tick)
<1>1. /\ tick \in TickType /\ xTickCount' = tick
      /\ Epoch \in Nat /\ Epoch' = IF wrapped THEN Epoch + TickRange ELSE Epoch
      /\ wrapped => xTickCount = portMAX_DELAY
      /\ ~wrapped => tick = xTickCount + 1
  <2>1. tick \in TickType /\ xTickCount' = tick /\ Epoch \in Nat
        /\ Epoch' = IF wrapped THEN Epoch + TickRange ELSE Epoch
    BY NextTick
  <2>2. (wrapped => xTickCount = portMAX_DELAY) /\ (~wrapped => tick = xTickCount + 1)
    BY TicksAssumption DEF TypeOK, TickType, TickRange, Wrap
  <2> QED BY <2>1, <2>2
<1>2. PICK next \in TickType :
        /\ IF wrapped THEN IsHeadValue(next, delayed) ELSE next = xNextTaskUnblockTime
        /\ IF tick >= next
           THEN /\ prvResetNextTaskUnblockTime(delayed \ expired)
                /\ MakeReady(expired, delayed, overflow)
                /\ LeaveEventLists(expired)
           ELSE /\ xNextTaskUnblockTime' = next
                /\ MakeReady({}, delayed, overflow)
                /\ UNCHANGED eventVars
  BY DEF CountTick, UnblockTimeAtTick
<1>3. wrapped => pxDelayedTaskList = {}
  BY <1>1 DEF DelayedAhead, TypeOK, TickType
<1>4. \A t \in delayed : next <= xItemValue[t]
  BY <1>2 DEF UnblockTimeIsNotLate, IsHeadValue
<1>5. /\ delayed \subseteq Tasks /\ overflow \subseteq Tasks /\ delayed \cap overflow = {}
      /\ Delayed = delayed \cup overflow
      /\ expired \subseteq delayed
      /\ \A t \in delayed : xItemValue[t] \in TickType /\ (t \in expired <=> xItemValue[t] <= tick)
  BY DEF TypeOK, ListsApart, Delayed, Expired
\* Whether or not the unblock time has come, the expired tasks are the ones that
\* become ready: before it there are none.
<1>6. tick < next => expired = {}
  BY <1>1, <1>4, <1>5 DEF TickType
<1>7. MakeReady(expired, delayed, overflow)
  BY <1>2, <1>6, <1>1 DEF TickType
<1>8. xEventList' = xEventList \ expired /\ xPendingReadyList' = xPendingReadyList \ expired
  BY <1>2, <1>6, <1>1 DEF TickType, LeaveEventLists, eventVars
<1>9. /\ xNextTaskUnblockTime' \in TickType
      /\ \A t \in delayed \ expired : xNextTaskUnblockTime' <= xItemValue[t]
  <2>1. CASE tick >= next
    <3>1. xNextTaskUnblockTime' \in {v \in TickType : IsHeadValue(v, delayed \ expired)}
      BY <1>2, <2>1 DEF prvResetNextTaskUnblockTime
    <3> QED BY <3>1 DEF IsHeadValue
  <2>2. CASE ~(tick >= next)
    BY <1>2, <1>4, <2>2
  <2> QED BY <2>1, <2>2
<1> HIDE DEF tick, expired
<1>10. /\ pxDelayedTaskList' = delayed \ expired
       /\ pxOverflowDelayedTaskList' = overflow \ expired
       /\ overflow \ expired = overflow
       /\ xSuspendedTaskList' = xSuspendedTaskList \ expired
       /\ xReadyTasks' = xReadyTasks \cup expired
       /\ xItemValue' = [t \in Tasks |-> IF t \in expired THEN 0 ELSE xItemValue[t]]
       /\ xAsked' = [t \in Tasks |-> IF t \in expired /\ pc[t] = "run" THEN 0 ELSE xAsked[t]]
  BY <1>5, <1>7 DEF MakeReady
<1>11. \A t \in delayed \ expired : xItemValue[t] > tick /\ xItemValue'[t] = xItemValue[t]
  BY <1>1, <1>5, <1>10 DEF TickType
<1>12. ListTypes' /\ xAsked' \in [Tasks -> Int]
  BY <1>5, <1>10, TicksAssumption DEF TypeOK, ListTypes, TickType
<1>13. ListsApart' /\ Delayed' \subseteq Delayed
  BY <1>5, <1>10 DEF ListsApart, Delayed
<1>14. UnblockTimeIsNotLate' /\ DelayedAhead'
  BY <1>1, <1>9, <1>10, <1>11 DEF UnblockTimeIsNotLate, DelayedAhead
<1>15. EventOK' /\ xEventList' \subseteq Tasks /\ xPendingReadyList' \subseteq Tasks
  BY <1>8, <1>10 DEF EventOK, EventItemIsFree, TypeOK
<1>16. ASSUME NEW t \in Tasks
       PROVE  WakeOf(t)' = IF WakeOf(t) = Now + 1 THEN Awake ELSE WakeOf(t)
  <2>1. Now + 1 = Epoch + xTickCount + 1 /\ Now + 1 = Epoch' + tick
    BY <1>1, TicksAssumption DEF Now, TypeOK, TickType, TickRange
  <2>2. CASE t \in expired
    <3>1. WakeOf(t)' = Awake
      BY <2>2, <1>5, <1>10 DEF WakeOf, ListsApart, Delayed
    <3>2. xItemValue[t] = tick
      <4>1. xItemValue[t] \in Nat /\ xItemValue[t] <= tick /\ t \in delayed
        BY <2>2, <1>5, TicksAssumption DEF TickType
      <4>2. CASE wrapped
        BY <4>1, <4>2
      <4>3. CASE ~wrapped
        BY <4>1, <4>3, <1>1 DEF DelayedAhead, TypeOK, TickType
      <4> QED BY <4>2, <4>3
    <3>3. WakeOf(t) = Epoch' + tick
      BY <2>2, <3>2, <1>1, <1>3, <1>5 DEF WakeOf
    <3> QED BY <3>1, <3>3, <2>1
  <2>3. CASE t \in delayed \ expired
    <3>1. WakeOf(t)' = Epoch' + xItemValue[t]
      BY <2>3, <1>10, <1>11 DEF WakeOf
    <3>2. WakeOf(t) = Epoch' + xItemValue[t]
      BY <2>3, <1>1, <1>3, <1>5 DEF WakeOf
    <3>3. WakeOf(t) # Now + 1
      BY <2>1, <2>3, <3>2, <1>1, <1>5, <1>11 DEF TickType
    <3> QED BY <3>1, <3>2, <3>3
  <2>4. CASE t \in overflow
    <3>1. ~wrapped /\ t \notin expired
      BY <2>4, <1>3, <1>5
    <3>2. t \notin pxDelayedTaskList' /\ t \in pxOverflowDelayedTaskList' /\ xItemValue'[t] = xItemValue[t]
      BY <2>4, <3>1, <1>5, <1>10
    <3>3. WakeOf(t)' = Epoch + TickRange + xItemValue[t] /\ WakeOf(t) = Epoch + TickRange + xItemValue[t]
      BY <2>4, <3>1, <3>2, <1>1, <1>5 DEF WakeOf
    <3>4. WakeOf(t) # Now + 1
      BY <3>1, <3>3, <1>1, TicksAssumption DEF Now, TypeOK, TickType, TickRange
    <3> QED BY <3>3, <3>4
  <2>5. CASE t \notin Delayed
    <3>1. WakeOf(t)' = WakeOf(t) /\ WakeOf(t) \in {Awake, Forever}
      BY <2>5, <1>5, <1>10 DEF WakeOf, Delayed
    <3>2. Now + 1 > 0
      BY <1>1 DEF Now, TypeOK, TickType
    <3> QED BY <3>1, <3>2 DEF Awake, Forever
  <2> QED BY <2>2, <2>3, <2>4, <2>5, <1>5
<1> QED
  BY <1>8, <1>9, <1>10, <1>12, <1>13, <1>14, <1>15, <1>16

-----------------------------------------------------------------------------
(* The inductive invariant.                                                *)

\* The parts of IInv that are about the lists and the clock hold while both are
\* unchanged.
LEMMA SameLists ==
  ASSUME IInv, UNCHANGED <<tickVars, listVars, eventVars>>
  PROVE  /\ ListTypes' /\ ListsApart' /\ UnblockTimeIsNotLate' /\ DelayedAhead' /\ EventOK'
         /\ xTickCount' \in TickType /\ xNumOfOverflows' \in Nat
         /\ xNextTaskUnblockTime' \in TickType
         /\ xEventList' \subseteq Tasks /\ xPendingReadyList' \subseteq Tasks
         /\ Delayed' = Delayed
BY DEF IInv, tickVars, clockVars, listVars, eventVars, TypeOK, ListTypes, ListsApart,
  UnblockTimeIsNotLate, DelayedAhead, EventOK, EventItemIsFree, Delayed

\* It holds when the scheduler starts.
LEMMA InitKeeps == Init => IInv
BY TicksAssumption DEF Init, IInv, TypeOK, ListsApart, UnblockTimeIsNotLate, DelayedAhead,
  RegionOK, EventOK, EventItemIsFree, Delayed, TickType, Steps

\* The steps that leave all lists and the clock alone.
LEMMA ControlKeeps ==
  ASSUME IInv, NEW t \in Tasks,
         \/ vTaskSuspendAll(t) \/ EndRegion(t) \/ ResumeAllDone(t)
         \/ (\E n \in Delays : xQueueReceive(t, n)) \/ LeaveReceive(t) \/ CheckTimedOut(t)
         \/ xTaskCatchUpTicks(t) \/ \E n \in 1 .. MaxPendedTicks : FinishCatchUp(t, n)
  PROVE  IInv' /\ UNCHANGED <<tickVars, listVars>>
<1> USE DEF IInv
<1>0. t \in Tasks /\ t # NoTask /\ TypeOK /\ 0 \in TickType /\ Delays \subseteq TickType
      /\ MaxPendedTicks \in Nat /\ Now \in Nat
  BY TicksAssumption, NowIsInt DEF TickType
<1> USE DEF TypeOK
<1>1. CASE vTaskSuspendAll(t)
  BY <1>0, <1>1, SameLists DEF vTaskSuspendAll, Runs, RegionOK, ListTypes, waitVars, periodVars,
    pendVars, abortVars, listVars, tickVars, Steps
<1>2. CASE EndRegion(t)
  BY <1>0, <1>2, SameLists DEF EndRegion, InRegion, GoTo, RegionOK, ListTypes, waitVars, periodVars,
    pendVars, abortVars, listVars, tickVars, Steps
<1>3. CASE ResumeAllDone(t)
  BY <1>0, <1>3, SameLists DEF ResumeAllDone, InRegion, RegionOK, ListTypes, waitVars, periodVars,
    pendVars, abortVars, listVars, tickVars, Steps
<1>4. CASE \E n \in Delays : xQueueReceive(t, n)
  <2>1. PICK n \in Delays : xQueueReceive(t, n)
    BY <1>4
  <2>2. /\ pc' \in [Tasks -> {"run", "wait"}]
        /\ xTicksToWait' \in [Tasks -> TickType]
        /\ xTimeOut' \in [Tasks -> Nat \X TickType]
    BY <1>0, <2>1 DEF xQueueReceive
  <2>3. xAsked' \in [Tasks -> Int]
    <3>1. n \in Nat
      BY <1>0 DEF TickType
    <3>2. (IF n = portMAX_DELAY THEN Forever ELSE Now + n) \in Int
      BY <1>0, <3>1 DEF Forever
    <3> QED BY <2>1, <3>2 DEF xQueueReceive
  <2> QED
    BY <2>1, <2>2, <2>3, SameLists DEF xQueueReceive, RegionOK, ListTypes, periodVars,
      pendVars, listVars, tickVars, regionVars
<1>5. CASE LeaveReceive(t)
  BY <1>0, <1>5, SameLists DEF LeaveReceive, Return, RegionOK, ListTypes, periodVars,
    pendVars, abortVars, listVars, tickVars, regionVars
<1>6. CASE CheckTimedOut(t)
  <2>1. /\ pc' \in [Tasks -> {"run", "wait"}] /\ xAsked' \in [Tasks -> Int]
        /\ xTicksToWait' \in [Tasks -> TickType]
        /\ xTimeOut' \in [Tasks -> Nat \X TickType]
    <3>1. CASE Return(t) /\ xAsked' = [xAsked EXCEPT ![t] = 0]
      BY <1>0, <3>1 DEF Return
    <3>2. CASE /\ xTicksToWait' = IF ucDelayAborted[t] THEN xTicksToWait
                                  ELSE [xTicksToWait EXCEPT ![t] = 0]
               /\ UNCHANGED <<pc, xTimeOut, xAsked>>
      BY <1>0, <3>2
    <3> QED BY <1>6, <3>1, <3>2 DEF CheckTimedOut
  <2>2. ucDelayAborted' \in [Tasks -> BOOLEAN]
    BY <1>6 DEF CheckTimedOut
  <2> QED
    BY <1>0, <1>6, <2>1, <2>2, SameLists DEF CheckTimedOut, InRegion, GoTo, RegionOK, ListTypes,
      periodVars, pendVars, listVars, tickVars, Steps
<1>7. CASE xTaskCatchUpTicks(t)
  BY <1>0, <1>7, SameLists DEF xTaskCatchUpTicks, InRegion, GoTo, RegionOK, ListTypes, waitVars,
    periodVars, abortVars, listVars, tickVars, Steps
<1>8. CASE \E n \in 1 .. MaxPendedTicks : FinishCatchUp(t, n)
  BY <1>0, <1>8, SameLists DEF FinishCatchUp, InRegion, GoTo, RegionOK, ListTypes, waitVars,
    periodVars, abortVars, listVars, tickVars, Steps
<1> QED BY <1>1, <1>2, <1>3, <1>4, <1>5, <1>6, <1>7, <1>8

-----------------------------------------------------------------------------
(* Each step of Ticks is a step of SleepClock, or none.                    *)

Wakes == [t \in Tasks |-> WakeOf(t)]
SleepStep == Sleepers!Next \/ UNCHANGED <<Now, Wakes>>

\* Lists and clock unchanged: no step of the clock.
LEMMA SameSleep ==
  ASSUME UNCHANGED <<tickVars, listVars>>
  PROVE  SleepStep
BY DEF tickVars, clockVars, listVars, SleepStep, Wakes, WakeOf, Now, Epoch

\* One task goes to sleep and nobody else is affected.
LEMMA AddSleeps ==
  ASSUME TypeOK, NEW t \in Tasks, NEW n \in TickType \ {0}, Now' = Now,
         \A u \in Tasks \ {t} : WakeOf(u)' = WakeOf(u),
         WakeOf(t) = Awake, WakeOf(t)' \in {Forever, Now + n}
  PROVE  SleepStep
<1>1. Wakes' = [Wakes EXCEPT ![t] = WakeOf(t)']
  BY DEF Wakes
<1>2. n \in 1 .. portMAX_DELAY
  BY TicksAssumption DEF TickType
<1>3. CASE WakeOf(t)' = Now + n
  <2>1. Sleepers!Sleep(t, n)
    BY <1>1, <1>3 DEF Sleepers!Sleep, Sleepers!Awake, Awake, Wakes
  <2> QED BY <1>2, <2>1 DEF SleepStep, Sleepers!Next
<1>4. CASE WakeOf(t)' = Forever
  <2>1. Sleepers!Suspend(t)
    BY <1>1, <1>4 DEF Sleepers!Suspend, Sleepers!Forever, Forever, Wakes
  <2> QED BY <2>1 DEF SleepStep, Sleepers!Next
<1> QED BY <1>3, <1>4

\* Tasks made ready at an unchanged clock are roused, the others sleep on.
LEMMA MakeReadyRouses ==
  ASSUME TypeOK, NEW S \in SUBSET Tasks, UNCHANGED clockVars,
         MakeReady(S, pxDelayedTaskList, pxOverflowDelayedTaskList)
  PROVE  SleepStep
<1>1. Now' = Now /\ Epoch' = Epoch
  BY DEF clockVars, Now, Epoch
<1>2. \A t \in Tasks : WakeOf(t)' = IF t \in S THEN Awake ELSE WakeOf(t)
  BY <1>1 DEF MakeReady, WakeOf
<1>3. Sleepers!Rouse(S)
  BY <1>1, <1>2 DEF Sleepers!Rouse, Sleepers!Awake, Awake, Wakes
<1> QED BY <1>3 DEF SleepStep, Sleepers!Next

\* A counted tick is a step Advance of the clock without wrap.
LEMMA TickAdvances ==
  ASSUME IInv, CountTick
  PROVE  SleepStep
<1>1. \A t \in Tasks : WakeOf(t)' = IF WakeOf(t) = Now + 1 THEN Awake ELSE WakeOf(t)
  BY TickKeeps DEF IInv
<1>2. Now' = Now + 1
  BY NextTick DEF IInv
<1>3. Sleepers!Advance
  BY <1>1, <1>2 DEF Sleepers!Advance, Sleepers!Awake, Awake
<1> QED BY <1>3 DEF SleepStep, Sleepers!Next

-----------------------------------------------------------------------------
(* The steps that move tasks.                                              *)

\* The two steps that count a tick.
LEMMA TickStep ==
  ASSUME IInv, xTaskIncrementTick \/ \E t \in Tasks : CountPendedTick(t)
  PROVE  IInv' /\ SleepStep
<1> USE DEF IInv
<1>1. CASE xTaskIncrementTick /\ suspendedBy = NoTask
  <2>1. CountTick /\ UNCHANGED <<xPendedTicks, regionVars, waitVars, periodVars, abortVars, xPended>>
        /\ xTicksRaised' = xTicksRaised + 1
    BY <1>1 DEF xTaskIncrementTick
  <2>2. RegionOK' /\ xTicksRaised' \in Nat
    BY <1>1, <2>1 DEF RegionOK, regionVars, TypeOK
  <2> QED
    BY <2>1, <2>2, TickKeeps, NextTick, TickAdvances
    DEF TypeOK, ListTypes, regionVars, waitVars, periodVars, abortVars
<1>2. CASE xTaskIncrementTick /\ suspendedBy # NoTask
  <2>1. /\ UNCHANGED <<tickVars, listVars, eventVars, xAsked, regionVars, waitVars, periodVars,
                       abortVars, xPended>>
        /\ xTicksRaised' = xTicksRaised + 1 /\ xPendedTicks' = xPendedTicks + 1
    BY <1>2 DEF xTaskIncrementTick
  <2>2. SleepStep
    BY <2>1, SameSleep
  <2>3. xTicksRaised' \in Nat /\ xPendedTicks' \in Nat
    BY <2>1 DEF TypeOK
  <2> QED
    BY <2>1, <2>2, <2>3, SameLists DEF TypeOK, ListTypes, RegionOK, listVars, regionVars, waitVars,
      periodVars, abortVars
<1>3. CASE \E t \in Tasks : CountPendedTick(t)
  <2>1. PICK t \in Tasks : CountPendedTick(t)
    BY <1>3
  <2>2. CountTick /\ UNCHANGED <<regionVars, waitVars, periodVars, abortVars, xPended, xTicksRaised>>
        /\ xPendedTicks' \in Nat /\ step = "resuming"
    BY <2>1 DEF CountPendedTick, InRegion, TypeOK
  <2>3. RegionOK'
    BY <2>2 DEF RegionOK, regionVars
  <2> QED
    BY <2>2, <2>3, TickKeeps, NextTick, TickAdvances
    DEF TypeOK, ListTypes, regionVars, waitVars, periodVars, abortVars
<1> QED BY <1>1, <1>2, <1>3

\* xTaskDelayUntil's block time is a number of ticks to come.
LEMMA DelayAhead ==
  ASSUME TypeOK, NEW t \in Tasks, NEW w \in TickType, ShouldDelay(pxPreviousWakeTime[t], w)
  PROVE  Minus(w, xTickCount) \in TickType \ {0}
<1>1. xTickCount \in TickType /\ pxPreviousWakeTime[t] \in TickType
  BY DEF TypeOK
<1>2. w # xTickCount
  BY <1>1, TicksAssumption DEF ShouldDelay, TickType
<1> QED BY <1>1, <1>2, MinusIsTick

\* The steps in which the running task puts itself to sleep.
LEMMA BlockStep ==
  ASSUME IInv, NEW t \in Tasks,
         \/ \E n \in Delays : vTaskDelay(t, n)
         \/ \E n \in Periods : xTaskDelayUntil(t, n)
         \/ CheckAndBlock(t)
  PROVE  IInv' /\ SleepStep
<1> USE DEF IInv
<1>0. /\ t # NoTask /\ Now \in Nat
      /\ Delays \subseteq TickType \ {0} /\ Periods \subseteq TickType \ {0} /\ TickType \subseteq Nat
      /\ xTickCount \in TickType /\ portMAX_DELAY \in TickType \ {0}
  BY TicksAssumption, NowIsInt DEF TypeOK, TickType
<1>a. /\ InRegion(t, "in") /\ GoTo("done") /\ t \in xReadyTasks
      /\ UNCHANGED clockVars /\ Now' = Now
  BY DEF vTaskDelay, xTaskDelayUntil, CheckAndBlock, InRegion, RegionOK, clockVars, Now, Epoch
<1>b. RegionOK' /\ suspendedBy' \in Tasks \cup {NoTask} /\ step' \in Steps
  BY <1>0, <1>a DEF RegionOK, InRegion, GoTo, Steps
<1>c. UNCHANGED <<xTickCount, xNumOfOverflows>>
  BY <1>a DEF clockVars
<1>1. CASE \E n \in Delays : vTaskDelay(t, n)
  <2>1. PICK n \in Delays : vTaskDelay(t, n)
    BY <1>1
  <2>2. n \in TickType \ {0} /\ prvAddCurrentTaskToDelayedList(t, n, FALSE)
        /\ UNCHANGED <<eventVars, waitVars, periodVars, pendVars, xAbortedWaits>>
    BY <1>0, <2>1 DEF vTaskDelay
  <2>3. xAsked' \in [Tasks -> Int]
    <3>1. Now + n \in Int
      BY <1>0, <2>2
    <3> QED BY <2>1, <3>1 DEF vTaskDelay, TypeOK
  <2>4. EventOK'
    BY <1>a, <2>2, AddKeeps DEF EventOK, EventItemIsFree, eventVars
  <2>5. SleepStep
    BY <1>a, <2>2, AddKeeps, AddSleeps
  <2> QED
    BY <1>a, <1>b, <1>c, <2>2, <2>3, <2>4, <2>5, AddKeeps
    DEF TypeOK, ListTypes, eventVars, waitVars, periodVars, pendVars
<1>2. CASE \E n \in Periods : xTaskDelayUntil(t, n)
  <2>1. PICK n \in Periods : xTaskDelayUntil(t, n)
    BY <1>2
  <2> DEFINE w == Wrap(pxPreviousWakeTime[t] + n)
  <2>2. w \in TickType
    BY <1>0, WrapIsTick DEF TypeOK
  <2>3. /\ pxPreviousWakeTime' \in [Tasks -> TickType]
        /\ xPreviousAsked' \in [Tasks -> Nat]
        /\ xPreviousAsked'[t] \in Int
        /\ UNCHANGED <<eventVars, waitVars, pendVars, xAbortedWaits>>
    BY <1>0, <2>1, <2>2 DEF xTaskDelayUntil, TypeOK
  <2>4. CASE ShouldDelay(pxPreviousWakeTime[t], w)
    <3> DEFINE m == Minus(w, xTickCount)
    <3>1. m \in TickType \ {0} /\ prvAddCurrentTaskToDelayedList(t, m, FALSE)
      BY <2>1, <2>2, <2>4, DelayAhead DEF xTaskDelayUntil
    <3>2. xAsked' \in [Tasks -> Int]
      BY <2>1, <2>3, <2>4 DEF xTaskDelayUntil, TypeOK
    <3> HIDE DEF m
    <3>3. EventOK'
      BY <1>a, <2>3, <3>1, AddKeeps DEF EventOK, EventItemIsFree, eventVars
    <3>4. SleepStep
      BY <1>a, <3>1, AddKeeps, AddSleeps
    <3> QED
      BY <1>a, <1>b, <1>c, <2>3, <3>1, <3>2, <3>3, <3>4, AddKeeps
      DEF TypeOK, ListTypes, eventVars, waitVars, pendVars
  <2>5. CASE ~ShouldDelay(pxPreviousWakeTime[t], w)
    <3>1. UNCHANGED <<xNextTaskUnblockTime, listVars, ucDelayAborted, xAsked>>
      BY <2>1, <2>5 DEF xTaskDelayUntil
    <3>2. UNCHANGED <<tickVars, listVars, eventVars>>
      BY <1>a, <2>3, <3>1 DEF tickVars
    <3>3. SleepStep
      BY <3>2, SameSleep
    <3> QED
      BY <1>b, <2>3, <3>1, <3>2, <3>3, SameLists DEF TypeOK, ListTypes, waitVars, pendVars
  <2> QED BY <2>4, <2>5
<1>3. CASE CheckAndBlock(t)
  <2> DEFINE left == IF WaitsForever(t) THEN portMAX_DELAY ELSE xTicksToWait[t] - Elapsed(t)
  <2>1. left \in TickType \ {0}
    <3>1. CASE WaitsForever(t)
      BY <1>0, <3>1
    <3>2. CASE ~WaitsForever(t)
      <4>1. xTicksToWait[t] \in TickType /\ Elapsed(t) \in TickType
        BY <1>0, MinusIsTick DEF Elapsed, TypeOK
      <4>2. ~(Elapsed(t) >= xTicksToWait[t])
        BY <1>3, <3>2 DEF CheckAndBlock, TimedOut
      <4> QED BY <3>2, <4>1, <4>2, TicksAssumption DEF TickType
    <3> QED BY <3>1, <3>2
  <2>2. /\ xTicksToWait' = [xTicksToWait EXCEPT ![t] = left]
        /\ xTimeOut' = TimeCaptured(t)
        /\ UNCHANGED <<pc, xPendingReadyList, periodVars, pendVars, xAbortedWaits, xAsked>>
        /\ \/ /\ xEventList' = xEventList \cup {t}
              /\ prvAddCurrentTaskToDelayedList(t, left, TRUE)
           \/ UNCHANGED <<xEventList, listVars, xNextTaskUnblockTime, ucDelayAborted>>
    BY <1>3 DEF CheckAndBlock
  <2> HIDE DEF left
  <2>3. xTicksToWait' \in [Tasks -> TickType] /\ xTimeOut' \in [Tasks -> Nat \X TickType]
    BY <2>1, <2>2 DEF TypeOK, TimeCaptured
  <2>4. CASE xEventList' = xEventList \cup {t} /\ prvAddCurrentTaskToDelayedList(t, left, TRUE)
    <3>1. EventOK'
      BY <1>a, <2>1, <2>2, <2>4, AddKeeps DEF EventOK, EventItemIsFree
    <3>2. SleepStep
      BY <1>a, <2>1, <2>4, AddKeeps, AddSleeps
    <3> QED
      BY <1>a, <1>b, <1>c, <2>1, <2>2, <2>3, <2>4, <3>1, <3>2, AddKeeps
      DEF TypeOK, ListTypes, periodVars, pendVars
  <2>5. CASE UNCHANGED <<xEventList, listVars, xNextTaskUnblockTime, ucDelayAborted>>
    <3>1. UNCHANGED <<tickVars, listVars, eventVars>>
      BY <1>a, <2>2, <2>5 DEF tickVars, eventVars
    <3>2. SleepStep
      BY <3>1, SameSleep
    <3> QED
      BY <1>b, <2>2, <2>3, <2>5, <3>1, <3>2, SameLists DEF TypeOK, ListTypes, periodVars, pendVars
  <2> QED BY <2>2, <2>4, <2>5
<1> QED BY <1>1, <1>2, <1>3

\* v is a head value of S, so nobody in S wakes before it.
LEMMA ResetKeeps ==
  ASSUME NEW S, prvResetNextTaskUnblockTime(S)
  PROVE  /\ xNextTaskUnblockTime' \in TickType
         /\ \A t \in S : xNextTaskUnblockTime' <= xItemValue[t]
BY DEF prvResetNextTaskUnblockTime, IsHeadValue

\* The steps that make tasks ready without a tick.
LEMMA RouseStep ==
  ASSUME IInv, NEW t \in Tasks,
         \/ xTaskResumeAll(t) \/ xTaskRemoveFromEventList(t) \/ FinishAbort(t) \/ vTaskResume(t)
  PROVE  IInv' /\ SleepStep
<1> USE DEF IInv
<1>1. CASE xTaskResumeAll(t)
  <2> DEFINE S == xPendingReadyList
  <2>1. /\ InRegion(t, "done") /\ GoTo("resuming") /\ xPendingReadyList' = {}
        /\ MakeReady(S, pxDelayedTaskList, pxOverflowDelayedTaskList)
        /\ UNCHANGED <<clockVars, waitVars, periodVars, pendVars, abortVars, xEventList>>
    BY <1>1 DEF xTaskResumeAll
  <2>2. S \in SUBSET Tasks
    BY DEF TypeOK
  <2>3. xNextTaskUnblockTime' \in TickType /\ UnblockTimeIsNotLate'
    <3>1. CASE S # {}
      <4>1. prvResetNextTaskUnblockTime(pxDelayedTaskList \ S)
        BY <1>1, <3>1 DEF xTaskResumeAll
      <4>2. pxDelayedTaskList' = pxDelayedTaskList \ S
        BY <2>1 DEF MakeReady
      <4> QED BY <2>1, <2>2, <4>1, <4>2, ResetKeeps, MakeReadyKeeps DEF UnblockTimeIsNotLate
    <3>2. CASE S = {}
      <4>1. UNCHANGED xNextTaskUnblockTime
        BY <1>1, <3>2 DEF xTaskResumeAll
      <4> QED BY <2>1, <2>2, <4>1, MakeReadyKeeps DEF UnblockTimeIsNotLate, TypeOK
    <3> QED BY <3>1, <3>2
  <2>4. DelayedAhead'
    BY <2>1, <2>2, MakeReadyKeeps DEF DelayedAhead, clockVars
  <2>5. EventOK'
    BY <2>1 DEF EventOK, EventItemIsFree, MakeReady
  <2>6. RegionOK' /\ step' \in Steps /\ suspendedBy' = suspendedBy
    BY <2>1 DEF RegionOK, InRegion, GoTo, Steps
  <2>7. SleepStep
    BY <2>1, <2>2, MakeReadyRouses
  <2> QED
    BY <2>1, <2>2, <2>3, <2>4, <2>5, <2>6, <2>7, MakeReadyKeeps
    DEF TypeOK, ListTypes, clockVars, waitVars, periodVars, pendVars, abortVars
<1>2. CASE xTaskRemoveFromEventList(t) /\ suspendedBy = NoTask
  <2>1. /\ MakeReady({t}, pxDelayedTaskList, pxOverflowDelayedTaskList)
        /\ xEventList' = xEventList \ {t} /\ UNCHANGED xPendingReadyList
        /\ UNCHANGED <<tickVars, regionVars, waitVars, periodVars, pendVars, abortVars>>
        /\ t \notin xPendingReadyList
    BY <1>2 DEF xTaskRemoveFromEventList, EventOK
  <2>2. UnblockTimeIsNotLate' /\ DelayedAhead'
    BY <2>1, MakeReadyKeeps DEF UnblockTimeIsNotLate, DelayedAhead, tickVars, clockVars
  <2>3. EventOK'
    BY <2>1 DEF EventOK, EventItemIsFree, MakeReady
  <2>4. RegionOK'
    BY <1>2, <2>1 DEF RegionOK, regionVars
  <2>5. SleepStep
    BY <2>1, MakeReadyRouses DEF tickVars
  <2> QED
    BY <2>1, <2>2, <2>3, <2>4, <2>5, MakeReadyKeeps DEF TypeOK, ListTypes, tickVars, clockVars,
      regionVars, waitVars, periodVars, pendVars, abortVars
<1>3. CASE xTaskRemoveFromEventList(t) /\ suspendedBy # NoTask
  <2>1. /\ t \in xEventList
        /\ xEventList' = xEventList \ {t} /\ xPendingReadyList' = xPendingReadyList \cup {t}
        /\ UNCHANGED <<listVars, xAsked>>
        /\ UNCHANGED <<tickVars, regionVars, waitVars, periodVars, pendVars, abortVars>>
    BY <1>3 DEF xTaskRemoveFromEventList
  <2>2. SleepStep
    BY <2>1, SameSleep
  <2> QED
    BY <2>1, <2>2 DEF TypeOK, ListsApart, UnblockTimeIsNotLate, DelayedAhead, RegionOK, EventOK,
      EventItemIsFree, Delayed, listVars, tickVars, clockVars, regionVars, waitVars, periodVars,
      pendVars, abortVars
<1>4. CASE FinishAbort(t)
  <2> DEFINE u == CHOOSE v \in Tasks : v \notin Delayed \cup xSuspendedTaskList \cup xReadyTasks
  <2>1. /\ InRegion(t, "aborting") /\ GoTo("done")
        /\ MakeReady({u}, pxDelayedTaskList, pxOverflowDelayedTaskList)
        /\ xEventList' = xEventList \ {u} /\ xPendingReadyList' = xPendingReadyList \ {u}
        /\ ucDelayAborted' \in [Tasks -> BOOLEAN]
        /\ xAbortedWaits' = xAbortedWaits \cup {v \in {u} : pc[v] = "wait"}
        /\ UNCHANGED <<tickVars, waitVars, periodVars, pendVars>>
    BY <1>4 DEF FinishAbort, LeaveEventLists, TypeOK
  <2>2. u \in Tasks
    BY <2>1 DEF InRegion, RegionOK
  <2> HIDE DEF u
  <2>3. UnblockTimeIsNotLate' /\ DelayedAhead'
    BY <2>1, <2>2, MakeReadyKeeps DEF UnblockTimeIsNotLate, DelayedAhead, tickVars, clockVars
  <2>4. EventOK'
    BY <2>1 DEF EventOK, EventItemIsFree, MakeReady
  <2>5. RegionOK' /\ step' \in Steps /\ suspendedBy' = suspendedBy
    BY <2>1 DEF RegionOK, InRegion, GoTo, Steps
  <2>6. SleepStep
    BY <2>1, <2>2, MakeReadyRouses DEF tickVars
  <2> QED
    BY <2>1, <2>2, <2>3, <2>4, <2>5, <2>6, MakeReadyKeeps
    DEF TypeOK, ListTypes, tickVars, clockVars, waitVars, periodVars, pendVars
<1>5. CASE vTaskResume(t)
  <2>1. /\ suspendedBy = NoTask /\ ~HasEventItem(t)
        /\ MakeReady({t}, pxDelayedTaskList, pxOverflowDelayedTaskList)
        /\ UNCHANGED <<tickVars, eventVars, regionVars, waitVars, periodVars, pendVars, abortVars>>
    BY <1>5 DEF vTaskResume
  <2>2. UnblockTimeIsNotLate' /\ DelayedAhead'
    BY <2>1, MakeReadyKeeps DEF UnblockTimeIsNotLate, DelayedAhead, tickVars, clockVars
  <2>3. EventOK'
    BY <2>1 DEF EventOK, EventItemIsFree, MakeReady, HasEventItem, eventVars
  <2>4. RegionOK'
    BY <2>1 DEF RegionOK, regionVars
  <2>5. SleepStep
    BY <2>1, MakeReadyRouses DEF tickVars
  <2> QED
    BY <2>1, <2>2, <2>3, <2>4, <2>5, MakeReadyKeeps DEF TypeOK, ListTypes, tickVars, clockVars,
      eventVars, regionVars, waitVars, periodVars, pendVars, abortVars
<1> QED BY <1>1, <1>2, <1>3, <1>4, <1>5

\* The steps that take a task off its list: to no list, or to the suspended one.
LEMMA RemoveStep ==
  ASSUME IInv, NEW t \in Tasks,
         (\E u \in Tasks : xTaskAbortDelay(t, u)) \/ vTaskSuspend(t)
  PROVE  IInv' /\ SleepStep
<1> USE DEF IInv
<1>1. CASE \E u \in Tasks : xTaskAbortDelay(t, u)
  <2>1. PICK u \in Tasks : xTaskAbortDelay(t, u)
    BY <1>1
  <2>2. /\ InRegion(t, "in") /\ GoTo("aborting") /\ Blocked(u)
        /\ pxDelayedTaskList' = pxDelayedTaskList \ {u}
        /\ pxOverflowDelayedTaskList' = pxOverflowDelayedTaskList \ {u}
        /\ xSuspendedTaskList' = xSuspendedTaskList \ {u}
        /\ UNCHANGED <<tickVars, xReadyTasks, xItemValue, eventVars, waitVars, periodVars,
                       pendVars, abortVars, xAsked>>
    BY <2>1 DEF xTaskAbortDelay
  <2>3. u \notin xReadyTasks
    BY <2>2 DEF Blocked, ListsApart
  <2>4. ListsApart' /\ UnblockTimeIsNotLate' /\ DelayedAhead' /\ EventOK'
    BY <2>2 DEF ListsApart, Delayed, UnblockTimeIsNotLate, DelayedAhead, EventOK, EventItemIsFree,
      eventVars, tickVars, clockVars
  <2>5. RegionOK' /\ step' \in Steps /\ suspendedBy' = suspendedBy
    BY <2>2, <2>3 DEF RegionOK, InRegion, GoTo, Delayed, Steps
  <2>6. Now' = Now /\ Epoch' = Epoch
    BY <2>2 DEF tickVars, clockVars, Now, Epoch
  <2>7. \A v \in Tasks : WakeOf(v)' = IF v \in {u} THEN Awake ELSE WakeOf(v)
    BY <2>2, <2>6 DEF WakeOf
  <2>8. Sleepers!Rouse({u})
    BY <2>6, <2>7 DEF Sleepers!Rouse, Sleepers!Awake, Awake
  <2>9. SleepStep
    BY <2>8 DEF SleepStep, Sleepers!Next
  <2> QED
    BY <2>2, <2>4, <2>5, <2>9 DEF TypeOK, tickVars, clockVars, eventVars, waitVars, periodVars,
      pendVars, abortVars
<1>2. CASE vTaskSuspend(t)
  <2>1. /\ suspendedBy = NoTask /\ t \notin xReadyTasks
        /\ pxDelayedTaskList' = pxDelayedTaskList \ {t}
        /\ pxOverflowDelayedTaskList' = pxOverflowDelayedTaskList \ {t}
        /\ xSuspendedTaskList' = xSuspendedTaskList \cup {t}
        /\ xEventList' = xEventList \ {t} /\ xPendingReadyList' = xPendingReadyList \ {t}
        /\ xItemValue' = [xItemValue EXCEPT ![t] = 0]
        /\ prvResetNextTaskUnblockTime(pxDelayedTaskList \ {t})
        /\ UNCHANGED <<clockVars, xReadyTasks, regionVars, waitVars, periodVars, pendVars,
                       abortVars, xAsked>>
    BY <1>2 DEF vTaskSuspend, LeaveEventLists
  <2>2. xItemValue' \in [Tasks -> TickType] /\ xNextTaskUnblockTime' \in TickType
    BY <2>1, ResetKeeps, TicksAssumption DEF TypeOK, TickType
  <2>3. UnblockTimeIsNotLate'
    BY <2>1, ResetKeeps DEF UnblockTimeIsNotLate, TypeOK
  <2>4. ListsApart' /\ DelayedAhead' /\ EventOK'
    BY <2>1 DEF ListsApart, Delayed, DelayedAhead, EventOK, EventItemIsFree, clockVars, TypeOK
  <2>5. RegionOK'
    BY <2>1 DEF RegionOK, regionVars
  <2>6. Now' = Now /\ Epoch' = Epoch
    BY <2>1 DEF clockVars, Now, Epoch
  <2>7. \A v \in Tasks : WakeOf(v)' = IF v = t THEN Forever ELSE WakeOf(v)
    BY <2>1, <2>6 DEF WakeOf, TypeOK
  <2>8. Sleepers!Suspend(t)
    BY <2>6, <2>7 DEF Sleepers!Suspend, Sleepers!Forever, Forever
  <2>9. SleepStep
    BY <2>8 DEF SleepStep, Sleepers!Next
  <2> QED
    BY <2>1, <2>2, <2>3, <2>4, <2>5, <2>9 DEF TypeOK, clockVars, regionVars, waitVars, periodVars,
      pendVars, abortVars
<1> QED BY <1>1, <1>2

\* Every step keeps the invariant and is a step of the clock, or no step of it.
LEMMA StepKeeps ==
  ASSUME IInv, [Next]_vars
  PROVE  IInv' /\ SleepStep
<1>1. CASE UNCHANGED vars
  <2>1. UNCHANGED <<tickVars, listVars, eventVars>>
    BY <1>1 DEF vars
  <2>2. SleepStep
    BY <2>1, SameSleep
  <2> QED
    BY <1>1, <2>1, <2>2, SameLists DEF IInv, vars, TypeOK, ListTypes, RegionOK, listVars, regionVars,
      waitVars, periodVars, pendVars, abortVars
<1>2. CASE xTaskIncrementTick
  BY <1>2, TickStep
<1>3. ASSUME NEW t \in Tasks,
             \/ vTaskSuspendAll(t)
             \/ EndRegion(t) \/ xTaskResumeAll(t) \/ CountPendedTick(t) \/ ResumeAllDone(t)
             \/ \E n \in Delays : vTaskDelay(t, n) \/ xQueueReceive(t, n)
             \/ \E n \in Periods : xTaskDelayUntil(t, n)
             \/ LeaveReceive(t)
             \/ CheckTimedOut(t) \/ CheckAndBlock(t)
             \/ xTaskRemoveFromEventList(t)
             \/ \E u \in Tasks : xTaskAbortDelay(t, u)
             \/ FinishAbort(t)
             \/ vTaskSuspend(t) \/ vTaskResume(t)
             \/ xTaskCatchUpTicks(t)
             \/ \E n \in 1 .. MaxPendedTicks : FinishCatchUp(t, n)
      PROVE  IInv' /\ SleepStep
  BY <1>3, ControlKeeps, SameSleep, TickStep, BlockStep, RouseStep, RemoveStep
<1>4. CASE Next
  BY <1>2, <1>3, <1>4 DEF Next
<1> QED BY <1>1, <1>4

-----------------------------------------------------------------------------
(* Ticks are neither lost nor counted twice.                               *)

\* No tick is read and written by xTaskCatchUpTicks, and none is left pended
\* when the scheduler runs.
CountOK ==
  /\ step # "catching" /\ EveryTickIsCounted
  /\ suspendedBy = NoTask => xPendedTicks = 0

ClockSame == UNCHANGED <<Now, xPendedTicks, xTicksRaised>>

\* A tick that was pended is counted.
TickCounted ==
  Now' = Now + 1 /\ xPendedTicks' = xPendedTicks - 1 /\ UNCHANGED xTicksRaised

\* The timer raises a tick, counted at once or pended.
TickRaised ==
  /\ TickAllowed /\ Now' \in {Now, Now + 1} /\ Now' + xPendedTicks' = Now + xPendedTicks + 1
  /\ xTicksRaised' = xTicksRaised + 1

LEMMA SameNow == UNCHANGED clockVars => Now' = Now /\ Epoch' = Epoch
BY DEF clockVars, Now, Epoch

\* Without xTaskCatchUpTicks a step is of one of these kinds.
LEMMA CountStep ==
  ASSUME IInv, CountOK, ~API("xTaskCatchUpTicks"), [Next]_vars
  PROVE  CountOK' /\ (ClockSame \/ TickCounted \/ TickRaised)
<1>1. /\ TypeOK /\ RegionOK /\ Now \in Nat /\ xPendedTicks \in Nat /\ xTicksRaised \in Nat
      /\ NoTask \notin Tasks
  BY NowIsInt, TicksAssumption DEF IInv, TypeOK
<1>2. ASSUME ClockSame, step' # "catching", suspendedBy' = NoTask => xPendedTicks = 0
      PROVE  CountOK' /\ ClockSame
  BY <1>2 DEF CountOK, ClockSame, EveryTickIsCounted
<1>3. CASE xTaskIncrementTick
  <2>1. TickRaised /\ (suspendedBy = NoTask => UNCHANGED xPendedTicks)
    <3>1. CASE suspendedBy = NoTask
      BY <1>1, <1>3, <3>1, NextTick DEF xTaskIncrementTick, TickRaised
    <3>2. CASE suspendedBy # NoTask
      BY <1>1, <1>3, <3>2, SameNow DEF xTaskIncrementTick, TickRaised, tickVars, clockVars
    <3> QED
      BY <3>1, <3>2
  <2>2. UNCHANGED <<step, suspendedBy>>
    BY <1>3 DEF xTaskIncrementTick, regionVars
  <2>3. EveryTickIsCounted'
    BY <1>1, <2>1 DEF TickRaised, CountOK, EveryTickIsCounted
  <2> QED
    BY <2>1, <2>2, <2>3 DEF CountOK
<1>4. ASSUME NEW t \in Tasks, CountPendedTick(t)
      PROVE  CountOK' /\ TickCounted
  <2>1. TickCounted /\ UNCHANGED <<step, suspendedBy>> /\ suspendedBy # NoTask
    BY <1>1, <1>4, NextTick DEF CountPendedTick, TickCounted, regionVars, InRegion
  <2>2. EveryTickIsCounted'
    BY <1>1, <2>1 DEF TickCounted, CountOK, EveryTickIsCounted
  <2> QED
    BY <2>1, <2>2 DEF CountOK
<1>5. ASSUME NEW t \in Tasks,
             \/ vTaskSuspendAll(t) \/ EndRegion(t) \/ xTaskResumeAll(t) \/ ResumeAllDone(t)
             \/ \E n \in Delays : vTaskDelay(t, n) \/ xQueueReceive(t, n)
             \/ \E n \in Periods : xTaskDelayUntil(t, n)
             \/ LeaveReceive(t) \/ CheckTimedOut(t) \/ CheckAndBlock(t)
             \/ xTaskRemoveFromEventList(t)
             \/ (\E u \in Tasks : xTaskAbortDelay(t, u)) \/ FinishAbort(t)
             \/ vTaskSuspend(t) \/ vTaskResume(t)
      PROVE  CountOK' /\ ClockSame
  <2>1. UNCHANGED <<clockVars, pendVars>>
    BY <1>5 DEF vTaskSuspendAll, EndRegion, xTaskResumeAll, ResumeAllDone, vTaskDelay,
      xQueueReceive, xTaskDelayUntil, LeaveReceive, CheckTimedOut, CheckAndBlock,
      xTaskRemoveFromEventList, xTaskAbortDelay, FinishAbort, vTaskSuspend, vTaskResume, tickVars
  <2>2. step' # "catching"
    BY <1>5 DEF vTaskSuspendAll, EndRegion, xTaskResumeAll, ResumeAllDone, vTaskDelay,
      xQueueReceive, xTaskDelayUntil, LeaveReceive, CheckTimedOut, CheckAndBlock, GoTo, CountOK,
      xTaskRemoveFromEventList, xTaskAbortDelay, FinishAbort, vTaskSuspend, vTaskResume, regionVars
  <2>3. suspendedBy' = NoTask => xPendedTicks = 0
    BY <1>1, <1>5 DEF vTaskSuspendAll, EndRegion, xTaskResumeAll, ResumeAllDone, vTaskDelay,
      xQueueReceive, xTaskDelayUntil, LeaveReceive, CheckTimedOut, CheckAndBlock, GoTo, CountOK,
      xTaskRemoveFromEventList, xTaskAbortDelay, FinishAbort, vTaskSuspend, vTaskResume, regionVars
  <2> QED
    BY <1>2, <2>1, <2>2, <2>3, SameNow DEF ClockSame, pendVars
<1>6. CASE UNCHANGED vars
  BY <1>2, <1>6, SameNow DEF vars, tickVars, pendVars, regionVars, ClockSame, CountOK
<1>7. ASSUME NEW t \in Tasks, NEW n \in 1 .. MaxPendedTicks, FinishCatchUp(t, n) PROVE FALSE
  BY <1>7 DEF FinishCatchUp, InRegion, CountOK
<1> QED
  BY <1>3, <1>4, <1>5, <1>6, <1>7 DEF Next

-----------------------------------------------------------------------------
(* Timed waits.                                                            *)

\* Nobody looks later than a turn of the tick count after its wait began.
LateBound == \A n \in Delays \ {portMAX_DELAY} : n + MaxLate <= TickRange

\* When t last had its wait counted, on the clock without wrap.
CapturedAt(t) == xTimeOut[t][1] * TickRange + xTimeOut[t][2]

\* What is left of t's wait, counted from when it was captured, ends at the
\* tick that was asked for.
WaitIsRight(t) ==
  \/ xAsked[t] = Forever /\ xTicksToWait[t] = portMAX_DELAY
  \/ /\ xAsked[t] # Forever /\ xTicksToWait[t] # portMAX_DELAY
     /\ Now + xPendedTicks <= xAsked[t] + MaxLate
     /\ \/ xTicksToWait[t] = 0 /\ xAsked[t] <= Now
        \/ /\ xTicksToWait[t] > 0 /\ CapturedAt(t) <= Now
           /\ xAsked[t] = CapturedAt(t) + xTicksToWait[t]
           /\ xTicksToWait[t] + MaxLate <= TickRange

WaitOK == \A t \in Tasks : pc[t] = "wait" => t \notin PeriodicTasks /\ WaitIsRight(t)

\* Two clock values no more than a turn apart, by overflows and tick counts.
LEMMA Turns ==
  ASSUME NEW o \in Int, NEW k \in Int, NEW a \in TickType, NEW b \in TickType, NEW e \in Nat,
         o * TickRange + a = k * TickRange + b + e, e <= TickRange
  PROVE  \/ o = k /\ a >= b /\ e = a - b
         \/ o = k + 1 /\ a <= b /\ e = a - b + TickRange
<1>1. /\ TickRange \in Nat \ {0} /\ a \in Nat /\ b \in Nat /\ a < TickRange /\ b < TickRange
      /\ e \in Nat
  BY TicksAssumption DEF TickType, TickRange
<1> DEFINE d == o - k
<1>2. d \in Int /\ d * TickRange = o * TickRange - k * TickRange
  BY <1>1
<1>3. d * TickRange = b - a + e
  <2>1. o * TickRange \in Int /\ k * TickRange \in Int
    BY <1>1
  <2> QED
    BY <1>1, <1>2, <2>1
<1> HIDE DEF d
<1>4. ~(d >= 2)
  <2>1. d >= 2 => d * TickRange >= 2 * TickRange
    BY <1>1, <1>2
  <2> QED
    BY <1>1, <1>3, <2>1
<1>5. ~(d <= -1)
  <2>1. d <= -1 => d * TickRange <= -TickRange
    BY <1>1, <1>2
  <2> QED
    BY <1>1, <1>3, <2>1
<1>6. d = 0 \/ d = 1
  BY <1>2, <1>4, <1>5
<1>7. CASE d = 0
  <2>1. o = k
    BY <1>7 DEF d
  <2> QED
    BY <1>1, <1>3, <1>7, <2>1
<1>8. CASE d = 1
  <2>1. o = k + 1
    BY <1>8 DEF d
  <2> QED
    BY <1>1, <1>3, <1>8, <2>1
<1> QED
  BY <1>6, <1>7, <1>8

LEMMA CapturedIsNat ==
  ASSUME TypeOK, NEW t \in Tasks
  PROVE  /\ CapturedAt(t) \in Nat /\ xTimeOut[t][1] \in Nat /\ xTimeOut[t][2] \in TickType
         /\ xTimeOut[t][2] \in Nat /\ TickRange \in Nat
<1>1. xTimeOut[t][1] \in Nat /\ xTimeOut[t][2] \in TickType
  BY DEF TypeOK
<1>2. TickRange \in Nat /\ TickType \subseteq Nat
  BY TicksAssumption DEF TickType, TickRange
<1>3. \A k, n, r \in Nat : k * r + n \in Nat
  OBVIOUS
<1> QED
  BY <1>1, <1>2, <1>3 DEF CapturedAt

\* xTaskCheckForTimeOut measures the time since the capture across the wrap.
LEMMA TimeOutIsRight ==
  ASSUME TypeOK, NEW t \in Tasks, CapturedAt(t) <= Now, Now <= CapturedAt(t) + TickRange,
         xTicksToWait[t] # portMAX_DELAY
  PROVE  /\ TimedOut(t) <=> ucDelayAborted[t] \/ Now >= CapturedAt(t) + xTicksToWait[t]
         /\ ~TimedOut(t) => Elapsed(t) = Now - CapturedAt(t)
<1>1. /\ xTickCount \in TickType /\ xNumOfOverflows \in Nat /\ Now \in Nat
      /\ xTicksToWait[t] \in TickType /\ TickType \subseteq Nat
      /\ \A n \in TickType : n < TickRange
  BY NowIsInt, TicksAssumption DEF TypeOK, TickType, TickRange
<1>2. PICK o, k, a, b, e : /\ o = xNumOfOverflows /\ k = xTimeOut[t][1]
                           /\ a = xTickCount /\ b = xTimeOut[t][2] /\ e = Now - CapturedAt(t)
  OBVIOUS
<1>3. /\ o \in Nat /\ k \in Nat /\ a \in TickType /\ b \in TickType
      /\ a \in Nat /\ b \in Nat /\ TickRange \in Nat /\ CapturedAt(t) \in Nat
  BY <1>1, <1>2, CapturedIsNat
<1>4. /\ Now = o * TickRange + a /\ CapturedAt(t) = k * TickRange + b
      /\ o * TickRange \in Nat /\ k * TickRange \in Nat
  BY <1>2, <1>3 DEF Now, Epoch, CapturedAt
<1>5. e \in Nat /\ e <= TickRange /\ Now = CapturedAt(t) + e
  BY <1>1, <1>2, <1>3
<1>6. o * TickRange + a = k * TickRange + b + e
  BY <1>4, <1>5
<1>7. \/ o = k /\ a >= b /\ e = a - b
      \/ o = k + 1 /\ a <= b /\ e = a - b + TickRange
  <2>1. o \in Int /\ k \in Int
    BY <1>3
  <2>2. /\ o \in Int /\ k \in Int /\ a \in TickType /\ b \in TickType /\ e \in Nat
        /\ o * TickRange + a = k * TickRange + b + e /\ e <= TickRange
    BY <1>3, <1>5, <1>6, <2>1, Zenon
  <2> QED
    BY <2>2, Turns, SMTT(60)
<1>8. /\ WrappedPast(t) <=> o # k /\ a >= b
      /\ Elapsed(t) = IF a < b THEN a - b + TickRange ELSE a - b
  BY <1>2 DEF WrappedPast, Elapsed, Minus
<1>9. /\ WrappedPast(t) => e = TickRange
      /\ ~WrappedPast(t) => Elapsed(t) = e
  BY <1>3, <1>7, <1>8
<1>10. xTicksToWait[t] \in Nat /\ xTicksToWait[t] < TickRange
  BY <1>1
<1>11. Now >= CapturedAt(t) + xTicksToWait[t] <=> e >= xTicksToWait[t]
  BY <1>1, <1>3, <1>5, <1>10
<1>12. WrappedPast(t) \/ Elapsed(t) >= xTicksToWait[t] <=> e >= xTicksToWait[t]
  BY <1>3, <1>5, <1>9, <1>10
<1> QED
  BY <1>2, <1>9, <1>11, <1>12 DEF TimedOut, WaitsForever

\* A wait that begins goes on from the present tick.
LEMMA CaptureNow ==
  ASSUME TypeOK, NEW t \in Tasks, UNCHANGED clockVars,
         xTimeOut'[t] = <<xNumOfOverflows, xTickCount>>
  PROVE  CapturedAt(t)' = Now
BY DEF CapturedAt, Now, Epoch, TickRange

\* t's wait is as it was.
WaitKept(t) == UNCHANGED <<pc[t], xAsked[t], xTicksToWait[t], xTimeOut[t]>>

\* Time passes, but not beyond the tick by which t is to look again.
LEMMA WaitStaysRight ==
  ASSUME IInv, WaitOK, ClockSame \/ TickCounted \/ TickRaised,
         NEW t \in Tasks, WaitKept(t), pc'[t] = "wait"
  PROVE  t \notin PeriodicTasks /\ WaitIsRight(t)'
<1>1. /\ pc[t] = "wait" /\ t \notin PeriodicTasks /\ WaitIsRight(t)
      /\ UNCHANGED <<xAsked[t], xTicksToWait[t], xTimeOut[t]>>
  BY DEF WaitOK, WaitKept
<1>2. /\ Now \in Nat /\ xPendedTicks \in Nat /\ MaxLate \in Nat /\ xAsked[t] \in Int
      /\ xTicksToWait[t] \in TickType /\ TickType \subseteq Nat /\ CapturedAt(t) \in Nat
  BY NowIsInt, CapturedIsNat, TicksAssumption DEF IInv, TypeOK, TickType
<1>3. /\ Now <= Now'
      /\ xAsked[t] # Forever /\ Now + xPendedTicks <= xAsked[t] + MaxLate
           => Now' + xPendedTicks' <= xAsked[t] + MaxLate
  <2>1. CASE ClockSame
    BY <1>2, <2>1 DEF ClockSame
  <2>2. CASE TickCounted
    BY <1>2, <2>2 DEF TickCounted
  <2>3. CASE TickRaised
    <3>1. xAsked[t] # Forever => Now + xPendedTicks < xAsked[t] + MaxLate
      BY <1>1, <2>3 DEF TickRaised, TickAllowed
    <3> QED
      BY <1>2, <2>3, <3>1 DEF TickRaised
  <2> QED
    BY <2>1, <2>2, <2>3
<1>4. CapturedAt(t)' = CapturedAt(t)
  BY <1>1 DEF CapturedAt, TickRange
<1>5. Now' \in Int
  BY <1>2 DEF ClockSame, TickCounted, TickRaised
<1> QED
  BY <1>1, <1>2, <1>3, <1>4, <1>5 DEF WaitIsRight

\* The time left of a timed wait is looked at before a turn of the tick count.
LEMMA LookInTime ==
  ASSUME IInv, WaitOK, NEW t \in Tasks, pc[t] = "wait", xTicksToWait[t] # portMAX_DELAY
  PROVE  /\ xAsked[t] # Forever /\ xAsked[t] \in Int
         /\ xTicksToWait[t] \in Nat /\ CapturedAt(t) \in Nat /\ Now \in Nat
         /\ xTicksToWait[t] = 0 => xAsked[t] <= Now /\ TimedOut(t)
         /\ xTicksToWait[t] > 0 =>
              /\ CapturedAt(t) <= Now /\ Now <= CapturedAt(t) + TickRange
              /\ xAsked[t] = CapturedAt(t) + xTicksToWait[t]
              /\ xTicksToWait[t] + MaxLate <= TickRange
              /\ TimedOut(t) <=> ucDelayAborted[t] \/ Now >= xAsked[t]
              /\ ~TimedOut(t) => Elapsed(t) = Now - CapturedAt(t)
<1>1. /\ TypeOK /\ WaitIsRight(t)
      /\ Now \in Nat /\ xPendedTicks \in Nat /\ MaxLate \in Nat /\ xAsked[t] \in Int
      /\ xTicksToWait[t] \in Nat /\ CapturedAt(t) \in Nat /\ TickRange \in Nat
      /\ Elapsed(t) \in Nat
  <2>1. TypeOK /\ WaitIsRight(t)
    BY DEF IInv, WaitOK
  <2>2. xPendedTicks \in Nat /\ xAsked[t] \in Int /\ xTicksToWait[t] \in TickType
        /\ xTickCount \in TickType /\ xTimeOut[t][2] \in TickType
    BY <2>1 DEF TypeOK
  <2>3. Elapsed(t) \in TickType
    BY <2>2, MinusIsTick DEF Elapsed
  <2> QED
    BY <2>1, <2>2, <2>3, NowIsInt, CapturedIsNat, TicksAssumption DEF TickType
<1>2. /\ xAsked[t] # Forever /\ Now + xPendedTicks <= xAsked[t] + MaxLate
      /\ xTicksToWait[t] = 0 => xAsked[t] <= Now
      /\ xTicksToWait[t] > 0 => /\ CapturedAt(t) <= Now
                                /\ xAsked[t] = CapturedAt(t) + xTicksToWait[t]
                                /\ xTicksToWait[t] + MaxLate <= TickRange
  BY <1>1 DEF WaitIsRight
<1>3. xTicksToWait[t] = 0 => TimedOut(t)
  BY <1>1 DEF TimedOut, WaitsForever
<1>4. ASSUME xTicksToWait[t] > 0
      PROVE  Now <= CapturedAt(t) + TickRange
  BY <1>1, <1>2, <1>4
<1>5. ASSUME xTicksToWait[t] > 0
      PROVE  /\ TimedOut(t) <=> ucDelayAborted[t] \/ Now >= CapturedAt(t) + xTicksToWait[t]
             /\ ~TimedOut(t) => Elapsed(t) = Now - CapturedAt(t)
  BY <1>1, <1>2, <1>4, <1>5, TimeOutIsRight
<1> QED
  BY <1>1, <1>2, <1>3, <1>4, <1>5

\* The steps that begin a wait, end it or take it up again.
LEMMA WaitChanges ==
  ASSUME IInv, CountOK, WaitOK, LateBound, NEW t \in Tasks,
         \/ \E n \in Delays : xQueueReceive(t, n)
         \/ LeaveReceive(t) \/ CheckTimedOut(t) \/ CheckAndBlock(t)
  PROVE  /\ pc'[t] = "wait" => t \notin PeriodicTasks /\ WaitIsRight(t)'
         /\ \A u \in Tasks \ {t} : WaitKept(u)
<1>1. /\ TypeOK /\ pc \in [Tasks -> {"run", "wait"}] /\ xAsked \in [Tasks -> Int]
      /\ xTicksToWait \in [Tasks -> TickType] /\ xTimeOut \in [Tasks -> Nat \X TickType]
      /\ Now \in Nat /\ Delays \subseteq TickType \ {0} /\ TickType \subseteq Nat
      /\ MaxLate \in Nat /\ TickRange \in Nat
      /\ portMAX_DELAY \in TickType /\ \A n \in TickType : n <= portMAX_DELAY
  BY NowIsInt, TicksAssumption DEF IInv, TypeOK, TickType, TickRange
<1>2. UNCHANGED clockVars /\ Now' = Now /\ UNCHANGED xPendedTicks
  BY SameNow DEF xQueueReceive, LeaveReceive, CheckTimedOut, CheckAndBlock, tickVars, pendVars
<1>3. CASE \E n \in Delays : xQueueReceive(t, n)
  <2>1. PICK n \in Delays : xQueueReceive(t, n)
    BY <1>3
  <2>2. /\ xTicksToWait' = [xTicksToWait EXCEPT ![t] = n]
        /\ xTimeOut' = [xTimeOut EXCEPT ![t] = <<xNumOfOverflows, xTickCount>>]
        /\ xAsked' = [xAsked EXCEPT ![t] = IF n = portMAX_DELAY THEN Forever ELSE Now + n]
        /\ pc' = [pc EXCEPT ![t] = "wait"] /\ t \notin PeriodicTasks /\ suspendedBy = NoTask
    BY <2>1 DEF xQueueReceive, Runs
  <2>3. CapturedAt(t)' = Now
    BY <1>1, <1>2, <2>2, CaptureNow
  <2>4. xPendedTicks' = 0
    BY <1>2, <2>2 DEF CountOK
  <2>5. /\ xTicksToWait'[t] = n
        /\ xAsked'[t] = IF n = portMAX_DELAY THEN Forever ELSE Now + n
        /\ n \in Nat /\ n > 0 /\ n # portMAX_DELAY => n + MaxLate <= TickRange
    BY <1>1, <2>2 DEF LateBound
  <2>6. WaitIsRight(t)'
    BY <1>1, <1>2, <2>3, <2>4, <2>5 DEF WaitIsRight, Forever, TickRange
  <2> QED
    BY <1>1, <2>2, <2>6 DEF WaitKept
<1>4. CASE LeaveReceive(t)
  BY <1>1, <1>4 DEF LeaveReceive, Return, WaitKept
<1>5. CASE CheckTimedOut(t)
  <2>1. CASE Return(t) /\ xAsked' = [xAsked EXCEPT ![t] = 0]
    BY <1>1, <2>1 DEF Return, WaitKept
  <2>2. CASE /\ xTicksToWait' = IF ucDelayAborted[t] THEN xTicksToWait
                                ELSE [xTicksToWait EXCEPT ![t] = 0]
             /\ UNCHANGED <<pc, xTimeOut, xAsked>>
    <3>1. pc[t] = "wait" /\ TimedOut(t)
      BY <1>5 DEF CheckTimedOut
    <3>2. t \notin PeriodicTasks /\ WaitIsRight(t)
      BY <3>1 DEF WaitOK
    <3>3. CASE ucDelayAborted[t]
      <4>1. WaitKept(t)
        BY <2>2, <3>3 DEF WaitKept
      <4>2. ClockSame
        BY <1>2, <1>5 DEF ClockSame, CheckTimedOut, pendVars
      <4>3. \A u \in Tasks \ {t} : WaitKept(u)
        BY <2>2, <3>3 DEF WaitKept
      <4>4. pc'[t] = "wait"
        BY <2>2, <3>1
      <4> QED
        BY <4>1, <4>2, <4>3, <4>4, WaitStaysRight
    <3>4. CASE ~ucDelayAborted[t]
      <4>1. xTicksToWait' = [xTicksToWait EXCEPT ![t] = 0] /\ xTicksToWait[t] # portMAX_DELAY
        BY <2>2, <3>1, <3>4 DEF TimedOut, WaitsForever
      <4>2. xAsked[t] # Forever /\ xAsked[t] <= Now /\ xAsked[t] \in Int
        BY <1>1, <3>1, <3>4, <4>1, LookInTime
      <4>3. /\ xTicksToWait'[t] = 0 /\ xAsked'[t] = xAsked[t] /\ 0 # portMAX_DELAY
            /\ \A u \in Tasks \ {t} : WaitKept(u)
        BY <1>1, <2>2, <4>1, TicksAssumption DEF WaitKept
      <4>4. Now' + xPendedTicks' <= xAsked'[t] + MaxLate
        BY <1>2, <3>2, <4>2, <4>3 DEF WaitIsRight
      <4> QED
        BY <1>2, <3>2, <4>2, <4>3, <4>4 DEF WaitIsRight
    <3> QED
      BY <3>3, <3>4
  <2> QED
    BY <1>5, <2>1, <2>2 DEF CheckTimedOut
<1>6. CASE CheckAndBlock(t)
  <2>1. /\ pc[t] = "wait" /\ ~TimedOut(t) /\ UNCHANGED <<pc, xAsked>>
        /\ xTimeOut' = TimeCaptured(t)
    BY <1>6 DEF CheckAndBlock
  <2>2. t \notin PeriodicTasks /\ WaitIsRight(t)
    BY <2>1 DEF WaitOK
  <2>3. CASE WaitsForever(t)
    <3>1. xTicksToWait' = [xTicksToWait EXCEPT ![t] = portMAX_DELAY] /\ UNCHANGED xTimeOut
      BY <1>6, <2>1, <2>3 DEF CheckAndBlock, TimeCaptured
    <3>2. \A u \in Tasks : WaitKept(u)
      BY <1>1, <2>1, <2>3, <3>1 DEF WaitKept, WaitsForever
    <3>3. ClockSame /\ pc'[t] = "wait"
      BY <1>2, <1>6, <2>1 DEF ClockSame, CheckAndBlock, pendVars
    <3> QED
      BY <3>2, <3>3, WaitStaysRight
  <2>4. CASE ~WaitsForever(t)
    <3>1. /\ xTicksToWait[t] # portMAX_DELAY /\ xTicksToWait[t] > 0
          /\ CapturedAt(t) <= Now /\ xAsked[t] = CapturedAt(t) + xTicksToWait[t]
          /\ xTicksToWait[t] + MaxLate <= TickRange /\ ~(Now >= xAsked[t])
          /\ Elapsed(t) = Now - CapturedAt(t)
          /\ xTicksToWait[t] \in Nat /\ CapturedAt(t) \in Nat /\ xAsked[t] # Forever
      <4>1. xTicksToWait[t] # portMAX_DELAY /\ ~ucDelayAborted[t]
        BY <2>1, <2>4 DEF WaitsForever, TimedOut
      <4> QED
        BY <2>1, <4>1, LookInTime
    <3>2. /\ xTicksToWait' = [xTicksToWait EXCEPT ![t] = xTicksToWait[t] - Elapsed(t)]
          /\ xTimeOut' = [xTimeOut EXCEPT ![t] = <<xNumOfOverflows, xTickCount>>]
      BY <1>6, <2>1, <2>4 DEF CheckAndBlock, TimeCaptured
    <3>3. /\ xTicksToWait'[t] = xTicksToWait[t] - (Now - CapturedAt(t))
          /\ xTimeOut'[t] = <<xNumOfOverflows, xTickCount>> /\ xAsked'[t] = xAsked[t]
      BY <1>1, <2>1, <3>1, <3>2
    <3>4. CapturedAt(t)' = Now
      BY <1>1, <1>2, <3>3, CaptureNow
    <3>5. \A u \in Tasks \ {t} : WaitKept(u)
      BY <1>1, <2>1, <3>2 DEF WaitKept
    <3>6. Now + xPendedTicks <= xAsked[t] + MaxLate
      BY <2>2, <3>1 DEF WaitIsRight
    <3>7. /\ xTicksToWait'[t] > 0 /\ xTicksToWait'[t] <= xTicksToWait[t]
          /\ xAsked[t] = Now + xTicksToWait'[t] /\ xTicksToWait'[t] + MaxLate <= TickRange
          /\ xTicksToWait'[t] # portMAX_DELAY
      <4>1. xTicksToWait[t] <= portMAX_DELAY /\ portMAX_DELAY \in Nat
        BY <1>1
      <4> QED
        BY <1>1, <3>1, <3>3, <4>1
    <3> QED
      BY <1>1, <1>2, <2>2, <3>1, <3>3, <3>4, <3>5, <3>6, <3>7 DEF WaitIsRight, TickRange
  <2> QED
    BY <2>3, <2>4
<1> QED
  BY <1>3, <1>4, <1>5, <1>6

\* A timed wait always ends at the tick it was to end at.
LEMMA WaitStep ==
  ASSUME IInv, CountOK, WaitOK, LateBound, ~API("xTaskCatchUpTicks"), [Next]_vars
  PROVE  WaitOK'
<1>1. ClockSame \/ TickCounted \/ TickRaised
  BY CountStep
<1>2. ASSUME NEW t \in Tasks,
             \/ \E n \in Delays : xQueueReceive(t, n)
             \/ LeaveReceive(t) \/ CheckTimedOut(t) \/ CheckAndBlock(t)
      PROVE  WaitOK'
  <2>1. /\ pc'[t] = "wait" => t \notin PeriodicTasks /\ WaitIsRight(t)'
        /\ \A u \in Tasks \ {t} : WaitKept(u)
    BY <1>2, WaitChanges
  <2>2. \A u \in Tasks \ {t} : pc'[u] = "wait" => u \notin PeriodicTasks /\ WaitIsRight(u)'
    BY <1>1, <2>1, WaitStaysRight
  <2> QED
    BY <2>1, <2>2 DEF WaitOK
<1>3. ASSUME \A t \in Tasks : pc'[t] = "wait" => WaitKept(t)
      PROVE  WaitOK'
  BY <1>1, <1>3, WaitStaysRight DEF WaitOK
<1>4. TypeOK /\ pc \in [Tasks -> {"run", "wait"}] /\ xAsked \in [Tasks -> Int]
  BY DEF IInv, TypeOK
<1>5. ASSUME NEW t \in Tasks, \E n \in Delays : vTaskDelay(t, n)
      PROVE  WaitOK'
  <2>1. PICK n \in Delays : vTaskDelay(t, n)
    BY <1>5
  <2>2. /\ UNCHANGED <<pc, xTicksToWait, xTimeOut>> /\ pc[t] = "run"
        /\ xAsked' = [xAsked EXCEPT ![t] = Now + n]
    BY <2>1 DEF vTaskDelay, waitVars
  <2> QED
    BY <1>3, <1>4, <2>2 DEF WaitKept
<1>6. ASSUME NEW t \in Tasks, \E n \in Periods : xTaskDelayUntil(t, n)
      PROVE  WaitOK'
  <2>1. PICK n \in Periods : xTaskDelayUntil(t, n)
    BY <1>6
  <2>2. UNCHANGED <<pc, xTicksToWait, xTimeOut>> /\ t \in PeriodicTasks
    BY <2>1 DEF xTaskDelayUntil, waitVars
  <2>3. xAsked' = xAsked \/ xAsked' = [xAsked EXCEPT ![t] = xPreviousAsked'[t]]
    BY <2>1 DEF xTaskDelayUntil
  <2>4. pc[t] # "wait"
    BY <2>2 DEF WaitOK
  <2> QED
    BY <1>3, <1>4, <2>2, <2>3, <2>4 DEF WaitKept
<1>7. ASSUME UNCHANGED waitVars,
             xAsked' = xAsked \/ \E S, d, o : MakeReady(S, d, o)
      PROVE  WaitOK'
  BY <1>3, <1>7 DEF WaitKept, waitVars, MakeReady
<1>8. ASSUME NEW t \in Tasks,
             \/ vTaskSuspendAll(t) \/ EndRegion(t) \/ xTaskResumeAll(t) \/ ResumeAllDone(t)
             \/ xTaskRemoveFromEventList(t)
             \/ (\E u \in Tasks : xTaskAbortDelay(t, u)) \/ FinishAbort(t)
             \/ vTaskSuspend(t) \/ vTaskResume(t)
             \/ \E n \in 1 .. MaxPendedTicks : FinishCatchUp(t, n)
      PROVE  WaitOK'
  <2>1. UNCHANGED waitVars
    BY <1>8 DEF vTaskSuspendAll, EndRegion, xTaskResumeAll, ResumeAllDone, FinishCatchUp,
      xTaskRemoveFromEventList, xTaskAbortDelay, FinishAbort, vTaskSuspend, vTaskResume
  <2>2. xAsked' = xAsked \/ \E S, d, o : MakeReady(S, d, o)
    BY <1>8 DEF vTaskSuspendAll, EndRegion, xTaskResumeAll, ResumeAllDone, FinishCatchUp,
      xTaskRemoveFromEventList, xTaskAbortDelay, FinishAbort, vTaskSuspend, vTaskResume
  <2> QED
    BY <1>7, <2>1, <2>2
<1>9. CountTick => \E S, d, o : MakeReady(S, d, o)
  BY DEF CountTick
<1>10. CASE xTaskIncrementTick
  BY <1>7, <1>9, <1>10 DEF xTaskIncrementTick
<1>11. ASSUME NEW t \in Tasks, CountPendedTick(t) PROVE WaitOK'
  BY <1>7, <1>9, <1>11 DEF CountPendedTick
<1>12. CASE UNCHANGED vars
  BY <1>7, <1>12 DEF vars
<1> QED
  BY <1>2, <1>5, <1>6, <1>8, <1>10, <1>11, <1>12 DEF Next

-----------------------------------------------------------------------------
(* Sleeping until the tick that was asked for.                             *)

\* A delayed task is to wake at the tick its blocking call was to end at.
SleepOK == \A t \in Delayed : WakeOf(t) = xAsked[t]

\* Who is on a delayed list has its wake time ahead, and nobody else has one.
LEMMA DelayedWakes ==
  ASSUME IInv, NEW t \in Tasks
  PROVE  IF t \in Delayed THEN WakeOf(t) > Now /\ WakeOf(t) \in Nat
         ELSE WakeOf(t) \in {Awake, Forever}
<1>1. /\ Epoch \in Nat /\ TickRange \in Nat /\ TickType \subseteq Nat
      /\ \A n \in TickType : n < TickRange
      /\ xTickCount \in TickType /\ xItemValue[t] \in TickType
  BY NowIsInt, TicksAssumption DEF IInv, TypeOK, TickType, TickRange
<1>2. Now = Epoch + xTickCount
  BY DEF Now
<1>3. CASE t \in pxDelayedTaskList
  <2>1. WakeOf(t) = Epoch + xItemValue[t] /\ xItemValue[t] > xTickCount /\ t \in Delayed
    BY <1>3 DEF WakeOf, IInv, DelayedAhead, Delayed
  <2>2. xTickCount \in Nat /\ xItemValue[t] \in Nat
    BY <1>1
  <2> QED
    BY <1>1, <1>2, <2>1, <2>2
<1>4. CASE t \notin pxDelayedTaskList /\ t \in pxOverflowDelayedTaskList
  <2>1. WakeOf(t) = Epoch + TickRange + xItemValue[t] /\ t \in Delayed
    BY <1>4 DEF WakeOf, Delayed
  <2>2. xTickCount < TickRange /\ xTickCount \in Nat /\ xItemValue[t] \in Nat
    BY <1>1
  <2> QED
    BY <1>1, <1>2, <2>1, <2>2
<1>5. CASE t \notin Delayed
  BY <1>5 DEF WakeOf, Delayed
<1> QED
  BY <1>3, <1>4, <1>5 DEF Delayed

SleepsAhead == \A t \in Tasks : t \in Delayed => WakeOf(t) > Now

LEMMA SleepIsAhead == IInv => SleepsAhead
BY DelayedWakes DEF SleepsAhead

LEMMA SleepIsAheadNext == IInv' => SleepsAhead'
BY SleepIsAhead, PTL

\* Nobody falls asleep, and who sleeps on does so until the same tick.
SleepersKept ==
  \A t \in Tasks : t \in Delayed' =>
    t \in Delayed /\ WakeOf(t)' = WakeOf(t) /\ xAsked'[t] = xAsked[t]

LEMMA KeptStaysRight ==
  ASSUME IInv', SleepOK, SleepersKept
  PROVE  SleepOK'
<1>1. Delayed' \subseteq Tasks
  BY DEF IInv, TypeOK, Delayed
<1> QED
  BY <1>1 DEF SleepOK, SleepersKept

\* With lists and clock unchanged only the sleepers' own calls matter.
LEMMA SameKept ==
  ASSUME UNCHANGED <<tickVars, listVars>>,
         \A t \in Tasks \ xReadyTasks : xAsked'[t] = xAsked[t], IInv
  PROVE  SleepersKept /\ Delayed' = Delayed
<1>1. Delayed' = Delayed /\ \A t \in Tasks : WakeOf(t)' = WakeOf(t)
  BY DEF tickVars, clockVars, listVars, WakeOf, Delayed, Epoch
<1>2. Delayed \cap xReadyTasks = {}
  BY DEF IInv, ListsApart
<1> QED
  BY <1>1, <1>2 DEF SleepersKept

\* Tasks that are made ready sleep no more, and the others as before.
LEMMA ReadyKept ==
  ASSUME NEW S \in SUBSET Tasks, UNCHANGED clockVars,
         MakeReady(S, pxDelayedTaskList, pxOverflowDelayedTaskList)
  PROVE  SleepersKept /\ \A t \in Tasks \ S : WakeOf(t)' = WakeOf(t)
<1>1. Epoch' = Epoch
  BY SameNow
<1>2. \A t \in Tasks : WakeOf(t)' = IF t \in S THEN Awake ELSE WakeOf(t)
  BY <1>1 DEF MakeReady, WakeOf
<1>3. \A t \in Tasks : t \in Delayed' => t \in Delayed /\ t \notin S /\ xAsked'[t] = xAsked[t]
  BY DEF MakeReady, Delayed
<1> QED
  BY <1>2, <1>3 DEF SleepersKept

\* A tick ends the sleep of those whose tick it is.
LEMMA TickKept ==
  ASSUME IInv, IInv', CountTick
  PROVE  SleepersKept
<1>1. /\ Delayed' \subseteq Delayed
      /\ \A t \in Tasks : WakeOf(t)' = IF WakeOf(t) = Now + 1 THEN Awake ELSE WakeOf(t)
      /\ Now \in Nat /\ Now' = Now + 1
  BY TickKeeps, NextTick DEF IInv
<1>2. ASSUME NEW t \in Tasks, t \in Delayed'
      PROVE  WakeOf(t)' = WakeOf(t)
  <2>1. WakeOf(t)' > Now'
    BY <1>2, SleepIsAheadNext DEF SleepsAhead
  <2> QED
    BY <1>1, <2>1 DEF Awake
<1>3. ASSUME NEW t \in Tasks, t \in Delayed'
      PROVE  xAsked'[t] = xAsked[t]
  BY <1>3 DEF CountTick, MakeReady, Delayed
<1> QED
  BY <1>1, <1>2, <1>3 DEF SleepersKept

-----------------------------------------------------------------------------
(* Periods.                                                                *)

\* A wake time k turns and p ticks on the clock, no more than a turn ago, and
\* the one n ticks after it: seen through the tick count x of turn o.
LEMMA NextWakeTime ==
  ASSUME NEW o \in Nat, NEW k \in Nat, NEW x \in TickType, NEW p \in TickType,
         NEW n \in TickType \ {0}, NEW w, w = Wrap(p + n),
         k * TickRange + p <= o * TickRange + x,
         o * TickRange + x <= k * TickRange + p + portMAX_DELAY
  PROVE  /\ (IF x < p THEN w < p /\ w > x ELSE w < p \/ w > x)
              <=> k * TickRange + p + n > o * TickRange + x
         /\ k * TickRange + p + n > o * TickRange + x
              => Minus(w, x) = k * TickRange + p + n - (o * TickRange + x)
         /\ \E j \in Nat : k * TickRange + p + n = j * TickRange + w
<1>1. /\ TickRange \in Nat /\ TickRange = portMAX_DELAY + 1 /\ portMAX_DELAY \in Nat
      /\ x \in Nat /\ p \in Nat /\ n \in Nat /\ n > 0
      /\ x <= portMAX_DELAY /\ p <= portMAX_DELAY /\ n <= portMAX_DELAY
      /\ o * TickRange \in Nat /\ k * TickRange \in Nat
  BY TicksAssumption DEF TickType, TickRange
<1>2. PICK O, K, r : O = o * TickRange /\ K = k * TickRange /\ r = TickRange
  OBVIOUS
<1>3. PICK e : e = O + x - (K + p)
  OBVIOUS
<1>4. e \in Nat /\ e <= portMAX_DELAY /\ O + x = K + p + e
  BY <1>1, <1>2, <1>3
<1>5. \/ O = K /\ x >= p /\ e = x - p
      \/ O = K + r /\ x < p /\ e = x - p + r
  <2>1. o * TickRange + x = k * TickRange + p + e /\ e <= TickRange /\ o \in Int /\ k \in Int
    BY <1>1, <1>2, <1>4
  <2>2. \/ o = k /\ x >= p /\ e = x - p
        \/ o = k + 1 /\ x <= p /\ e = x - p + TickRange
    <3>1. /\ o \in Int /\ k \in Int /\ x \in TickType /\ p \in TickType /\ e \in Nat
          /\ o * TickRange + x = k * TickRange + p + e /\ e <= TickRange
      BY <1>4, <2>1, Zenon
    <3> QED
      BY <3>1, Turns, SMTT(60)
  <2>3. o = k + 1 => O = K + r
    BY <1>1, <1>2
  <2> QED
    BY <1>1, <1>2, <1>4, <2>2, <2>3
<1>6. w = IF p + n > portMAX_DELAY THEN p + n - r ELSE p + n
  BY <1>1, <1>2 DEF Wrap
<1>7. r \in Nat /\ r = portMAX_DELAY + 1 /\ O \in Nat /\ K \in Nat /\ w \in Int
  BY <1>1, <1>2, <1>6
<1>8. /\ (IF x < p THEN w < p /\ w > x ELSE w < p \/ w > x) <=> K + p + n > O + x
      /\ K + p + n > O + x
           => (IF w < x THEN w - x + r ELSE w - x) = K + p + n - (O + x)
  BY <1>1, <1>4, <1>5, <1>6, <1>7
<1>9. \E j \in Nat : k * TickRange + p + n = j * TickRange + w
  <2>1. CASE p + n > portMAX_DELAY
    <3>1. (k + 1) * TickRange = K + r /\ k + 1 \in Nat
      BY <1>1, <1>2
    <3>2. k * TickRange + p + n = (k + 1) * TickRange + w
      BY <1>1, <1>2, <1>6, <1>7, <2>1, <3>1
    <3> QED
      BY <3>1, <3>2
  <2>2. CASE ~(p + n > portMAX_DELAY)
    <3>1. k * TickRange + p + n = k * TickRange + w
      BY <1>1, <1>2, <1>6, <1>7, <2>2
    <3> QED
      BY <3>1
  <2> QED
    BY <2>1, <2>2
<1> QED
  BY <1>1, <1>2, <1>8, <1>9 DEF Minus

\* A periodic task's wake time is known through wraps; it is asleep until then,
\* or then has come, and it looks again before a turn of the tick count.
PeriodIsRight(t) ==
  /\ pc[t] = "run" /\ t \notin xEventList \cup xPendingReadyList \cup xSuspendedTaskList
  /\ \E k \in Nat : xPreviousAsked[t] = k * TickRange + pxPreviousWakeTime[t]
  /\ Now + xPendedTicks <= xPreviousAsked[t] + portMAX_DELAY
  /\ \/ t \in Delayed /\ WakeOf(t) = xPreviousAsked[t]
     \/ xPreviousAsked[t] <= Now

PeriodOK == \A t \in PeriodicTasks : PeriodIsRight(t)

\* xTaskDelayUntil decides and delays as the clock without wrap would.
LEMMA DelayUntilIsRight ==
  ASSUME TypeOK, NEW t \in Tasks, PeriodIsRight(t), t \notin Delayed,
         NEW n \in TickType \ {0}, NEW w, w = Wrap(pxPreviousWakeTime[t] + n)
  PROVE  /\ xPreviousAsked[t] \in Nat /\ Now \in Nat
         /\ ShouldDelay(pxPreviousWakeTime[t], w) <=> xPreviousAsked[t] + n > Now
         /\ ShouldDelay(pxPreviousWakeTime[t], w)
              => Minus(w, xTickCount) = xPreviousAsked[t] + n - Now
         /\ \E j \in Nat : xPreviousAsked[t] + n = j * TickRange + w
<1>1. /\ Now \in Nat /\ xPendedTicks \in Nat /\ xPreviousAsked[t] \in Nat
      /\ xNumOfOverflows \in Nat /\ xTickCount \in TickType /\ portMAX_DELAY \in Nat
      /\ pxPreviousWakeTime[t] \in TickType
  BY NowIsInt, TicksAssumption DEF TypeOK
<1>2. PICK k \in Nat : xPreviousAsked[t] = k * TickRange + pxPreviousWakeTime[t]
  BY DEF PeriodIsRight
<1>3. PICK o, x, p : o = xNumOfOverflows /\ x = xTickCount /\ p = pxPreviousWakeTime[t]
  OBVIOUS
<1>4. xPreviousAsked[t] <= Now /\ Now <= xPreviousAsked[t] + portMAX_DELAY
  BY <1>1 DEF PeriodIsRight
<1>5. Now = o * TickRange + x /\ xPreviousAsked[t] = k * TickRange + p
  BY <1>2, <1>3 DEF Now, Epoch
<1>6. /\ o \in Nat /\ k \in Nat /\ x \in TickType /\ p \in TickType /\ n \in TickType \ {0}
      /\ w = Wrap(p + n)
      /\ k * TickRange + p <= o * TickRange + x
      /\ o * TickRange + x <= k * TickRange + p + portMAX_DELAY
  BY <1>1, <1>2, <1>3, <1>4, <1>5
<1>7. /\ (IF x < p THEN w < p /\ w > x ELSE w < p \/ w > x)
            <=> k * TickRange + p + n > o * TickRange + x
      /\ k * TickRange + p + n > o * TickRange + x
            => Minus(w, x) = k * TickRange + p + n - (o * TickRange + x)
      /\ \E j \in Nat : k * TickRange + p + n = j * TickRange + w
  BY <1>6, NextWakeTime
<1>8. ShouldDelay(p, w) <=> (IF x < p THEN w < p /\ w > x ELSE w < p \/ w > x)
  BY <1>3 DEF ShouldDelay
<1> QED
  BY <1>1, <1>3, <1>5, <1>7, <1>8

-----------------------------------------------------------------------------
(* Each step keeps the sleepers' and the periodic tasks' times.            *)

\* A running task put to sleep for n ticks is delayed until then, unless it
\* blocks for ever.
LEMMA AddDelays ==
  ASSUME IInv, IInv', NEW t \in xReadyTasks, NEW n \in TickType \ {0}, NEW b \in BOOLEAN,
         prvAddCurrentTaskToDelayedList(t, n, b), UNCHANGED clockVars
  PROVE  /\ \A u \in Tasks \ {t} : /\ WakeOf(u)' = WakeOf(u)
                                   /\ u \in Delayed' => u \in Delayed
         /\ IF n = portMAX_DELAY /\ b THEN t \notin Delayed'
            ELSE /\ t \in Delayed' /\ WakeOf(t)' = Now + n
                 /\ xSuspendedTaskList' = xSuspendedTaskList
<1>1. /\ TypeOK /\ ListsApart /\ UnblockTimeIsNotLate /\ DelayedAhead
      /\ t \in Tasks /\ t \notin Delayed
  BY DEF IInv, TypeOK, ListsApart
<1>2. /\ \A u \in Tasks \ {t} : WakeOf(u)' = WakeOf(u)
      /\ WakeOf(t)' \in {Forever, Now + n}
  BY <1>1, AddKeeps
<1>3. \A u \in Tasks \ {t} : u \in Delayed' => u \in Delayed
  BY DEF prvAddCurrentTaskToDelayedList, Delayed
<1>4. IF n = portMAX_DELAY /\ b THEN t \notin Delayed'
      ELSE t \in Delayed' /\ xSuspendedTaskList' = xSuspendedTaskList
  BY <1>1 DEF prvAddCurrentTaskToDelayedList, Delayed
<1>5. t \in Delayed' => WakeOf(t)' # Forever
  <2>1. t \in Delayed' => WakeOf(t)' > Now'
    BY <1>1, SleepIsAheadNext DEF SleepsAhead
  <2>2. Now' = Now /\ Now \in Nat
    BY <1>1, SameNow, NowIsInt
  <2> QED
    BY <2>1, <2>2 DEF Forever
<1> QED
  BY <1>2, <1>3, <1>4, <1>5

\* The steps that change no list and no time anyone sleeps until.
LEMMA ControlKept ==
  ASSUME IInv, NEW t \in Tasks,
         \/ vTaskSuspendAll(t) \/ EndRegion(t) \/ ResumeAllDone(t)
         \/ (\E n \in Delays : xQueueReceive(t, n)) \/ LeaveReceive(t) \/ CheckTimedOut(t)
         \/ xTaskCatchUpTicks(t) \/ \E n \in 1 .. MaxPendedTicks : FinishCatchUp(t, n)
  PROVE  /\ SleepersKept /\ Delayed' = Delayed
         /\ \A u \in Tasks : WakeOf(u)' = WakeOf(u)
         /\ UNCHANGED <<eventVars, periodVars, xSuspendedTaskList>>
         /\ pc' = pc \/ pc' = [pc EXCEPT ![t] = "run"] \/ t \notin PeriodicTasks
<1>1. UNCHANGED <<tickVars, listVars, eventVars, periodVars>>
  BY ControlKeeps DEF vTaskSuspendAll, EndRegion, ResumeAllDone, xQueueReceive, LeaveReceive,
    CheckTimedOut, xTaskCatchUpTicks, FinishCatchUp
<1>2. \A u \in Tasks \ xReadyTasks : xAsked'[u] = xAsked[u]
  <2>1. xAsked \in [Tasks -> Int] /\ (step = "in" => suspendedBy \in xReadyTasks)
    BY DEF IInv, TypeOK, RegionOK
  <2>2. \/ xAsked' = xAsked
        \/ t \in xReadyTasks /\ \E v \in Int : xAsked' = [xAsked EXCEPT ![t] = v]
    <3>1. CASE \E n \in Delays : xQueueReceive(t, n)
      <4>1. PICK n \in Delays : xQueueReceive(t, n)
        BY <3>1
      <4>2. (IF n = portMAX_DELAY THEN Forever ELSE Now + n) \in Int
        BY NowIsInt, TicksAssumption DEF TickType, Forever, IInv
      <4> QED
        BY <4>1, <4>2 DEF xQueueReceive, Runs
    <3>2. CASE LeaveReceive(t) \/ CheckTimedOut(t)
      BY <2>1, <3>2 DEF LeaveReceive, CheckTimedOut, Runs, InRegion
    <3>3. CASE \/ vTaskSuspendAll(t) \/ EndRegion(t) \/ ResumeAllDone(t)
               \/ xTaskCatchUpTicks(t) \/ \E n \in 1 .. MaxPendedTicks : FinishCatchUp(t, n)
      BY <3>3 DEF vTaskSuspendAll, EndRegion, ResumeAllDone, xTaskCatchUpTicks, FinishCatchUp
    <3> QED
      BY <3>1, <3>2, <3>3
  <2> QED
    BY <2>1, <2>2
<1>3. SleepersKept /\ Delayed' = Delayed
  BY <1>1, <1>2, SameKept
<1>4. \A u \in Tasks : WakeOf(u)' = WakeOf(u)
  BY <1>1 DEF tickVars, clockVars, listVars, WakeOf, Epoch
<1>5. pc' = pc \/ pc' = [pc EXCEPT ![t] = "run"] \/ t \notin PeriodicTasks
  BY DEF vTaskSuspendAll, EndRegion, ResumeAllDone, xQueueReceive, LeaveReceive, CheckTimedOut,
    xTaskCatchUpTicks, FinishCatchUp, Return, waitVars
<1> QED
  BY <1>1, <1>3, <1>4, <1>5 DEF listVars

\* vTaskDelay puts the caller to sleep until the tick asked for.
LEMMA DelaySleeps ==
  ASSUME IInv, IInv', NEW t \in Tasks, NEW n \in Delays, vTaskDelay(t, n), SleepOK
  PROVE  SleepOK' /\ \A u \in Tasks \ {t} : WakeOf(u)' = WakeOf(u)
<1>1. /\ prvAddCurrentTaskToDelayedList(t, n, FALSE) /\ UNCHANGED clockVars
      /\ xAsked' = [xAsked EXCEPT ![t] = Now + n] /\ t \in xReadyTasks /\ n \in TickType \ {0}
  BY TicksAssumption DEF vTaskDelay, InRegion, IInv, RegionOK
<1>2. /\ \A u \in Tasks \ {t} : WakeOf(u)' = WakeOf(u) /\ (u \in Delayed' => u \in Delayed)
      /\ WakeOf(t)' = Now + n
  BY <1>1, AddDelays
<1>3. xAsked \in [Tasks -> Int] /\ Delayed' \subseteq Tasks
  BY DEF IInv, TypeOK, Delayed
<1>4. ASSUME NEW u \in Delayed' PROVE WakeOf(u)' = xAsked'[u]
  BY <1>1, <1>2, <1>3, <1>4 DEF SleepOK
<1> QED
  BY <1>2, <1>4 DEF SleepOK

\* A task that blocks again in a timed wait sleeps until the end of the whole wait.
LEMMA BlockSleeps ==
  ASSUME IInv, IInv', WaitOK, NEW t \in Tasks, CheckAndBlock(t), SleepOK
  PROVE  SleepOK' /\ \A u \in Tasks \ {t} : WakeOf(u)' = WakeOf(u)
<1>1. /\ UNCHANGED clockVars /\ UNCHANGED xAsked /\ t \in xReadyTasks
      /\ pc[t] = "wait" /\ ~TimedOut(t)
  BY DEF CheckAndBlock, InRegion, IInv, RegionOK
<1>2. xAsked \in [Tasks -> Int] /\ Delayed' \subseteq Tasks
  BY DEF IInv, TypeOK, Delayed
<1>3. CASE UNCHANGED <<xEventList, listVars, xNextTaskUnblockTime, ucDelayAborted>>
  <2>1. Delayed' = Delayed /\ \A u \in Tasks : WakeOf(u)' = WakeOf(u)
    BY <1>1, <1>3, SameNow DEF listVars, WakeOf, Delayed
  <2> QED
    BY <1>1, <1>2, <2>1 DEF SleepOK
<1>4. PICK left : left = IF WaitsForever(t) THEN portMAX_DELAY ELSE xTicksToWait[t] - Elapsed(t)
  OBVIOUS
<1>5. CASE prvAddCurrentTaskToDelayedList(t, left, TRUE)
  <2>1. /\ left \in TickType \ {0}
        /\ left # portMAX_DELAY => xAsked[t] = Now + left
    <3>1. CASE WaitsForever(t)
      BY <1>4, <3>1, TicksAssumption DEF TickType
    <3>2. CASE ~WaitsForever(t)
      <4>1. xTicksToWait[t] # portMAX_DELAY /\ ~ucDelayAborted[t]
        BY <1>1, <3>2 DEF WaitsForever, TimedOut
      <4>2. /\ xTicksToWait[t] \in Nat /\ CapturedAt(t) \in Nat /\ Now \in Nat
            /\ xTicksToWait[t] > 0 /\ xAsked[t] = CapturedAt(t) + xTicksToWait[t]
            /\ CapturedAt(t) <= Now /\ ~(Now >= xAsked[t]) /\ Elapsed(t) = Now - CapturedAt(t)
        BY <1>1, <4>1, LookInTime
      <4>3. xTicksToWait[t] <= portMAX_DELAY /\ portMAX_DELAY \in Nat
        BY TicksAssumption DEF IInv, TypeOK, TickType
      <4> QED
        BY <1>4, <3>2, <4>2, <4>3 DEF TickType
    <3> QED
      BY <3>1, <3>2
  <2>2. /\ \A u \in Tasks \ {t} : WakeOf(u)' = WakeOf(u) /\ (u \in Delayed' => u \in Delayed)
        /\ t \in Delayed' => WakeOf(t)' = Now + left /\ left # portMAX_DELAY
    BY <1>1, <1>5, <2>1, AddDelays
  <2>3. ASSUME NEW u \in Delayed' PROVE WakeOf(u)' = xAsked'[u]
    BY <1>1, <1>2, <2>1, <2>2, <2>3 DEF SleepOK
  <2> QED
    BY <2>2, <2>3 DEF SleepOK
<1> QED
  BY <1>3, <1>4, <1>5 DEF CheckAndBlock

\* xTaskDelayUntil delays the caller exactly when its wake time is ahead, until then.
LEMMA DelayUntilSleeps ==
  ASSUME IInv, IInv', NEW t \in Tasks, NEW n \in Periods, xTaskDelayUntil(t, n),
         PeriodOK, SleepOK
  PROVE  /\ SleepOK' /\ PeriodIsRight(t)'
         /\ t \in Delayed' <=> xPreviousAsked'[t] > Now
         /\ \A u \in Tasks \ {t} : WakeOf(u)' = WakeOf(u)
<1> DEFINE w == Wrap(pxPreviousWakeTime[t] + n)
<1>1. /\ UNCHANGED clockVars /\ t \in xReadyTasks /\ t \in PeriodicTasks
      /\ n \in TickType \ {0} /\ w \in TickType
      /\ UNCHANGED <<pc, eventVars, xPendedTicks>> /\ Now' = Now
      /\ pxPreviousWakeTime' = [pxPreviousWakeTime EXCEPT ![t] = w]
      /\ xPreviousAsked' = [xPreviousAsked EXCEPT ![t] = @ + n]
  BY TicksAssumption, WrapIsTick, SameNow
  DEF xTaskDelayUntil, InRegion, IInv, RegionOK, TypeOK, waitVars, pendVars
<1>2. /\ PeriodIsRight(t) /\ t \notin Delayed /\ TypeOK
      /\ xAsked \in [Tasks -> Int] /\ Delayed' \subseteq Tasks
      /\ pxPreviousWakeTime \in [Tasks -> TickType] /\ xPreviousAsked \in [Tasks -> Nat]
  BY <1>1 DEF PeriodOK, IInv, ListsApart, TypeOK, Delayed
<1>3. /\ xPreviousAsked[t] \in Nat /\ Now \in Nat
      /\ ShouldDelay(pxPreviousWakeTime[t], w) <=> xPreviousAsked[t] + n > Now
      /\ ShouldDelay(pxPreviousWakeTime[t], w)
           => Minus(w, xTickCount) = xPreviousAsked[t] + n - Now
      /\ \E j \in Nat : xPreviousAsked[t] + n = j * TickRange + w
  BY <1>1, <1>2, DelayUntilIsRight
<1>4. /\ xPreviousAsked'[t] = xPreviousAsked[t] + n /\ pxPreviousWakeTime'[t] = w
      /\ n \in Nat
  BY <1>1, <1>2, TicksAssumption DEF TickType
<1>5. /\ \E j \in Nat : xPreviousAsked'[t] = j * TickRange + pxPreviousWakeTime'[t]
      /\ Now' + xPendedTicks' <= xPreviousAsked'[t] + portMAX_DELAY
  <2>1. /\ Now + xPendedTicks <= xPreviousAsked[t] + portMAX_DELAY
        /\ xPendedTicks \in Nat /\ portMAX_DELAY \in Nat
    BY <1>2, TicksAssumption DEF PeriodIsRight, TypeOK
  <2> QED
    BY <1>1, <1>3, <1>4, <2>1
<1>6. ASSUME xSuspendedTaskList' = xSuspendedTaskList,
             (t \in Delayed' /\ WakeOf(t)' = xPreviousAsked'[t]) \/ xPreviousAsked'[t] <= Now
      PROVE  PeriodIsRight(t)'
  BY <1>1, <1>2, <1>5, <1>6 DEF PeriodIsRight, TickRange, eventVars
<1>7. CASE ShouldDelay(pxPreviousWakeTime[t], w)
  <2>1. PICK m : m = Minus(w, xTickCount)
    OBVIOUS
  <2>2. /\ m \in TickType \ {0} /\ Now + m = xPreviousAsked'[t] /\ xPreviousAsked'[t] > Now
        /\ prvAddCurrentTaskToDelayedList(t, m, FALSE)
        /\ xAsked' = [xAsked EXCEPT ![t] = xPreviousAsked'[t]]
    <3>1. m \in TickType \ {0}
      BY <1>1, <1>2, <1>7, <2>1, DelayAhead
    <3>2. Now + m = xPreviousAsked'[t] /\ xPreviousAsked'[t] > Now
      BY <1>3, <1>4, <1>7, <2>1
    <3> QED
      BY <1>7, <2>1, <3>1, <3>2 DEF xTaskDelayUntil
  <2>3. /\ \A u \in Tasks \ {t} : WakeOf(u)' = WakeOf(u) /\ (u \in Delayed' => u \in Delayed)
        /\ t \in Delayed' /\ WakeOf(t)' = Now + m /\ xSuspendedTaskList' = xSuspendedTaskList
    BY <1>1, <2>2, AddDelays
  <2>4. ASSUME NEW u \in Delayed' PROVE WakeOf(u)' = xAsked'[u]
    BY <1>2, <2>2, <2>3, <2>4 DEF SleepOK
  <2> QED
    BY <1>6, <2>2, <2>3, <2>4 DEF SleepOK
<1>8. CASE ~ShouldDelay(pxPreviousWakeTime[t], w)
  <2>1. UNCHANGED <<listVars, xAsked>>
    BY <1>8 DEF xTaskDelayUntil
  <2>2. /\ Delayed' = Delayed /\ \A u \in Tasks : WakeOf(u)' = WakeOf(u)
        /\ xSuspendedTaskList' = xSuspendedTaskList
    BY <1>1, <2>1, SameNow DEF listVars, WakeOf, Delayed
  <2>3. ~(xPreviousAsked'[t] > Now) /\ xPreviousAsked'[t] <= Now
    BY <1>3, <1>4, <1>8
  <2> QED
    BY <1>2, <1>6, <2>1, <2>2, <2>3 DEF SleepOK
<1> QED
  BY <1>7, <1>8

\* Every step keeps the sleepers' times.
LEMMA SleepStays ==
  ASSUME IInv, IInv', WaitOK, PeriodOK, SleepOK, [Next]_vars
  PROVE  SleepOK'
<1>1. SleepersKept => SleepOK'
  BY KeptStaysRight
<1>2. UNCHANGED <<tickVars, listVars, xAsked>> => SleepOK'
  BY <1>1, SameKept
<1>3. CASE xTaskIncrementTick
  <2>1. CASE suspendedBy = NoTask
    BY <1>1, <1>3, <2>1, TickKept DEF xTaskIncrementTick
  <2>2. CASE suspendedBy # NoTask
    BY <1>2, <1>3, <2>2 DEF xTaskIncrementTick
  <2> QED
    BY <2>1, <2>2
<1>4. ASSUME NEW t \in Tasks, CountPendedTick(t) PROVE SleepOK'
  BY <1>1, <1>4, TickKept DEF CountPendedTick
<1>5. ASSUME NEW t \in Tasks,
             \/ vTaskSuspendAll(t) \/ EndRegion(t) \/ ResumeAllDone(t)
             \/ (\E n \in Delays : xQueueReceive(t, n)) \/ LeaveReceive(t) \/ CheckTimedOut(t)
             \/ xTaskCatchUpTicks(t) \/ \E n \in 1 .. MaxPendedTicks : FinishCatchUp(t, n)
      PROVE  SleepOK'
  BY <1>1, <1>5, ControlKept
<1>6. ASSUME NEW t \in Tasks,
             \/ \E n \in Delays : vTaskDelay(t, n)
             \/ \E n \in Periods : xTaskDelayUntil(t, n)
             \/ CheckAndBlock(t)
      PROVE  SleepOK'
  BY <1>6, DelaySleeps, DelayUntilSleeps, BlockSleeps
<1>7. ASSUME NEW t \in Tasks,
             \/ xTaskResumeAll(t) \/ xTaskRemoveFromEventList(t) \/ FinishAbort(t) \/ vTaskResume(t)
      PROVE  SleepOK'
  <2>1. ASSUME NEW S \in SUBSET Tasks, UNCHANGED clockVars,
               MakeReady(S, pxDelayedTaskList, pxOverflowDelayedTaskList)
        PROVE  SleepOK'
    BY <1>1, <2>1, ReadyKept
  <2>2. CASE xTaskResumeAll(t)
    BY <2>1, <2>2 DEF xTaskResumeAll, IInv, TypeOK
  <2>3. CASE xTaskRemoveFromEventList(t)
    BY <1>2, <2>1, <2>3 DEF xTaskRemoveFromEventList, tickVars
  <2>4. CASE FinishAbort(t)
    <3>1. PICK u : u = CHOOSE v \in Tasks : v \notin Delayed \cup xSuspendedTaskList \cup xReadyTasks
      OBVIOUS
    <3>2. u \in Tasks
      BY <2>4, <3>1 DEF FinishAbort, InRegion, IInv, RegionOK
    <3> QED
      BY <2>1, <2>4, <3>1, <3>2 DEF FinishAbort, tickVars
  <2>5. CASE vTaskResume(t)
    BY <2>1, <2>5 DEF vTaskResume, tickVars
  <2> QED
    BY <1>7, <2>2, <2>3, <2>4, <2>5
<1>8. ASSUME NEW t \in Tasks,
             (\E u \in Tasks : xTaskAbortDelay(t, u)) \/ vTaskSuspend(t)
      PROVE  SleepOK'
  <2>1. PICK u \in Tasks :
          /\ pxDelayedTaskList' = pxDelayedTaskList \ {u}
          /\ pxOverflowDelayedTaskList' = pxOverflowDelayedTaskList \ {u}
          /\ UNCHANGED <<clockVars, xAsked>> /\ \A v \in Tasks \ {u} : xItemValue'[v] = xItemValue[v]
    BY <1>8 DEF xTaskAbortDelay, vTaskSuspend, tickVars, IInv, TypeOK
  <2>2. SleepersKept
    BY <2>1, SameNow DEF SleepersKept, WakeOf, Delayed
  <2> QED
    BY <1>1, <2>2
<1>9. CASE UNCHANGED vars
  BY <1>2, <1>9 DEF vars
<1> QED
  BY <1>3, <1>4, <1>5, <1>6, <1>7, <1>8, <1>9 DEF Next

\* Nobody interferes with the periodic tasks.
Undisturbed ==
  PeriodicTasks = {} \/ (~API("xTaskAbortDelay") /\ ~API("vTaskSuspend"))

\* Unless it is called, xTaskAbortDelay has aborted nothing.
AbortOK ==
  API("xTaskAbortDelay") \/ (step # "aborting" /\ \A t \in Tasks : ~ucDelayAborted[t])

LEMMA AbortStep ==
  ASSUME IInv, AbortOK, [Next]_vars
  PROVE  AbortOK'
<1> SUFFICES ASSUME ~API("xTaskAbortDelay") PROVE AbortOK'
  BY DEF AbortOK, API
<1>1. step # "aborting" /\ ucDelayAborted \in [Tasks -> BOOLEAN]
      /\ \A t \in Tasks : ~ucDelayAborted[t]
  BY DEF AbortOK, IInv, TypeOK
<1>2. ASSUME step' # "aborting",
             \/ ucDelayAborted' = ucDelayAborted
             \/ \E t \in Tasks : ucDelayAborted' = [ucDelayAborted EXCEPT ![t] = FALSE]
      PROVE  AbortOK'
  BY <1>1, <1>2 DEF AbortOK
<1>3. CASE xTaskIncrementTick
  BY <1>1, <1>2, <1>3 DEF xTaskIncrementTick, regionVars, abortVars
<1>4. ASSUME NEW t \in Tasks,
             \/ vTaskSuspendAll(t)
             \/ EndRegion(t) \/ xTaskResumeAll(t) \/ CountPendedTick(t) \/ ResumeAllDone(t)
             \/ \E n \in Delays : vTaskDelay(t, n) \/ xQueueReceive(t, n)
             \/ LeaveReceive(t)
             \/ CheckTimedOut(t) \/ CheckAndBlock(t)
             \/ xTaskRemoveFromEventList(t)
             \/ vTaskSuspend(t) \/ vTaskResume(t)
             \/ xTaskCatchUpTicks(t)
             \/ \E n \in 1 .. MaxPendedTicks : FinishCatchUp(t, n)
      PROVE  AbortOK'
  <2>1. step' # "aborting"
    BY <1>1, <1>4 DEF vTaskSuspendAll, EndRegion, xTaskResumeAll, CountPendedTick, ResumeAllDone,
      vTaskDelay, xQueueReceive, LeaveReceive, CheckTimedOut, CheckAndBlock,
      xTaskRemoveFromEventList, vTaskSuspend, vTaskResume, xTaskCatchUpTicks, FinishCatchUp,
      GoTo, regionVars
  <2>2. \/ ucDelayAborted' = ucDelayAborted
        \/ ucDelayAborted' = [ucDelayAborted EXCEPT ![t] = FALSE]
    BY <1>4 DEF vTaskSuspendAll, EndRegion, xTaskResumeAll, CountPendedTick, ResumeAllDone,
      vTaskDelay, xQueueReceive, LeaveReceive, CheckTimedOut, CheckAndBlock,
      xTaskRemoveFromEventList, vTaskSuspend, vTaskResume, xTaskCatchUpTicks, FinishCatchUp,
      abortVars, prvAddCurrentTaskToDelayedList
  <2> QED
    BY <1>2, <2>1, <2>2
<1>5. ASSUME NEW t \in Tasks, NEW n \in Periods, xTaskDelayUntil(t, n) PROVE AbortOK'
  BY <1>2, <1>5 DEF xTaskDelayUntil, GoTo, prvAddCurrentTaskToDelayedList
<1>6. ASSUME NEW t \in Tasks, FinishAbort(t) PROVE FALSE
  BY <1>1, <1>6 DEF FinishAbort, InRegion
<1>7. CASE UNCHANGED vars
  BY <1>1, <1>2, <1>7 DEF vars, regionVars, abortVars
<1> QED
  BY <1>3, <1>4, <1>5, <1>6, <1>7 DEF Next

\* Nothing happens to the periodic task t, unless its tick comes.
PeriodKept(t) ==
  /\ pc'[t] = "run" /\ t \notin xEventList' \cup xPendingReadyList' \cup xSuspendedTaskList'
  /\ UNCHANGED <<pxPreviousWakeTime[t], xPreviousAsked[t]>>
  /\ WakeOf(t)' = WakeOf(t) \/ WakeOf(t) <= Now'

LEMMA PeriodStaysRight ==
  ASSUME IInv, ClockSame \/ TickCounted \/ TickRaised,
         NEW t \in PeriodicTasks, PeriodIsRight(t), PeriodKept(t)
  PROVE  PeriodIsRight(t)'
<1>1. /\ t \in Tasks /\ Now \in Nat /\ xPendedTicks \in Nat /\ portMAX_DELAY \in Nat
      /\ xPreviousAsked[t] \in Nat
      /\ Now + xPendedTicks <= xPreviousAsked[t] + portMAX_DELAY
      /\ xPreviousAsked'[t] = xPreviousAsked[t]
  BY NowIsInt, TicksAssumption DEF IInv, TypeOK, PeriodIsRight, PeriodKept
<1>2. /\ Now' \in Nat /\ Now <= Now'
      /\ Now' + xPendedTicks' <= xPreviousAsked'[t] + portMAX_DELAY
  <2>1. CASE ClockSame
    BY <1>1, <2>1 DEF ClockSame
  <2>2. CASE TickCounted
    BY <1>1, <2>2 DEF TickCounted
  <2>3. CASE TickRaised
    <3>1. Now + xPendedTicks < xPreviousAsked[t] + portMAX_DELAY
      BY <1>1, <2>3 DEF TickRaised, TickAllowed
    <3> QED
      BY <1>1, <2>3, <3>1 DEF TickRaised
  <2> QED
    BY <2>1, <2>2, <2>3
<1>3. \E k \in Nat : xPreviousAsked'[t] = k * TickRange + pxPreviousWakeTime'[t]
  BY DEF PeriodIsRight, PeriodKept
<1>4. (t \in Delayed' /\ WakeOf(t)' = xPreviousAsked'[t]) \/ xPreviousAsked'[t] <= Now'
  <2>1. CASE xPreviousAsked[t] <= Now
    BY <1>1, <1>2, <2>1
  <2>2. CASE t \in Delayed /\ WakeOf(t) = xPreviousAsked[t] /\ WakeOf(t)' = WakeOf(t)
    <3>1. WakeOf(t) > Now
      BY <1>1, <2>2, DelayedWakes
    <3>2. t \in Delayed'
      BY <1>1, <2>2, <3>1 DEF WakeOf, Delayed, Awake, Forever
    <3> QED
      BY <1>1, <2>2, <3>2
  <2>3. CASE t \in Delayed /\ WakeOf(t) = xPreviousAsked[t] /\ WakeOf(t) <= Now'
    BY <1>1, <2>3
  <2> QED
    BY <2>1, <2>2, <2>3 DEF PeriodIsRight, PeriodKept
<1> QED
  BY <1>2, <1>3, <1>4 DEF PeriodIsRight, PeriodKept, TickRange

\* The tick wakes a task at its tick and leaves the others asleep.
LEMMA TickPeriods ==
  ASSUME IInv, CountTick, UNCHANGED <<pc, periodVars>>,
         NEW t \in PeriodicTasks, PeriodIsRight(t)
  PROVE  PeriodKept(t)
<1>1. /\ TypeOK /\ Now' = Now + 1 /\ Now \in Nat /\ t \in Tasks
      /\ WakeOf(t)' = IF WakeOf(t) = Now + 1 THEN Awake ELSE WakeOf(t)
      /\ xSuspendedTaskList' \subseteq xSuspendedTaskList
  BY TickKeeps, NextTick, TicksAssumption DEF IInv
<1>2. xEventList' \subseteq xEventList /\ xPendingReadyList' \subseteq xPendingReadyList
  BY DEF CountTick, LeaveEventLists, eventVars
<1> QED
  BY <1>1, <1>2 DEF PeriodKept, PeriodIsRight, periodVars

\* A periodic task is asked for nothing but its own next wake time.
LEMMA PeriodsKept ==
  ASSUME IInv, IInv', WaitOK, SleepOK, PeriodOK, AbortOK, Undisturbed, [Next]_vars,
         NEW t \in PeriodicTasks, \A n \in Periods : ~xTaskDelayUntil(t, n)
  PROVE  PeriodKept(t)
<1>1. /\ PeriodIsRight(t) /\ t \in Tasks /\ pc[t] = "run"
      /\ t \notin xEventList /\ t \notin xPendingReadyList /\ t \notin xSuspendedTaskList
      /\ ~API("xTaskAbortDelay") /\ ~API("vTaskSuspend") /\ step # "aborting"
      /\ pc \in [Tasks -> {"run", "wait"}]
      /\ pxPreviousWakeTime \in [Tasks -> TickType] /\ xPreviousAsked \in [Tasks -> Nat]
  BY TicksAssumption DEF PeriodOK, PeriodIsRight, Undisturbed, AbortOK, IInv, TypeOK
<1>2. ASSUME UNCHANGED <<pc, eventVars, xSuspendedTaskList, periodVars>>, WakeOf(t)' = WakeOf(t)
      PROVE  PeriodKept(t)
  BY <1>1, <1>2 DEF PeriodKept, eventVars, periodVars
<1>3. UNCHANGED <<tickVars, listVars, pc, eventVars, periodVars>> => PeriodKept(t)
  BY <1>2, SameNow DEF tickVars, listVars, WakeOf
<1>4. CASE xTaskIncrementTick
  <2>1. CASE suspendedBy = NoTask
    BY <1>1, <1>4, <2>1, TickPeriods DEF xTaskIncrementTick, waitVars
  <2>2. CASE suspendedBy # NoTask
    BY <1>3, <1>4, <2>2 DEF xTaskIncrementTick, waitVars
  <2> QED
    BY <2>1, <2>2
<1>5. ASSUME NEW u \in Tasks, CountPendedTick(u) PROVE PeriodKept(t)
  BY <1>1, <1>5, TickPeriods DEF CountPendedTick, waitVars
<1>6. ASSUME NEW u \in Tasks,
             \/ vTaskSuspendAll(u) \/ EndRegion(u) \/ ResumeAllDone(u)
             \/ (\E n \in Delays : xQueueReceive(u, n)) \/ LeaveReceive(u) \/ CheckTimedOut(u)
             \/ xTaskCatchUpTicks(u) \/ \E n \in 1 .. MaxPendedTicks : FinishCatchUp(u, n)
      PROVE  PeriodKept(t)
  <2>1. /\ \A v \in Tasks : WakeOf(v)' = WakeOf(v)
        /\ UNCHANGED <<eventVars, periodVars, xSuspendedTaskList>>
    BY <1>6, ControlKept
  <2>2. pc'[t] = "run"
    <3>1. CASE \E n \in Delays : xQueueReceive(u, n)
      <4>1. u # t /\ pc' = [pc EXCEPT ![u] = "wait"]
        BY <3>1 DEF xQueueReceive
      <4> QED
        BY <1>1, <4>1
    <3>2. CASE \/ vTaskSuspendAll(u) \/ EndRegion(u) \/ ResumeAllDone(u)
               \/ LeaveReceive(u) \/ CheckTimedOut(u)
               \/ xTaskCatchUpTicks(u) \/ \E n \in 1 .. MaxPendedTicks : FinishCatchUp(u, n)
      <4>1. pc' = pc \/ pc' = [pc EXCEPT ![u] = "run"]
        BY <3>2 DEF vTaskSuspendAll, EndRegion, ResumeAllDone, LeaveReceive, CheckTimedOut,
          xTaskCatchUpTicks, FinishCatchUp, Return, waitVars
      <4> QED
        BY <1>1, <4>1
    <3> QED
      BY <1>6, <3>1, <3>2
  <2> QED
    BY <1>1, <2>1, <2>2 DEF PeriodKept, eventVars, periodVars
<1>7. ASSUME NEW u \in Tasks, NEW n \in Delays, vTaskDelay(u, n) PROVE PeriodKept(t)
  <2>1. u # t /\ WakeOf(t)' = WakeOf(t)
    BY <1>1, <1>7, DelaySleeps DEF vTaskDelay
  <2>2. UNCHANGED <<pc, eventVars, periodVars>> /\ t \notin xSuspendedTaskList'
    BY <1>1, <1>7, <2>1 DEF vTaskDelay, waitVars, prvAddCurrentTaskToDelayedList
  <2> QED
    BY <1>1, <2>1, <2>2 DEF PeriodKept, eventVars, periodVars
<1>8. ASSUME NEW u \in Tasks, CheckAndBlock(u) PROVE PeriodKept(t)
  <2>1. u # t /\ WakeOf(t)' = WakeOf(t)
    BY <1>1, <1>8, BlockSleeps DEF CheckAndBlock
  <2>2. /\ UNCHANGED <<pc, xPendingReadyList, periodVars>>
        /\ t \notin xSuspendedTaskList' /\ t \notin xEventList'
    BY <1>1, <1>8, <2>1 DEF CheckAndBlock, prvAddCurrentTaskToDelayedList, listVars
  <2> QED
    BY <1>1, <2>1, <2>2 DEF PeriodKept, periodVars
<1>9. ASSUME NEW u \in Tasks, NEW n \in Periods, xTaskDelayUntil(u, n) PROVE PeriodKept(t)
  <2>1. u # t /\ WakeOf(t)' = WakeOf(t)
    BY <1>1, <1>9, DelayUntilSleeps
  <2>2. UNCHANGED <<pc, eventVars>> /\ t \notin xSuspendedTaskList'
    BY <1>1, <1>9, <2>1 DEF xTaskDelayUntil, waitVars, prvAddCurrentTaskToDelayedList, listVars
  <2>3. UNCHANGED <<pxPreviousWakeTime[t], xPreviousAsked[t]>>
    BY <1>1, <1>9, <2>1 DEF xTaskDelayUntil
  <2> QED
    BY <1>1, <2>1, <2>2, <2>3 DEF PeriodKept, eventVars
<1>10. ASSUME NEW u \in Tasks, xTaskResumeAll(u) \/ xTaskRemoveFromEventList(u)
       PROVE  PeriodKept(t)
  <2>1. /\ UNCHANGED <<pc, clockVars, periodVars>>
        /\ xEventList' \cup xPendingReadyList' \subseteq xEventList \cup xPendingReadyList
    BY <1>10 DEF xTaskResumeAll, xTaskRemoveFromEventList, waitVars, tickVars
  <2>2. ASSUME NEW S \in SUBSET Tasks, t \notin S,
               MakeReady(S, pxDelayedTaskList, pxOverflowDelayedTaskList)
        PROVE  PeriodKept(t)
    <3>1. WakeOf(t)' = WakeOf(t) /\ t \notin xSuspendedTaskList'
      BY <1>1, <2>1, <2>2, ReadyKept DEF MakeReady
    <3> QED
      BY <1>1, <2>1, <3>1 DEF PeriodKept, periodVars
  <2>3. CASE xTaskResumeAll(u)
    BY <1>1, <2>2, <2>3 DEF xTaskResumeAll, IInv, TypeOK
  <2>4. CASE xTaskRemoveFromEventList(u) /\ suspendedBy = NoTask
    BY <1>1, <2>2, <2>4 DEF xTaskRemoveFromEventList
  <2>5. CASE xTaskRemoveFromEventList(u) /\ suspendedBy # NoTask
    <3>1. WakeOf(t)' = WakeOf(t) /\ t \notin xSuspendedTaskList'
      BY <1>1, <2>1, <2>5, SameNow DEF xTaskRemoveFromEventList, listVars, WakeOf
    <3> QED
      BY <1>1, <2>1, <3>1 DEF PeriodKept, periodVars
  <2> QED
    BY <1>10, <2>3, <2>4, <2>5
<1>11. ASSUME NEW u \in Tasks, FinishAbort(u) PROVE FALSE
  BY <1>1, <1>11 DEF FinishAbort, InRegion
<1>12. CASE UNCHANGED vars
  BY <1>3, <1>12 DEF vars, waitVars
<1> QED
  BY <1>1, <1>4, <1>5, <1>6, <1>7, <1>8, <1>9, <1>10, <1>11, <1>12 DEF Next

\* The periodic tasks' wake times stay right, and a wake time ahead is slept for.
LEMMA PeriodStays ==
  ASSUME IInv, IInv', WaitOK, SleepOK, PeriodOK, AbortOK, Undisturbed, [Next]_vars,
         ClockSame \/ TickCounted \/ TickRaised
  PROVE  /\ PeriodOK'
         /\ \A t \in PeriodicTasks : xPreviousAsked'[t] # xPreviousAsked[t]
              => (t \in Delayed' <=> xPreviousAsked'[t] > Now)
<1>1. ASSUME NEW t \in PeriodicTasks
      PROVE  /\ PeriodIsRight(t)'
             /\ xPreviousAsked'[t] # xPreviousAsked[t]
                  => (t \in Delayed' <=> xPreviousAsked'[t] > Now)
  <2>1. PeriodIsRight(t) /\ t \in Tasks
    BY TicksAssumption DEF PeriodOK
  <2>2. CASE \A n \in Periods : ~xTaskDelayUntil(t, n)
    <3>1. PeriodKept(t)
      BY <2>2, PeriodsKept
    <3> QED
      BY <2>1, <3>1, PeriodStaysRight DEF PeriodKept
  <2>3. CASE \E n \in Periods : xTaskDelayUntil(t, n)
    BY <2>1, <2>3, DelayUntilSleeps
  <2> QED
    BY <2>2, <2>3
<1> QED
  BY <1>1 DEF PeriodOK

\* All of it holds when the scheduler starts.
LEMMA TimesInit == Init => CountOK /\ WaitOK /\ SleepOK /\ PeriodOK /\ AbortOK
<1> SUFFICES ASSUME Init PROVE CountOK /\ WaitOK /\ SleepOK /\ PeriodOK /\ AbortOK
  OBVIOUS
<1>1. /\ configINITIAL_TICK_COUNT \in Nat /\ TickRange \in Nat /\ portMAX_DELAY \in Nat
      /\ PeriodicTasks \subseteq Tasks
  BY TicksAssumption DEF TickType, TickRange
<1>2. Now = configINITIAL_TICK_COUNT /\ 0 * TickRange = 0
  BY <1>1 DEF Init, Now, Epoch
<1>3. CountOK /\ AbortOK
  BY <1>1, <1>2 DEF Init, CountOK, EveryTickIsCounted, AbortOK
<1>4. WaitOK /\ SleepOK
  BY DEF Init, WaitOK, SleepOK, Delayed
<1>5. PeriodOK
  <2>1. \A t \in PeriodicTasks : /\ xPreviousAsked[t] = configINITIAL_TICK_COUNT
                                 /\ pxPreviousWakeTime[t] = configINITIAL_TICK_COUNT
                                 /\ pc[t] = "run"
    BY <1>1 DEF Init
  <2>2. configINITIAL_TICK_COUNT = 0 * TickRange + configINITIAL_TICK_COUNT
    BY <1>1, <1>2
  <2>3. \A t \in PeriodicTasks :
          \E k \in Nat : xPreviousAsked[t] = k * TickRange + pxPreviousWakeTime[t]
    BY <2>1, <2>2
  <2>4. /\ \A t \in PeriodicTasks : t \notin xEventList \cup xPendingReadyList \cup xSuspendedTaskList
        /\ Now + xPendedTicks <= configINITIAL_TICK_COUNT + portMAX_DELAY
        /\ configINITIAL_TICK_COUNT <= Now
    BY <1>1, <1>2 DEF Init
  <2> QED
    BY <1>2, <2>1, <2>3, <2>4 DEF PeriodOK, PeriodIsRight
<1> QED
  BY <1>3, <1>4, <1>5

-----------------------------------------------------------------------------
(* Theorems.                                                               *)

\* The lists and the unblock time agree with the clock in every reachable state.
THEOREM Invariance == Spec => []IInv
<1>1. IInv /\ [Next]_vars => IInv'
  BY StepKeeps
<1> QED BY InitKeeps, <1>1, PTL DEF Spec

\* Every variable keeps its type for any width of the tick count.
THEOREM TypeCorrect == Spec => []TypeOK
<1>1. IInv => TypeOK
  BY DEF IInv
<1> QED BY Invariance, <1>1, PTL

\* xNextTaskUnblockTime never hides a task whose time has come, whatever is done
\* to the lists.
THEOREM UnblockTimeCorrect == Spec => []UnblockTimeIsNotLate
<1>1. IInv => UnblockTimeIsNotLate
  BY DEF IInv
<1> QED BY Invariance, <1>1, PTL

\* A ready task's event list item is linked nowhere, so its next wait can link it.
THEOREM EventItemCorrect == Spec => []EventItemIsFree
<1>1. IInv => EventItemIsFree
  BY DEF IInv, EventOK
<1> QED BY Invariance, <1>1, PTL

\* The delayed lists behave as a clock that never wraps: each delayed task wakes
\* at the tick its list item and list stand for, unless it is roused before.
THEOREM ClockCorrect == Spec => SleepsOnClock
<1>1. Init => Sleepers!Init
  <2> SUFFICES ASSUME Init PROVE Sleepers!Init
    OBVIOUS
  <2>1. Now \in Nat
    BY InitKeeps, NowIsInt DEF IInv
  <2>2. \A t \in Tasks : WakeOf(t) = Awake
    BY DEF Init, WakeOf
  <2> QED BY <2>1, <2>2 DEF Sleepers!Init, Sleepers!Awake, Awake
<1>2. IInv /\ [Next]_vars => [Sleepers!Next]_<<Now, Wakes>>
  BY StepKeeps DEF SleepStep
<1>3. <<Now, Wakes>> = <<Now, [t \in Tasks |-> WakeOf(t)]>>
  BY DEF Wakes
<1> QED BY Invariance, <1>1, <1>2, <1>3, PTL DEF Spec, SleepsOnClock, Sleepers!Spec, Wakes

\* Without xTaskCatchUpTicks, whose addition to xPendedTicks can overwrite the
\* timer interrupt's (tasks.c:3388), every tick raised is counted or pended.
THEOREM EveryTickCorrect ==
  ASSUME ~API("xTaskCatchUpTicks")
  PROVE  Spec => []EveryTickIsCounted
<1>1. IInv /\ CountOK /\ [Next]_vars => CountOK'
  BY CountStep
<1>2. CountOK => EveryTickIsCounted
  BY DEF CountOK
<1> QED BY Invariance, TimesInit, <1>1, <1>2, PTL DEF Spec

\* The ticks and the waits, as long as nobody looks later at a wait than a turn
\* of the tick count after it began.
THEOREM WaitInvariance ==
  ASSUME ~API("xTaskCatchUpTicks"), LateBound
  PROVE  Spec => [](IInv /\ CountOK /\ WaitOK)
<1>1. IInv /\ CountOK /\ WaitOK /\ [Next]_vars => CountOK' /\ WaitOK'
  BY CountStep, WaitStep
<1> QED BY Invariance, TimesInit, <1>1, PTL DEF Spec

\* At the first look after its ticks have passed xTaskCheckForTimeOut ends a
\* wait, across wraps of the tick count, aborts, suspensions and pended ticks.
THEOREM TimesOutAtLastCorrect ==
  ASSUME ~API("xTaskCatchUpTicks"), LateBound
  PROVE  Spec => []TimesOutAtLast
<1>1. IInv /\ WaitOK => TimesOutAtLast
  <2> SUFFICES ASSUME IInv, WaitOK, NEW t \in Tasks, pc[t] = "wait", xAsked[t] # Forever,
                      xAsked[t] <= Now
               PROVE  TimedOut(t)
    BY DEF TimesOutAtLast
  <2>1. xTicksToWait[t] # portMAX_DELAY
    BY DEF WaitOK, WaitIsRight
  <2> QED
    BY <2>1, LookInTime
<1> QED BY WaitInvariance, <1>1, PTL

\* No wait ends before its ticks have passed.  A task that is aborted while it
\* waits and then finds its item keeps ucDelayAborted, which ends its next wait at
\* once; hence the hypothesis that nobody aborts delays.
THEOREM TimesOutInTimeCorrect ==
  ASSUME ~API("xTaskCatchUpTicks"), ~API("xTaskAbortDelay"), LateBound
  PROVE  Spec => []TimesOutInTime
<1>1. IInv /\ AbortOK /\ [Next]_vars => AbortOK'
  BY AbortStep
<1>2. IInv /\ WaitOK /\ AbortOK => TimesOutInTime
  <2> SUFFICES ASSUME IInv, WaitOK, AbortOK, NEW t \in Tasks, pc[t] = "wait", TimedOut(t)
               PROVE  xAsked[t] # Forever /\ xAsked[t] <= Now
    BY DEF TimesOutInTime
  <2>1. ~ucDelayAborted[t] /\ xTicksToWait[t] # portMAX_DELAY
    BY DEF AbortOK, TimedOut, WaitsForever
  <2>2. xTicksToWait[t] = 0 \/ xTicksToWait[t] > 0
    BY <2>1, LookInTime
  <2>3. xAsked[t] # Forever /\ (xTicksToWait[t] = 0 => xAsked[t] <= Now)
    BY <2>1, LookInTime
  <2>4. xTicksToWait[t] > 0 => Now >= xAsked[t] /\ Now \in Nat /\ xAsked[t] \in Int
    BY <2>1, LookInTime
  <2> QED
    BY <2>2, <2>3, <2>4
<1> QED BY WaitInvariance, TimesInit, <1>1, <1>2, PTL DEF Spec

\* The sleepers and the periodic tasks, when nobody interferes with the latter.
THEOREM TimesInvariance ==
  ASSUME ~API("xTaskCatchUpTicks"), LateBound, Undisturbed
  PROVE  Spec => [](IInv /\ CountOK /\ WaitOK /\ SleepOK /\ PeriodOK /\ AbortOK)
<1>1. ASSUME IInv, IInv', CountOK, WaitOK, SleepOK, PeriodOK, AbortOK, [Next]_vars
      PROVE  SleepOK' /\ PeriodOK' /\ AbortOK'
  BY <1>1, SleepStays, PeriodStays, AbortStep, CountStep
<1>2. /\ IInv /\ CountOK /\ WaitOK /\ SleepOK /\ PeriodOK /\ AbortOK /\ [Next]_vars /\ IInv'
      => SleepOK' /\ PeriodOK' /\ AbortOK'
  BY <1>1
<1> QED BY WaitInvariance, TimesInit, <1>2, PTL DEF Spec

\* A sleeping task's list and list item wake it at the tick its call was to end
\* at, however often its wait was interrupted and taken up again, and across
\* every wrap.
THEOREM SleepsCorrect ==
  ASSUME ~API("xTaskCatchUpTicks"), LateBound, Undisturbed
  PROVE  Spec => []SleepsUntilAsked
<1>1. IInv /\ SleepOK => SleepsUntilAsked
  <2>1. IInv => Delayed \subseteq Tasks
    BY DEF IInv, TypeOK, Delayed
  <2> QED
    BY <2>1, DelayedWakes DEF SleepOK, SleepsUntilAsked
<1> QED BY TimesInvariance, <1>1, PTL

\* xTaskDelayUntil decides by two comparisons of wrapping tick counts as it would
\* without wrap: it delays exactly when the next wake time is ahead.
THEOREM DelayUntilCorrect ==
  ASSUME ~API("xTaskCatchUpTicks"), LateBound, Undisturbed
  PROVE  Spec => DelaysIfAhead
<1>1. ASSUME IInv, IInv', CountOK, WaitOK, SleepOK, PeriodOK, AbortOK, [Next]_vars
      PROVE  \A t \in PeriodicTasks : xPreviousAsked'[t] # xPreviousAsked[t]
               => (t \in Delayed' <=> xPreviousAsked'[t] > Now)
  BY <1>1, PeriodStays, CountStep
<1>2. /\ IInv /\ CountOK /\ WaitOK /\ SleepOK /\ PeriodOK /\ AbortOK /\ [Next]_vars /\ IInv'
      => [\A t \in PeriodicTasks : xPreviousAsked'[t] # xPreviousAsked[t]
               => (t \in Delayed' <=> xPreviousAsked'[t] > Now)]_vars
  BY <1>1
<1> QED BY TimesInvariance, <1>2, PTL DEF Spec, DelaysIfAhead
==============================================================================
