---------------------------- MODULE NotifyProofs ----------------------------
(***************************************************************************)
(* Theorems about Notify, for any tasks, any number of notifications in    *)
(* each and any use of them: nobody sleeps on a notification it has, a     *)
(* task is marked as waiting only while it waits, and no mail is lost.     *)
(***************************************************************************)
EXTENDS Notify, TLAPS

\* A function of tasks and indices, whatever its values.
IsArray(f) == f = [t \in Tasks |-> [i \in Indices |-> f[t][i]]]

Shape ==
  /\ IsArray(ulNotifiedValue)
  /\ ucNotifyState \in [Tasks -> [Indices -> NotifyStates]]
  /\ stateList \in [Tasks -> StateLists]
  /\ pc \in [Tasks -> {"idle", "take", "wait"}]
  /\ call \in [Tasks -> [index : Indices \cup {0}, clears : BOOLEAN]]
  /\ mail \in [Tasks -> Values \cup {NoMail}]

\* A call is about an index, and a take about one that counts.
CallsOK ==
  \A t \in Tasks :
    /\ pc[t] # "idle" => call[t].index \in Indices
    /\ pc[t] = "take" => "ulTaskGenericNotifyTake" \in UsedActions[call[t].index]

-----------------------------------------------------------------------------
(* The shape of the variables.                                             *)

IsUpdate(f, g, t, i, v) == g = [f EXCEPT ![t][i] = v]

LEMMA ArraySet ==
  ASSUME NEW f, NEW g, IsArray(f), NEW t, NEW i, NEW v, IsUpdate(f, g, t, i, v)
  PROVE  /\ IsArray(g)
         /\ \A u \in Tasks, j \in Indices : g[u][j] = IF u = t /\ j = i THEN v ELSE f[u][j]
  BY Zenon DEF IsArray, IsUpdate

LEMMA StateSet ==
  ASSUME Shape, NEW t \in Tasks, NEW i \in Indices, NEW s \in NotifyStates, SetState(t, i, s)
  PROVE  /\ ucNotifyState' \in [Tasks -> [Indices -> NotifyStates]]
         /\ \A u \in Tasks, j \in Indices :
              ucNotifyState'[u][j] = IF u = t /\ j = i THEN s ELSE ucNotifyState[u][j]
  BY SMT DEF Shape, SetState

LEMMA ValueSet ==
  ASSUME Shape, NEW t \in Tasks, NEW i \in Indices, NEW v, SetValue(t, i, v)
  PROVE  /\ IsArray(ulNotifiedValue)'
         /\ \A u \in Tasks, j \in Indices :
              ulNotifiedValue'[u][j] = IF u = t /\ j = i THEN v ELSE ulNotifiedValue[u][j]
<1>1. IsUpdate(ulNotifiedValue, ulNotifiedValue', t, i, v)
  BY DEF SetValue, IsUpdate
<1>2. IsArray(ulNotifiedValue)
  BY DEF Shape
<1>3. /\ IsArray(ulNotifiedValue')
      /\ \A u \in Tasks, j \in Indices :
           ulNotifiedValue'[u][j] = IF u = t /\ j = i THEN v ELSE ulNotifiedValue[u][j]
  BY <1>1, <1>2, ArraySet
<1>4. IsArray(ulNotifiedValue') <=> IsArray(ulNotifiedValue)'
  BY DEF IsArray
<1> QED
  BY <1>3, <1>4, Zenon

\* A notification changes the value it is about; as mail it is kept until read.
LEMMA NotifiedEffect ==
  ASSUME Shape, NEW t \in Tasks, NEW i \in Indices, Notified(t, i)
  PROVE  /\ IsArray(ulNotifiedValue)'
         /\ mail' \in [Tasks -> Values \cup {NoMail}]
         /\ \A u \in Tasks, j \in Indices :
              u # t \/ j # i => ulNotifiedValue'[u][j] = ulNotifiedValue[u][j]
         /\ \A u \in Tasks : u # t \/ i # MailIndex => mail'[u] = mail[u]
<1>1. PICK v \in Values :
        /\ \E w : SetValue(t, i, w)
        /\ \/ mail' = [mail EXCEPT ![t] = v] /\ i = MailIndex
           \/ mail' = mail
  BY DEF Notified
<1>2. mail' \in [Tasks -> Values \cup {NoMail}]
  BY <1>1 DEF Shape
<1>3. \A u \in Tasks : u # t \/ i # MailIndex => mail'[u] = mail[u]
  BY <1>1 DEF Shape
<1>4. PICK w : SetValue(t, i, w)
  BY <1>1
<1>5. /\ IsArray(ulNotifiedValue)'
      /\ \A u \in Tasks, j \in Indices :
           ulNotifiedValue'[u][j] = IF u = t /\ j = i THEN w ELSE ulNotifiedValue[u][j]
  BY <1>4, ValueSet
<1> QED
  BY <1>2, <1>3, <1>5

\* The two ways to wake the task that is notified.
LEMMA WakeEffect ==
  ASSUME Shape, NEW t \in Tasks, NEW i \in Indices, WakeFromISR(t, i)
  PROVE  /\ stateList' \in [Tasks -> StateLists]
         /\ \A u \in Tasks \ {t} : stateList'[u] = stateList[u]
         /\ stateList'[t] \in {stateList[t], "ready"}
         /\ xPendingReadyList' \in {xPendingReadyList, xPendingReadyList \cup {t}}
         /\ UNCHANGED <<uxSchedulerSuspended, aborting, suspended, pc, call>>
         /\ SetState(t, i, "RECEIVED")
         /\ ucNotifyState[t][i] = "WAITING" /\ ~uxSchedulerSuspended => stateList'[t] = "ready"
         /\ ucNotifyState[t][i] = "WAITING" /\ uxSchedulerSuspended
              => t \in xPendingReadyList' /\ stateList' = stateList
         /\ ucNotifyState[t][i] # "WAITING" \/ ~uxSchedulerSuspended
              => xPendingReadyList' = xPendingReadyList
         /\ ucNotifyState[t][i] # "WAITING" => stateList' = stateList
<1>1. \/ /\ ucNotifyState[t][i] # "WAITING"
         /\ UNCHANGED <<stateList, xPendingReadyList>>
      \/ /\ ucNotifyState[t][i] = "WAITING" /\ ~uxSchedulerSuspended
         /\ stateList' = [stateList EXCEPT ![t] = "ready"] /\ UNCHANGED xPendingReadyList
      \/ /\ ucNotifyState[t][i] = "WAITING" /\ uxSchedulerSuspended
         /\ xPendingReadyList' = xPendingReadyList \cup {t} /\ UNCHANGED stateList
  BY DEF WakeFromISR, MakeReady
<1>2. SetState(t, i, "RECEIVED") /\ UNCHANGED <<uxSchedulerSuspended, aborting, suspended, pc, call>>
  BY DEF WakeFromISR, callVars
<1> QED
  BY <1>1, <1>2 DEF Shape, StateLists

-----------------------------------------------------------------------------
(* Every step keeps the shape and the calls.                               *)

TaskStep(t) ==
  \/ ulTaskGenericNotifyTake(t) \/ xTaskGenericNotifyWait(t)
  \/ TakeNotification(t) \/ ReadNotification(t)
  \/ xTaskIncrementTick(t) \/ xTaskAbortDelay(t) \/ FinishAbort(t)
  \/ vTaskSuspend(t) \/ vTaskResume(t) \/ xTaskResumeFromISR(t)

IndexStep(t, i) ==
  \/ xTaskGenericNotify(t, i) \/ xTaskGenericNotifyFromISR(t, i)
  \/ vTaskGenericNotifyGiveFromISR(t, i)
  \/ xTaskGenericNotifyStateClear(t, i) \/ ulTaskGenericNotifyValueClear(t, i)

LEMMA NextIs ==
  Next => \/ vTaskSuspendAll \/ xTaskResumeAll
          \/ \E t \in Tasks : TaskStep(t)
          \/ \E t \in Tasks, i \in Indices : IndexStep(t, i)
  BY DEF Next, TaskStep, IndexStep

LEMMA SleepEffect ==
  ASSUME Shape, NEW t \in Tasks, NEW wait \in Waits, Sleep(t, wait)
  PROVE  /\ stateList' \in [Tasks -> StateLists]
         /\ \A u \in Tasks \ {t} : stateList'[u] = stateList[u]
         /\ stateList'[t] \in {stateList[t], "delayed", "suspended"}
<1>1. \/ wait = "no" /\ stateList' = [stateList EXCEPT ![t] = @]
      \/ wait = "timed" /\ stateList' = [stateList EXCEPT ![t] = "delayed"]
      \/ wait = "forever" /\ stateList' = [stateList EXCEPT ![t] = "suspended"]
  BY DEF Sleep, Waits
<1> QED
  BY <1>1 DEF Shape, StateLists

LEMMA InitShape == Init => Shape /\ CallsOK
  BY DEF Init, Shape, CallsOK, IsArray, NotifyStates, StateLists, NoCall

\* The first critical section of a take.
LEMMA TakeEffect ==
  ASSUME Shape, NEW t \in Tasks, ulTaskGenericNotifyTake(t)
  PROVE  \E i \in Indices, clears \in BOOLEAN :
           /\ Runs(t, "idle")
           /\ "ulTaskGenericNotifyTake" \in UsedActions[i]
           /\ call' = [call EXCEPT ![t] = [index |-> i, clears |-> clears]]
           /\ pc' = [pc EXCEPT ![t] = "take"]
           /\ stateList' \in [Tasks -> StateLists]
           /\ \A u \in Tasks \ {t} : stateList'[u] = stateList[u]
           /\ stateList'[t] \in {stateList[t], "delayed", "suspended"}
           /\ \/ ulNotifiedValue[t][i] = 0 /\ SetState(t, i, "WAITING")
              \/ UNCHANGED <<ucNotifyState, stateList>>
           /\ UNCHANGED <<ulNotifiedValue, mail, xPendingReadyList, uxSchedulerSuspended,
                          aborting, suspended>>
<1>1. PICK i \in Indices, clears \in BOOLEAN, wait \in Waits :
        /\ "ulTaskGenericNotifyTake" \in UsedActions[i]
        /\ call' = [call EXCEPT ![t] = [index |-> i, clears |-> clears]]
        /\ \/ ulNotifiedValue[t][i] = 0 /\ SetState(t, i, "WAITING") /\ Sleep(t, wait)
           \/ UNCHANGED <<ucNotifyState, stateList>>
  BY DEF ulTaskGenericNotifyTake
<1>2. /\ Runs(t, "idle") /\ pc' = [pc EXCEPT ![t] = "take"]
      /\ UNCHANGED <<ulNotifiedValue, mail, xPendingReadyList, uxSchedulerSuspended,
                     aborting, suspended>>
  BY DEF ulTaskGenericNotifyTake
<1>3. /\ stateList' \in [Tasks -> StateLists]
      /\ \A u \in Tasks \ {t} : stateList'[u] = stateList[u]
      /\ stateList'[t] \in {stateList[t], "delayed", "suspended"}
  BY <1>1, SleepEffect DEF Shape
<1> QED
  BY <1>1, <1>2, <1>3

\* The first critical section of a wait.
LEMMA WaitEffect ==
  ASSUME Shape, NEW t \in Tasks, xTaskGenericNotifyWait(t)
  PROVE  \E i \in Indices, clears \in BOOLEAN :
           /\ Runs(t, "idle")
           /\ "xTaskGenericNotifyWait" \in UsedActions[i]
           /\ call' = [call EXCEPT ![t] = [index |-> i, clears |-> clears]]
           /\ pc' = [pc EXCEPT ![t] = "wait"]
           /\ stateList' \in [Tasks -> StateLists]
           /\ \A u \in Tasks \ {t} : stateList'[u] = stateList[u]
           /\ stateList'[t] \in {stateList[t], "delayed", "suspended"}
           /\ \/ /\ ucNotifyState[t][i] # "RECEIVED" /\ SetState(t, i, "WAITING")
                 /\ SetValue(t, i, 0) \/ UNCHANGED ulNotifiedValue
              \/ UNCHANGED <<ulNotifiedValue, ucNotifyState, stateList>>
           /\ UNCHANGED <<mail, xPendingReadyList, uxSchedulerSuspended, aborting, suspended>>
<1>1. PICK i \in Indices, clears \in BOOLEAN, wait \in Waits :
        /\ "xTaskGenericNotifyWait" \in UsedActions[i]
        /\ call' = [call EXCEPT ![t] = [index |-> i, clears |-> clears]]
        /\ \/ /\ ucNotifyState[t][i] # "RECEIVED" /\ SetState(t, i, "WAITING")
              /\ SetValue(t, i, 0) \/ UNCHANGED ulNotifiedValue
              /\ Sleep(t, wait)
           \/ UNCHANGED <<ulNotifiedValue, ucNotifyState, stateList>>
  BY DEF xTaskGenericNotifyWait
<1>2. /\ Runs(t, "idle") /\ pc' = [pc EXCEPT ![t] = "wait"]
      /\ UNCHANGED <<mail, xPendingReadyList, uxSchedulerSuspended, aborting, suspended>>
  BY DEF xTaskGenericNotifyWait
<1>3. /\ stateList' \in [Tasks -> StateLists]
      /\ \A u \in Tasks \ {t} : stateList'[u] = stateList[u]
      /\ stateList'[t] \in {stateList[t], "delayed", "suspended"}
  BY <1>1, SleepEffect DEF Shape
<1> QED
  BY <1>1, <1>2, <1>3

\* The two calls return.
LEMMA ReturnEffect ==
  ASSUME Shape, CallsOK, NEW t \in Tasks, TakeNotification(t) \/ ReadNotification(t)
  PROVE  LET i == call[t].index IN
         /\ i \in Indices /\ pc[t] # "idle" /\ stateList[t] = "ready"
         /\ SetState(t, i, "NOT_WAITING")
         /\ UNCHANGED ulNotifiedValue \/ \E v : SetValue(t, i, v)
         /\ pc' = [pc EXCEPT ![t] = "idle"] /\ call' = [call EXCEPT ![t] = NoCall]
         /\ mail' \in [Tasks -> Values \cup {NoMail}]
         /\ \A u \in Tasks : u # t \/ i # MailIndex => mail'[u] = mail[u]
         /\ i = MailIndex /\ pc[t] # "take" => mail'[t] = NoMail
         /\ UNCHANGED listVars
<1> DEFINE i == call[t].index
<1>1. i \in Indices /\ pc[t] # "idle" /\ stateList[t] = "ready"
  BY DEF TakeNotification, ReadNotification, Runs, CallsOK
<1>2. /\ SetState(t, i, "NOT_WAITING")
      /\ UNCHANGED ulNotifiedValue \/ \E v : SetValue(t, i, v)
      /\ pc' = [pc EXCEPT ![t] = "idle"] /\ call' = [call EXCEPT ![t] = NoCall]
      /\ UNCHANGED listVars
  BY DEF TakeNotification, ReadNotification
<1>3. CASE TakeNotification(t)
  BY <1>1, <1>2, <1>3 DEF TakeNotification, Runs, Shape
<1>4. CASE ReadNotification(t)
  <2>1. mail' = IF i = MailIndex THEN [mail EXCEPT ![t] = NoMail] ELSE mail
    BY <1>4 DEF ReadNotification
  <2> QED
    BY <1>1, <1>2, <2>1 DEF Shape
<1> QED
  BY <1>3, <1>4

LEMMA NotifiesEffect ==
  ASSUME Shape, NEW t \in Tasks, NEW i \in Indices,
         xTaskGenericNotifyFromISR(t, i) \/ vTaskGenericNotifyGiveFromISR(t, i)
  PROVE  /\ WakeFromISR(t, i)
         /\ IsArray(ulNotifiedValue)' /\ mail' \in [Tasks -> Values \cup {NoMail}]
         /\ \A u \in Tasks, j \in Indices :
              u # t \/ j # i => ulNotifiedValue'[u][j] = ulNotifiedValue[u][j]
         /\ \A u \in Tasks : u # t \/ i # MailIndex => mail'[u] = mail[u]
<1>1. CASE xTaskGenericNotifyFromISR(t, i)
  BY <1>1, NotifiedEffect DEF xTaskGenericNotifyFromISR
<1>2. CASE vTaskGenericNotifyGiveFromISR(t, i)
  <2>1. PICK v : SetValue(t, i, v)
    BY <1>2 DEF vTaskGenericNotifyGiveFromISR
  <2>2. WakeFromISR(t, i) /\ mail' = mail
    BY <1>2 DEF vTaskGenericNotifyGiveFromISR
  <2> QED
    BY <2>1, <2>2, ValueSet DEF Shape
<1> QED
  BY <1>1, <1>2

SameCall == UNCHANGED <<pc, call>>

LEMMA ShapeFrom ==
  ASSUME Shape, CallsOK, SameCall,
         IsArray(ulNotifiedValue)' \/ UNCHANGED ulNotifiedValue,
         ucNotifyState' \in [Tasks -> [Indices -> NotifyStates]],
         stateList' \in [Tasks -> StateLists],
         mail' \in [Tasks -> Values \cup {NoMail}]
  PROVE  Shape' /\ CallsOK'
<1>1. IsArray(ulNotifiedValue)'
  BY DEF IsArray, Shape
<1> QED
  BY <1>1 DEF Shape, CallsOK, SameCall

LEMMA TaskStepShape ==
  ASSUME Shape, CallsOK, NEW t \in Tasks, TaskStep(t)
  PROVE  Shape' /\ CallsOK'
<1>1. CASE ulTaskGenericNotifyTake(t)
  <2>1. PICK i \in Indices, clears \in BOOLEAN :
           /\ "ulTaskGenericNotifyTake" \in UsedActions[i]
           /\ call' = [call EXCEPT ![t] = [index |-> i, clears |-> clears]]
           /\ pc' = [pc EXCEPT ![t] = "take"]
           /\ stateList' \in [Tasks -> StateLists]
           /\ SetState(t, i, "WAITING") \/ UNCHANGED ucNotifyState
           /\ UNCHANGED <<ulNotifiedValue, mail>>
    BY <1>1, TakeEffect
  <2>2. ucNotifyState' \in [Tasks -> [Indices -> NotifyStates]]
    BY <2>1, StateSet DEF Shape, NotifyStates
  <2>3. IsArray(ulNotifiedValue)'
    BY <2>1 DEF Shape, IsArray
  <2>4. /\ pc' \in [Tasks -> {"idle", "take", "wait"}]
        /\ call' \in [Tasks -> [index : Indices \cup {0}, clears : BOOLEAN]]
        /\ CallsOK'
    BY <2>1 DEF Shape, CallsOK
  <2> QED
    BY <2>1, <2>2, <2>3, <2>4 DEF Shape
<1>2. CASE xTaskGenericNotifyWait(t)
  <2>1. PICK i \in Indices, clears \in BOOLEAN :
           /\ call' = [call EXCEPT ![t] = [index |-> i, clears |-> clears]]
           /\ pc' = [pc EXCEPT ![t] = "wait"]
           /\ stateList' \in [Tasks -> StateLists]
           /\ SetState(t, i, "WAITING") \/ UNCHANGED ucNotifyState
           /\ SetValue(t, i, 0) \/ UNCHANGED ulNotifiedValue
           /\ UNCHANGED mail
    BY <1>2, WaitEffect
  <2>2. ucNotifyState' \in [Tasks -> [Indices -> NotifyStates]]
    BY <2>1, StateSet DEF Shape, NotifyStates
  <2>3. UNCHANGED ulNotifiedValue => IsArray(ulNotifiedValue)'
    BY DEF Shape, IsArray
  <2>4. IsArray(ulNotifiedValue)'
    BY <2>1, <2>3, ValueSet
  <2>5. /\ pc' \in [Tasks -> {"idle", "take", "wait"}]
        /\ call' \in [Tasks -> [index : Indices \cup {0}, clears : BOOLEAN]]
        /\ CallsOK'
    BY <2>1 DEF Shape, CallsOK
  <2> QED
    BY <2>1, <2>2, <2>4, <2>5 DEF Shape
<1>3. CASE TakeNotification(t) \/ ReadNotification(t)
  <2> DEFINE i == call[t].index
  <2>1. /\ i \in Indices
        /\ SetState(t, i, "NOT_WAITING")
        /\ UNCHANGED ulNotifiedValue \/ \E v : SetValue(t, i, v)
        /\ pc' = [pc EXCEPT ![t] = "idle"] /\ call' = [call EXCEPT ![t] = NoCall]
        /\ mail' \in [Tasks -> Values \cup {NoMail}]
        /\ UNCHANGED listVars
    BY <1>3, ReturnEffect
  <2>2. ucNotifyState' \in [Tasks -> [Indices -> NotifyStates]]
    BY <2>1, StateSet DEF NotifyStates
  <2>3. UNCHANGED ulNotifiedValue => IsArray(ulNotifiedValue)'
    BY DEF Shape, IsArray
  <2>4. IsArray(ulNotifiedValue)'
    BY <2>1, <2>3, ValueSet
  <2>5. /\ pc' \in [Tasks -> {"idle", "take", "wait"}]
        /\ call' \in [Tasks -> [index : Indices \cup {0}, clears : BOOLEAN]]
        /\ CallsOK'
    BY <2>1 DEF Shape, CallsOK, NoCall
  <2> QED
    BY <2>1, <2>2, <2>4, <2>5 DEF Shape, listVars
<1>4. CASE \/ xTaskIncrementTick(t) \/ xTaskAbortDelay(t) \/ FinishAbort(t)
           \/ vTaskResume(t) \/ xTaskResumeFromISR(t)
  <2>1. SameCall /\ UNCHANGED notifyVars
    BY <1>4 DEF xTaskIncrementTick, xTaskAbortDelay, FinishAbort, vTaskResume,
         xTaskResumeFromISR, SameCall, callVars
  <2>2. \/ stateList' = [stateList EXCEPT ![t] = "ready"]
        \/ stateList' = [stateList EXCEPT ![t] = "none"]
        \/ UNCHANGED stateList
    BY <1>4 DEF xTaskIncrementTick, xTaskAbortDelay, FinishAbort, vTaskResume,
         xTaskResumeFromISR, MakeReady
  <2>3. stateList' \in [Tasks -> StateLists]
    BY <2>2 DEF Shape, StateLists
  <2> QED
    BY <2>1, <2>3, ShapeFrom DEF Shape, notifyVars
<1>5. CASE vTaskSuspend(t)
  <2>1. SameCall /\ UNCHANGED <<ulNotifiedValue, mail>>
    BY <1>5 DEF vTaskSuspend, SameCall, callVars
  <2>2. stateList' \in [Tasks -> StateLists]
    BY <1>5 DEF vTaskSuspend, Shape, StateLists
  <2>3. ucNotifyState' \in [Tasks -> [Indices -> NotifyStates]]
    BY <1>5 DEF vTaskSuspend, Shape, NotifyStates
  <2> QED
    BY <2>1, <2>2, <2>3, ShapeFrom DEF Shape
<1> QED
  BY <1>1, <1>2, <1>3, <1>4, <1>5 DEF TaskStep

LEMMA IndexStepShape ==
  ASSUME Shape, CallsOK, NEW t \in Tasks, NEW i \in Indices, IndexStep(t, i)
  PROVE  Shape' /\ CallsOK'
<1>1. CASE xTaskGenericNotify(t, i)
  <2>1. /\ Notified(t, i) /\ SetState(t, i, "RECEIVED") /\ SameCall
        /\ stateList' = [stateList EXCEPT ![t] = "ready"] \/ UNCHANGED stateList
    BY <1>1 DEF xTaskGenericNotify, MakeReady, SameCall, callVars
  <2>2. stateList' \in [Tasks -> StateLists]
    BY <2>1 DEF Shape, StateLists
  <2>3. ucNotifyState' \in [Tasks -> [Indices -> NotifyStates]]
    BY <2>1, StateSet DEF NotifyStates
  <2> QED
    BY <2>1, <2>2, <2>3, NotifiedEffect, ShapeFrom
<1>2. CASE xTaskGenericNotifyFromISR(t, i) \/ vTaskGenericNotifyGiveFromISR(t, i)
  <2>1. /\ WakeFromISR(t, i)
        /\ IsArray(ulNotifiedValue)' /\ mail' \in [Tasks -> Values \cup {NoMail}]
    BY <1>2, NotifiesEffect
  <2>2. SetState(t, i, "RECEIVED") /\ SameCall /\ stateList' \in [Tasks -> StateLists]
    BY <2>1, WakeEffect DEF SameCall
  <2>3. ucNotifyState' \in [Tasks -> [Indices -> NotifyStates]]
    BY <2>2, StateSet DEF NotifyStates
  <2> QED
    BY <2>1, <2>2, <2>3, ShapeFrom
<1>3. CASE xTaskGenericNotifyStateClear(t, i)
  <2>1. /\ SetState(t, i, "NOT_WAITING") /\ SameCall
        /\ UNCHANGED <<ulNotifiedValue, mail, stateList>>
    BY <1>3 DEF xTaskGenericNotifyStateClear, SameCall, callVars, listVars
  <2>2. ucNotifyState' \in [Tasks -> [Indices -> NotifyStates]]
    BY <2>1, StateSet DEF NotifyStates
  <2> QED
    BY <2>1, <2>2, ShapeFrom DEF Shape
<1>4. CASE ulTaskGenericNotifyValueClear(t, i)
  <2>1. SetValue(t, i, 0) /\ SameCall /\ UNCHANGED <<ucNotifyState, mail, stateList>>
    BY <1>4 DEF ulTaskGenericNotifyValueClear, SameCall, callVars, listVars
  <2>2. IsArray(ulNotifiedValue)'
    BY <2>1, ValueSet
  <2> QED
    BY <2>1, <2>2, ShapeFrom DEF Shape
<1> QED
  BY <1>1, <1>2, <1>3, <1>4 DEF IndexStep

LEMMA ShapeKept ==
  ASSUME Shape, CallsOK, [Next]_vars
  PROVE  Shape' /\ CallsOK'
<1>1. CASE vTaskSuspendAll \/ xTaskResumeAll \/ UNCHANGED vars
  <2>1. SameCall /\ UNCHANGED notifyVars
    BY <1>1 DEF vTaskSuspendAll, xTaskResumeAll, vars, SameCall, callVars
  <2>2. stateList' \in [Tasks -> StateLists]
    BY <1>1 DEF vTaskSuspendAll, xTaskResumeAll, vars, listVars, Shape, StateLists
  <2> QED
    BY <2>1, <2>2, ShapeFrom DEF Shape, notifyVars
<1>2. ASSUME NEW t \in Tasks, TaskStep(t) PROVE Shape' /\ CallsOK'
  BY <1>2, TaskStepShape
<1>3. ASSUME NEW t \in Tasks, NEW i \in Indices, IndexStep(t, i) PROVE Shape' /\ CallsOK'
  BY <1>3, IndexStepShape
<1> QED
  BY <1>1, <1>2, <1>3, NextIs

-----------------------------------------------------------------------------
(* A step of or about one task leaves the others alone.                    *)

Untouched(u) ==
  /\ UNCHANGED <<pc[u], call[u], stateList[u], mail[u]>>
  /\ \A j \in Indices : UNCHANGED <<ucNotifyState[u][j], ulNotifiedValue[u][j]>>
  /\ u \in suspended' <=> u \in suspended
  /\ u \in xPendingReadyList' <=> u \in xPendingReadyList

LEMMA TaskStepUntouched ==
  ASSUME Shape, CallsOK, NEW t \in Tasks, TaskStep(t), NEW u \in Tasks, u # t
  PROVE  Untouched(u)
<1>1. CASE ulTaskGenericNotifyTake(t)
  <2>1. PICK i \in Indices, clears \in BOOLEAN :
           /\ call' = [call EXCEPT ![t] = [index |-> i, clears |-> clears]]
           /\ pc' = [pc EXCEPT ![t] = "take"]
           /\ stateList'[u] = stateList[u]
           /\ SetState(t, i, "WAITING") \/ UNCHANGED ucNotifyState
           /\ UNCHANGED <<ulNotifiedValue, mail, xPendingReadyList, suspended>>
    BY <1>1, TakeEffect
  <2>2. \A j \in Indices : UNCHANGED ucNotifyState[u][j]
    BY <2>1, StateSet DEF NotifyStates
  <2> QED
    BY <2>1, <2>2 DEF Untouched, Shape
<1>2. CASE xTaskGenericNotifyWait(t)
  <2>1. PICK i \in Indices, clears \in BOOLEAN :
           /\ call' = [call EXCEPT ![t] = [index |-> i, clears |-> clears]]
           /\ pc' = [pc EXCEPT ![t] = "wait"]
           /\ stateList'[u] = stateList[u]
           /\ SetState(t, i, "WAITING") \/ UNCHANGED ucNotifyState
           /\ SetValue(t, i, 0) \/ UNCHANGED ulNotifiedValue
           /\ UNCHANGED <<mail, xPendingReadyList, suspended>>
    BY <1>2, WaitEffect
  <2>2. \A j \in Indices : UNCHANGED ucNotifyState[u][j]
    BY <2>1, StateSet DEF NotifyStates
  <2>3. \A j \in Indices : UNCHANGED ulNotifiedValue[u][j]
    BY <2>1, ValueSet
  <2> QED
    BY <2>1, <2>2, <2>3 DEF Untouched, Shape
<1>3. CASE TakeNotification(t) \/ ReadNotification(t)
  <2> DEFINE i == call[t].index
  <2>1. /\ i \in Indices
        /\ SetState(t, i, "NOT_WAITING")
        /\ UNCHANGED ulNotifiedValue \/ \E v : SetValue(t, i, v)
        /\ pc' = [pc EXCEPT ![t] = "idle"] /\ call' = [call EXCEPT ![t] = NoCall]
        /\ mail'[u] = mail[u]
        /\ UNCHANGED <<stateList, xPendingReadyList, suspended>>
    BY <1>3, ReturnEffect DEF listVars
  <2>2. \A j \in Indices : UNCHANGED ucNotifyState[u][j]
    BY <2>1, StateSet DEF NotifyStates
  <2>3. \A j \in Indices : UNCHANGED ulNotifiedValue[u][j]
    BY <2>1, ValueSet
  <2> QED
    BY <2>1, <2>2, <2>3 DEF Untouched, Shape
<1>4. CASE \/ xTaskIncrementTick(t) \/ xTaskAbortDelay(t) \/ FinishAbort(t)
           \/ vTaskResume(t) \/ xTaskResumeFromISR(t)
  <2>1. /\ UNCHANGED <<pc, call, ucNotifyState, ulNotifiedValue, mail>>
        /\ suspended' \in {suspended, suspended \ {t}}
        /\ xPendingReadyList' \in {xPendingReadyList, xPendingReadyList \ {t},
                                   xPendingReadyList \cup {t}}
    BY <1>4 DEF xTaskIncrementTick, xTaskAbortDelay, FinishAbort, vTaskResume,
         xTaskResumeFromISR, callVars, notifyVars
  <2>2. \/ stateList' = [stateList EXCEPT ![t] = "ready"]
        \/ stateList' = [stateList EXCEPT ![t] = "none"]
        \/ UNCHANGED stateList
    BY <1>4 DEF xTaskIncrementTick, xTaskAbortDelay, FinishAbort, vTaskResume,
         xTaskResumeFromISR, MakeReady
  <2> QED
    BY <2>1, <2>2 DEF Untouched, Shape
<1>5. CASE vTaskSuspend(t)
  BY <1>5 DEF vTaskSuspend, Untouched, Shape, callVars
<1> QED
  BY <1>1, <1>2, <1>3, <1>4, <1>5 DEF TaskStep

LEMMA IndexStepUntouched ==
  ASSUME Shape, NEW t \in Tasks, NEW i \in Indices, IndexStep(t, i), NEW u \in Tasks, u # t
  PROVE  Untouched(u)
<1>1. CASE xTaskGenericNotify(t, i)
  <2>1. /\ Notified(t, i) /\ SetState(t, i, "RECEIVED")
        /\ stateList' = [stateList EXCEPT ![t] = "ready"] \/ UNCHANGED stateList
        /\ UNCHANGED <<pc, call, suspended, xPendingReadyList>>
    BY <1>1 DEF xTaskGenericNotify, MakeReady, callVars
  <2>2. \A j \in Indices : UNCHANGED ucNotifyState[u][j]
    BY <2>1, StateSet DEF NotifyStates
  <2>3. \A j \in Indices : UNCHANGED <<ulNotifiedValue[u][j], mail[u]>>
    BY <2>1, NotifiedEffect
  <2> QED
    BY <2>1, <2>2, <2>3 DEF Untouched, Shape
<1>2. CASE xTaskGenericNotifyFromISR(t, i) \/ vTaskGenericNotifyGiveFromISR(t, i)
  <2>1. WakeFromISR(t, i) /\ \A j \in Indices : UNCHANGED <<ulNotifiedValue[u][j], mail[u]>>
    BY <1>2, NotifiesEffect
  <2>2. /\ SetState(t, i, "RECEIVED") /\ UNCHANGED <<pc, call, suspended, stateList[u]>>
        /\ xPendingReadyList' \in {xPendingReadyList, xPendingReadyList \cup {t}}
    BY <2>1, WakeEffect
  <2>3. \A j \in Indices : UNCHANGED ucNotifyState[u][j]
    BY <2>2, StateSet DEF NotifyStates
  <2> QED
    BY <2>1, <2>2, <2>3 DEF Untouched
<1>3. CASE xTaskGenericNotifyStateClear(t, i)
  <2>1. /\ SetState(t, i, "NOT_WAITING")
        /\ UNCHANGED <<ulNotifiedValue, mail, stateList, pc, call, suspended, xPendingReadyList>>
    BY <1>3 DEF xTaskGenericNotifyStateClear, callVars, listVars
  <2>2. \A j \in Indices : UNCHANGED ucNotifyState[u][j]
    BY <2>1, StateSet DEF NotifyStates
  <2> QED
    BY <2>1, <2>2 DEF Untouched
<1>4. CASE ulTaskGenericNotifyValueClear(t, i)
  <2>1. /\ SetValue(t, i, 0)
        /\ UNCHANGED <<ucNotifyState, mail, stateList, pc, call, suspended, xPendingReadyList>>
    BY <1>4 DEF ulTaskGenericNotifyValueClear, callVars, listVars
  <2>2. \A j \in Indices : UNCHANGED ulNotifiedValue[u][j]
    BY <2>1, ValueSet
  <2> QED
    BY <2>1, <2>2 DEF Untouched
<1> QED
  BY <1>1, <1>2, <1>3, <1>4 DEF IndexStep

-----------------------------------------------------------------------------
(* Nobody sleeps on a notification it has.                                 *)

SleepsOn(t) ==
  pc[t] # "idle" /\ stateList[t] # "ready" /\ t \notin suspended \cup xPendingReadyList
    => LET i == call[t].index IN
       /\ ucNotifyState[t][i] = "WAITING"
       /\ pc[t] = "take" => ulNotifiedValue[t][i] = 0

LEMMA SleepsOnAll == SleepsUnnotified <=> \A t \in Tasks : SleepsOn(t)
  BY DEF SleepsUnnotified, SleepsOn

LEMMA UntouchedSleeps ==
  ASSUME CallsOK, NEW u \in Tasks, Untouched(u), SleepsOn(u)
  PROVE  SleepsOn(u)'
  BY DEF CallsOK, Untouched, SleepsOn

LEMMA TaskStepSleeps ==
  ASSUME Shape, CallsOK, NEW t \in Tasks, TaskStep(t), SleepsOn(t)
  PROVE  SleepsOn(t)'
<1>1. CASE ulTaskGenericNotifyTake(t)
  <2>1. PICK i \in Indices, clears \in BOOLEAN :
           /\ Runs(t, "idle")
           /\ call' = [call EXCEPT ![t] = [index |-> i, clears |-> clears]]
           /\ \/ ulNotifiedValue[t][i] = 0 /\ SetState(t, i, "WAITING")
              \/ UNCHANGED <<ucNotifyState, stateList>>
           /\ UNCHANGED ulNotifiedValue
    BY <1>1, TakeEffect
  <2>2. call'[t].index = i
    BY <2>1 DEF Shape
  <2>3. SetState(t, i, "WAITING") => ucNotifyState'[t][i] = "WAITING"
    BY StateSet DEF NotifyStates
  <2> QED
    BY <2>1, <2>2, <2>3 DEF SleepsOn, Runs
<1>2. CASE xTaskGenericNotifyWait(t)
  <2>1. PICK i \in Indices, clears \in BOOLEAN :
           /\ Runs(t, "idle")
           /\ call' = [call EXCEPT ![t] = [index |-> i, clears |-> clears]]
           /\ pc' = [pc EXCEPT ![t] = "wait"]
           /\ SetState(t, i, "WAITING") \/ UNCHANGED <<ucNotifyState, stateList>>
    BY <1>2, WaitEffect
  <2>2. call'[t].index = i /\ pc'[t] = "wait"
    BY <2>1 DEF Shape
  <2>3. SetState(t, i, "WAITING") => ucNotifyState'[t][i] = "WAITING"
    BY StateSet DEF NotifyStates
  <2> QED
    BY <2>1, <2>2, <2>3 DEF SleepsOn, Runs
<1>3. CASE TakeNotification(t) \/ ReadNotification(t)
  <2>1. pc'[t] = "idle"
    BY <1>3 DEF TakeNotification, ReadNotification, Shape
  <2> QED
    BY <2>1 DEF SleepsOn
<1>4. CASE xTaskIncrementTick(t) \/ FinishAbort(t) \/ vTaskResume(t)
  <2>1. stateList'[t] = "ready"
    BY <1>4 DEF xTaskIncrementTick, FinishAbort, vTaskResume, MakeReady, Shape
  <2> QED
    BY <2>1 DEF SleepsOn
<1>5. CASE xTaskAbortDelay(t)
  BY <1>5 DEF xTaskAbortDelay, eBlocked, SleepsOn, callVars, notifyVars
<1>6. CASE vTaskSuspend(t)
  BY <1>6 DEF vTaskSuspend, SleepsOn
<1>7. CASE xTaskResumeFromISR(t)
  <2>1. stateList'[t] = "ready" \/ t \in xPendingReadyList'
    BY <1>7 DEF xTaskResumeFromISR, MakeReady, Shape
  <2> QED
    BY <2>1 DEF SleepsOn
<1> QED
  BY <1>1, <1>2, <1>3, <1>4, <1>5, <1>6, <1>7 DEF TaskStep

LEMMA IndexStepSleeps ==
  ASSUME Shape, CallsOK, NEW t \in Tasks, NEW i \in Indices, IndexStep(t, i), SleepsOn(t)
  PROVE  SleepsOn(t)'
<1>1. CASE xTaskGenericNotify(t, i)
  <2>1. /\ Notified(t, i) /\ SetState(t, i, "RECEIVED")
        /\ UNCHANGED <<pc, call, suspended, xPendingReadyList>>
        /\ IF ucNotifyState[t][i] = "WAITING" THEN stateList'[t] = "ready" ELSE UNCHANGED stateList
    BY <1>1 DEF xTaskGenericNotify, MakeReady, callVars, Shape
  <2>2. \A j \in Indices \ {i} : UNCHANGED <<ucNotifyState[t][j], ulNotifiedValue[t][j]>>
    BY <2>1, StateSet, NotifiedEffect DEF NotifyStates
  <2> QED
    BY <2>1, <2>2 DEF SleepsOn, CallsOK
<1>2. CASE xTaskGenericNotifyFromISR(t, i) \/ vTaskGenericNotifyGiveFromISR(t, i)
  <2>1. /\ WakeFromISR(t, i)
        /\ \A j \in Indices \ {i} : UNCHANGED ulNotifiedValue[t][j]
    BY <1>2, NotifiesEffect
  <2>2. /\ SetState(t, i, "RECEIVED") /\ UNCHANGED <<pc, call, suspended>>
        /\ \/ ucNotifyState[t][i] # "WAITING" /\ UNCHANGED <<stateList, xPendingReadyList>>
           \/ stateList'[t] = "ready" \/ t \in xPendingReadyList'
    BY <2>1, WakeEffect DEF Shape
  <2>3. \A j \in Indices \ {i} : UNCHANGED ucNotifyState[t][j]
    BY <2>2, StateSet DEF NotifyStates
  <2> QED
    BY <2>1, <2>2, <2>3 DEF SleepsOn, CallsOK
<1>3. CASE xTaskGenericNotifyStateClear(t, i)
  <2>1. /\ SetState(t, i, "NOT_WAITING") /\ ucNotifyState[t][i] = "RECEIVED"
        /\ UNCHANGED <<ulNotifiedValue, stateList, pc, call, suspended, xPendingReadyList>>
    BY <1>3 DEF xTaskGenericNotifyStateClear, callVars, listVars
  <2>2. \A j \in Indices \ {i} : UNCHANGED ucNotifyState[t][j]
    BY <2>1, StateSet DEF NotifyStates
  <2> QED
    BY <2>1, <2>2 DEF SleepsOn, CallsOK
<1>4. CASE ulTaskGenericNotifyValueClear(t, i)
  <2>1. /\ SetValue(t, i, 0)
        /\ UNCHANGED <<ucNotifyState, stateList, pc, call, suspended, xPendingReadyList>>
    BY <1>4 DEF ulTaskGenericNotifyValueClear, callVars, listVars
  <2>2. \A j \in Indices : ulNotifiedValue'[t][j] = IF j = i THEN 0 ELSE ulNotifiedValue[t][j]
    BY <2>1, ValueSet
  <2> QED
    BY <2>1, <2>2 DEF SleepsOn, CallsOK
<1> QED
  BY <1>1, <1>2, <1>3, <1>4 DEF IndexStep

LEMMA SleepsKept ==
  ASSUME Shape, CallsOK, SleepsUnnotified, [Next]_vars
  PROVE  SleepsUnnotified'
<1> SUFFICES ASSUME NEW u \in Tasks PROVE SleepsOn(u)'
  BY SleepsOnAll DEF SleepsUnnotified, SleepsOn
<1>1. SleepsOn(u)
  BY SleepsOnAll
<1>2. CASE vTaskSuspendAll \/ UNCHANGED vars
  BY <1>1, <1>2 DEF vTaskSuspendAll, vars, notifyVars, listVars, callVars, SleepsOn
<1>3. CASE xTaskResumeAll
  <2>1. /\ UNCHANGED <<pc, call, ucNotifyState, ulNotifiedValue>>
        /\ stateList'[u] = IF u \in xPendingReadyList THEN "ready" ELSE stateList[u]
        /\ suspended' = suspended \ xPendingReadyList
    BY <1>3 DEF xTaskResumeAll, notifyVars, callVars
  <2> QED
    BY <1>1, <2>1 DEF SleepsOn
<1>4. ASSUME NEW t \in Tasks, TaskStep(t) PROVE SleepsOn(u)'
  BY <1>1, <1>4, TaskStepUntouched, UntouchedSleeps, TaskStepSleeps
<1>5. ASSUME NEW t \in Tasks, NEW i \in Indices, IndexStep(t, i) PROVE SleepsOn(u)'
  BY <1>1, <1>5, IndexStepUntouched, UntouchedSleeps, IndexStepSleeps
<1> QED
  BY <1>2, <1>3, <1>4, <1>5, NextIs

\* No task sleeps on a notification it has, whoever notifies, suspends, resumes
\* or aborts it and however the calls and interrupts interleave.
THEOREM SleepersCorrect == Spec => []SleepsUnnotified
<1>1. Init => Shape /\ CallsOK /\ SleepsUnnotified
  BY InitShape DEF Init, SleepsUnnotified
<1>2. Shape /\ CallsOK /\ SleepsUnnotified /\ [Next]_vars
        => Shape' /\ CallsOK' /\ SleepsUnnotified'
  BY ShapeKept, SleepsKept
<1> QED
  BY <1>1, <1>2, PTL DEF Spec

-----------------------------------------------------------------------------
(* A task is marked as waiting only while it waits.                        *)

\* What interrupts have woken waits for the end of a suspended region.
PendingOK == xPendingReadyList # {} => uxSchedulerSuspended

\* A task on the ready or the delayed list is not suspended.
MarkedRightly(t) ==
  /\ \A i \in Indices : ucNotifyState[t][i] = "WAITING"
       => /\ pc[t] # "idle" /\ call[t].index = i
          /\ t \notin suspended \cup xPendingReadyList
  /\ stateList[t] \in {"ready", "delayed"} => t \notin suspended

WInv == Shape /\ CallsOK /\ PendingOK /\ \A t \in Tasks : MarkedRightly(t)

LEMMA PendingKept ==
  ASSUME Shape, CallsOK, PendingOK, [Next]_vars
  PROVE  PendingOK'
<1>1. CASE vTaskSuspendAll \/ xTaskResumeAll \/ UNCHANGED vars
  BY <1>1 DEF vTaskSuspendAll, xTaskResumeAll, vars, listVars, PendingOK
<1>2. ASSUME NEW t \in Tasks, TaskStep(t) PROVE PendingOK'
  <2>1. CASE ulTaskGenericNotifyTake(t) \/ xTaskGenericNotifyWait(t)
             \/ TakeNotification(t) \/ ReadNotification(t)
    BY <2>1 DEF ulTaskGenericNotifyTake, xTaskGenericNotifyWait, TakeNotification,
         ReadNotification, listVars, PendingOK
  <2>2. CASE \/ xTaskIncrementTick(t) \/ xTaskAbortDelay(t) \/ FinishAbort(t)
             \/ vTaskSuspend(t) \/ vTaskResume(t) \/ xTaskResumeFromISR(t)
    BY <2>2 DEF xTaskIncrementTick, xTaskAbortDelay, FinishAbort, vTaskSuspend,
         vTaskResume, xTaskResumeFromISR, PendingOK
  <2> QED
    BY <1>2, <2>1, <2>2 DEF TaskStep
<1>3. ASSUME NEW t \in Tasks, NEW i \in Indices, IndexStep(t, i) PROVE PendingOK'
  <2>1. CASE xTaskGenericNotify(t, i) \/ xTaskGenericNotifyStateClear(t, i)
             \/ ulTaskGenericNotifyValueClear(t, i)
    BY <2>1 DEF xTaskGenericNotify, xTaskGenericNotifyStateClear,
         ulTaskGenericNotifyValueClear, listVars, PendingOK
  <2>2. CASE xTaskGenericNotifyFromISR(t, i) \/ vTaskGenericNotifyGiveFromISR(t, i)
    BY <2>2, NotifiesEffect, WakeEffect DEF PendingOK
  <2> QED
    BY <1>3, <2>1, <2>2 DEF IndexStep
<1> QED
  BY <1>1, <1>2, <1>3, NextIs

LEMMA UntouchedWaits ==
  ASSUME NEW u \in Tasks, Untouched(u), MarkedRightly(u)
  PROVE  MarkedRightly(u)'
  BY DEF Untouched, MarkedRightly

LEMMA TaskStepWaits ==
  ASSUME Shape, CallsOK, PendingOK, ~ResumesBlocked,
         NEW t \in Tasks, TaskStep(t), MarkedRightly(t)
  PROVE  MarkedRightly(t)'
<1>1. CASE ulTaskGenericNotifyTake(t)
  <2>1. PICK i \in Indices, clears \in BOOLEAN :
           /\ Runs(t, "idle")
           /\ call' = [call EXCEPT ![t] = [index |-> i, clears |-> clears]]
           /\ pc' = [pc EXCEPT ![t] = "take"]
           /\ SetState(t, i, "WAITING") \/ UNCHANGED <<ucNotifyState, stateList>>
           /\ UNCHANGED <<xPendingReadyList, suspended>>
    BY <1>1, TakeEffect
  <2>2. call'[t].index = i /\ pc'[t] = "take"
    BY <2>1 DEF Shape
  <2>3. \A j \in Indices \ {i} : UNCHANGED ucNotifyState[t][j]
    BY <2>1, StateSet DEF NotifyStates
  <2> QED
    BY <2>1, <2>2, <2>3 DEF MarkedRightly, Runs, PendingOK
<1>2. CASE xTaskGenericNotifyWait(t)
  <2>1. PICK i \in Indices, clears \in BOOLEAN :
           /\ Runs(t, "idle")
           /\ call' = [call EXCEPT ![t] = [index |-> i, clears |-> clears]]
           /\ pc' = [pc EXCEPT ![t] = "wait"]
           /\ SetState(t, i, "WAITING") \/ UNCHANGED <<ucNotifyState, stateList>>
           /\ UNCHANGED <<xPendingReadyList, suspended>>
    BY <1>2, WaitEffect
  <2>2. call'[t].index = i /\ pc'[t] = "wait"
    BY <2>1 DEF Shape
  <2>3. \A j \in Indices \ {i} : UNCHANGED ucNotifyState[t][j]
    BY <2>1, StateSet DEF NotifyStates
  <2> QED
    BY <2>1, <2>2, <2>3 DEF MarkedRightly, Runs, PendingOK
<1>3. CASE TakeNotification(t) \/ ReadNotification(t)
  <2> DEFINE i == call[t].index
  <2>1. /\ i \in Indices /\ SetState(t, i, "NOT_WAITING")
        /\ UNCHANGED <<stateList, xPendingReadyList, suspended>>
    BY <1>3, ReturnEffect DEF listVars
  <2>2. \A j \in Indices :
          ucNotifyState'[t][j] = IF j = i THEN "NOT_WAITING" ELSE ucNotifyState[t][j]
    BY <2>1, StateSet DEF NotifyStates
  <2> QED
    BY <2>1, <2>2 DEF MarkedRightly
<1>4. CASE xTaskIncrementTick(t)
  <2>1. /\ stateList[t] = "delayed" /\ ~uxSchedulerSuspended
        /\ UNCHANGED <<pc, call, ucNotifyState, suspended, xPendingReadyList>>
    BY <1>4 DEF xTaskIncrementTick, notifyVars, callVars
  <2> QED
    BY <2>1 DEF MarkedRightly, PendingOK
<1>5. CASE xTaskAbortDelay(t)
  <2>1. /\ stateList'[t] = "none"
        /\ UNCHANGED <<pc, call, ucNotifyState, suspended, xPendingReadyList>>
    BY <1>5 DEF xTaskAbortDelay, notifyVars, callVars, Shape
  <2> QED
    BY <2>1 DEF MarkedRightly
<1>6. CASE FinishAbort(t)
  <2>1. /\ suspended' = suspended \ {t} /\ xPendingReadyList' = xPendingReadyList \ {t}
        /\ UNCHANGED <<pc, call, ucNotifyState>>
    BY <1>6 DEF FinishAbort, notifyVars, callVars
  <2> QED
    BY <2>1 DEF MarkedRightly
<1>7. CASE vTaskSuspend(t)
  <2>1. \A i \in Indices : ucNotifyState'[t][i] # "WAITING"
    BY <1>7 DEF vTaskSuspend, Shape
  <2>2. stateList'[t] = "suspended"
    BY <1>7 DEF vTaskSuspend, Shape
  <2> QED
    BY <2>1, <2>2 DEF MarkedRightly
<1>8. CASE vTaskResume(t)
  <2>1. /\ t \notin xPendingReadyList /\ suspended' = suspended \ {t}
        /\ UNCHANGED <<pc, call, ucNotifyState, xPendingReadyList>>
    BY <1>8 DEF vTaskResume, prvTaskIsTaskSuspended, notifyVars, callVars
  <2> QED
    BY <2>1 DEF MarkedRightly
<1>9. CASE xTaskResumeFromISR(t)
  <2>1. /\ t \in suspended /\ t \notin xPendingReadyList /\ stateList[t] = "suspended"
        /\ UNCHANGED <<pc, call, ucNotifyState>>
        /\ \/ suspended' = suspended \ {t} /\ UNCHANGED xPendingReadyList
           \/ UNCHANGED <<stateList, suspended>>
    BY <1>9 DEF xTaskResumeFromISR, prvTaskIsTaskSuspended, notifyVars, callVars
  <2> QED
    BY <2>1 DEF MarkedRightly
<1> QED
  BY <1>1, <1>2, <1>3, <1>4, <1>5, <1>6, <1>7, <1>8, <1>9 DEF TaskStep

LEMMA IndexStepWaits ==
  ASSUME Shape, PendingOK, NEW t \in Tasks, NEW i \in Indices, IndexStep(t, i), MarkedRightly(t)
  PROVE  MarkedRightly(t)'
<1>1. CASE xTaskGenericNotify(t, i)
  <2>1. /\ SetState(t, i, "RECEIVED")
        /\ UNCHANGED <<pc, call, suspended, xPendingReadyList>>
        /\ ucNotifyState[t][i] = "WAITING" \/ UNCHANGED stateList
    BY <1>1 DEF xTaskGenericNotify, callVars
  <2>2. \A j \in Indices :
          ucNotifyState'[t][j] = IF j = i THEN "RECEIVED" ELSE ucNotifyState[t][j]
    BY <2>1, StateSet DEF NotifyStates
  <2> QED
    BY <2>1, <2>2 DEF MarkedRightly
<1>2. CASE xTaskGenericNotifyFromISR(t, i) \/ vTaskGenericNotifyGiveFromISR(t, i)
  <2>1. WakeFromISR(t, i)
    BY <1>2, NotifiesEffect
  <2>2. /\ SetState(t, i, "RECEIVED") /\ UNCHANGED <<pc, call, suspended>>
        /\ \/ UNCHANGED <<stateList, xPendingReadyList>>
           \/ ucNotifyState[t][i] = "WAITING" /\ UNCHANGED xPendingReadyList
           \/ /\ ucNotifyState[t][i] = "WAITING" /\ stateList' = stateList
              /\ xPendingReadyList' = xPendingReadyList \cup {t}
              /\ uxSchedulerSuspended
    BY <2>1, WakeEffect
  <2>3. \A j \in Indices :
          ucNotifyState'[t][j] = IF j = i THEN "RECEIVED" ELSE ucNotifyState[t][j]
    BY <2>2, StateSet DEF NotifyStates
  <2> QED
    BY <2>2, <2>3 DEF MarkedRightly
<1>3. CASE xTaskGenericNotifyStateClear(t, i)
  <2>1. /\ SetState(t, i, "NOT_WAITING")
        /\ UNCHANGED <<stateList, pc, call, suspended, xPendingReadyList>>
    BY <1>3 DEF xTaskGenericNotifyStateClear, callVars, listVars
  <2>2. \A j \in Indices :
          ucNotifyState'[t][j] = IF j = i THEN "NOT_WAITING" ELSE ucNotifyState[t][j]
    BY <2>1, StateSet DEF NotifyStates
  <2> QED
    BY <2>1, <2>2 DEF MarkedRightly
<1>4. CASE ulTaskGenericNotifyValueClear(t, i)
  BY <1>4 DEF ulTaskGenericNotifyValueClear, callVars, listVars, MarkedRightly
<1> QED
  BY <1>1, <1>2, <1>3, <1>4 DEF IndexStep

LEMMA WInvKept ==
  ASSUME WInv, ~ResumesBlocked, [Next]_vars
  PROVE  WInv'
<1>1. Shape' /\ CallsOK' /\ PendingOK'
  BY ShapeKept, PendingKept DEF WInv
<1> SUFFICES ASSUME NEW u \in Tasks PROVE MarkedRightly(u)'
  BY <1>1 DEF WInv
<1> USE DEF WInv
<1>2. CASE vTaskSuspendAll \/ UNCHANGED vars
  BY <1>2 DEF vTaskSuspendAll, vars, notifyVars, listVars, callVars, MarkedRightly
<1>3. CASE xTaskResumeAll
  <2>1. /\ UNCHANGED <<pc, call, ucNotifyState>>
        /\ stateList'[u] = IF u \in xPendingReadyList THEN "ready" ELSE stateList[u]
        /\ suspended' = suspended \ xPendingReadyList /\ xPendingReadyList' = {}
    BY <1>3 DEF xTaskResumeAll, notifyVars, callVars
  <2> QED
    BY <2>1 DEF MarkedRightly
<1>4. ASSUME NEW t \in Tasks, TaskStep(t) PROVE MarkedRightly(u)'
  BY <1>4, TaskStepUntouched, UntouchedWaits, TaskStepWaits
<1>5. ASSUME NEW t \in Tasks, NEW i \in Indices, IndexStep(t, i) PROVE MarkedRightly(u)'
  BY <1>5, IndexStepUntouched, UntouchedWaits, IndexStepWaits
<1> QED
  BY <1>2, <1>3, <1>4, <1>5, NextIs

\* As long as interrupts resume only tasks that were suspended, a task is marked
\* as waiting for the notification of its own call alone, and is not on
\* xPendingReadyList then: the assertion of tasks.c:6029.
THEOREM WaitingCorrect == ~ResumesBlocked => (Spec => []WaitingIsCurrent)
<1> SUFFICES ASSUME ~ResumesBlocked PROVE Spec => []WaitingIsCurrent
  OBVIOUS
<1>1. Init => WInv
  <2> SUFFICES ASSUME Init PROVE WInv
    OBVIOUS
  <2>1. \A t \in Tasks, i \in Indices : ucNotifyState[t][i] # "WAITING"
    BY DEF Init
  <2>2. suspended = {} /\ xPendingReadyList = {}
    BY DEF Init
  <2> QED
    BY <2>1, <2>2, InitShape DEF WInv, PendingOK, MarkedRightly
<1>2. WInv /\ [Next]_vars => WInv'
  BY WInvKept
<1>3. WInv => WaitingIsCurrent
  BY DEF WInv, MarkedRightly, WaitingIsCurrent
<1> QED
  BY <1>1, <1>2, <1>3, PTL DEF Spec

-----------------------------------------------------------------------------
(* Mail is kept until it is read.                                          *)

KeepsMail(t) ==
  mail[t] # NoMail => /\ ulNotifiedValue[t][MailIndex] = mail[t]
                      /\ ucNotifyState[t][MailIndex] = "RECEIVED"

LEMMA MailUse ==
  /\ MailIndex \in Indices /\ NoMail \notin Values
  /\ UsedActions[MailIndex] \subseteq
       {"xTaskGenericNotifyWait", "eNoAction", "eSetValueWithoutOverwrite"}
  BY NotifyAssumption DEF NoMail

LEMMA UntouchedMail ==
  ASSUME NEW u \in Tasks, Untouched(u), KeepsMail(u)
  PROVE  KeepsMail(u)'
  BY MailUse DEF Untouched, KeepsMail

\* What a notification does to the mail of the task it is sent to.
LEMMA NotifiedMail ==
  ASSUME Shape, NEW t \in Tasks, NEW i \in Indices, Notified(t, i), KeepsMail(t)
  PROVE  mail'[t] # NoMail =>
           /\ ulNotifiedValue'[t][MailIndex] = mail'[t]
           /\ i = MailIndex \/ ucNotifyState[t][MailIndex] = "RECEIVED"
<1>1. CASE i # MailIndex
  BY <1>1, NotifiedEffect, MailUse DEF KeepsMail
<1>2. CASE i = MailIndex
  <2>1. PICK action \in UsedActions[i] \cap Sends, v \in Values :
          LET old == ulNotifiedValue[t][i]
              refused == action = "eSetValueWithoutOverwrite"
                           /\ ucNotifyState[t][i] = "RECEIVED" IN
          /\ SetValue(t, i, CASE action = "eNoAction" \/ refused -> old
                              [] action = "eSetBits" -> Or(old, v)
                              [] action = "eIncrement" -> (old + 1) % (MaxValue + 1)
                              [] OTHER -> v)
          /\ mail' = IF action = "eSetValueWithoutOverwrite" /\ ~refused /\ i = MailIndex
                     THEN [mail EXCEPT ![t] = v] ELSE mail
    BY DEF Notified
  <2>2. \/ SetValue(t, i, ulNotifiedValue[t][i]) /\ mail' = mail
        \/ SetValue(t, i, v) /\ mail' = [mail EXCEPT ![t] = v]
    <3>1. action \in {"eNoAction", "eSetValueWithoutOverwrite"}
      BY <1>2, MailUse DEF Sends
    <3>2. CASE action = "eNoAction"
      BY <2>1, <3>2
    <3>3. CASE action = "eSetValueWithoutOverwrite"
      BY <1>2, <2>1, <3>3
    <3> QED
      BY <3>1, <3>2, <3>3
  <2>3. CASE SetValue(t, i, ulNotifiedValue[t][i]) /\ mail' = mail
    BY <1>2, <2>3, ValueSet DEF KeepsMail
  <2>4. CASE SetValue(t, i, v) /\ mail' = [mail EXCEPT ![t] = v]
    BY <1>2, <2>4, ValueSet DEF Shape
  <2> QED
    BY <2>2, <2>3, <2>4
<1> QED
  BY <1>1, <1>2

LEMMA TaskStepMail ==
  ASSUME Shape, CallsOK, NEW t \in Tasks, TaskStep(t), KeepsMail(t)
  PROVE  KeepsMail(t)'
<1> USE MailUse
<1>1. CASE ulTaskGenericNotifyTake(t)
  <2>1. PICK i \in Indices :
           /\ "ulTaskGenericNotifyTake" \in UsedActions[i]
           /\ SetState(t, i, "WAITING") \/ UNCHANGED ucNotifyState
           /\ UNCHANGED <<ulNotifiedValue, mail>>
    BY <1>1, TakeEffect
  <2>2. i # MailIndex
    BY <2>1
  <2>3. UNCHANGED ucNotifyState[t][MailIndex]
    BY <2>1, <2>2, StateSet DEF NotifyStates
  <2> QED
    BY <2>1, <2>3 DEF KeepsMail
<1>2. CASE xTaskGenericNotifyWait(t)
  <2>1. PICK i \in Indices :
           /\ \/ /\ ucNotifyState[t][i] # "RECEIVED" /\ SetState(t, i, "WAITING")
                 /\ SetValue(t, i, 0) \/ UNCHANGED ulNotifiedValue
              \/ UNCHANGED <<ulNotifiedValue, ucNotifyState>>
           /\ UNCHANGED mail
    BY <1>2, WaitEffect
  <2>2. CASE UNCHANGED <<ulNotifiedValue, ucNotifyState>>
    BY <2>1, <2>2 DEF KeepsMail
  <2>3. CASE i = MailIndex /\ ucNotifyState[t][i] # "RECEIVED"
    BY <2>1, <2>3 DEF KeepsMail
  <2>4. CASE i # MailIndex /\ SetState(t, i, "WAITING")
             /\ (SetValue(t, i, 0) \/ UNCHANGED ulNotifiedValue)
    <3>1. UNCHANGED ucNotifyState[t][MailIndex]
      BY <2>4, StateSet DEF NotifyStates
    <3>2. UNCHANGED ulNotifiedValue[t][MailIndex]
      BY <2>4, ValueSet
    <3> QED
      BY <2>1, <3>1, <3>2 DEF KeepsMail
  <2> QED
    BY <2>1, <2>2, <2>3, <2>4
<1>3. CASE TakeNotification(t) \/ ReadNotification(t)
  <2> DEFINE i == call[t].index
  <2>1. /\ i \in Indices /\ SetState(t, i, "NOT_WAITING")
        /\ UNCHANGED ulNotifiedValue \/ \E v : SetValue(t, i, v)
        /\ i # MailIndex => mail'[t] = mail[t]
        /\ i = MailIndex /\ pc[t] # "take" => mail'[t] = NoMail
    BY <1>3, ReturnEffect
  <2>2. CASE i = MailIndex
    <3>1. pc[t] # "take"
      BY <2>2 DEF CallsOK
    <3> QED
      BY <2>1, <2>2, <3>1 DEF KeepsMail
  <2>3. CASE i # MailIndex
    <3>1. UNCHANGED ucNotifyState[t][MailIndex]
      BY <2>1, <2>3, StateSet DEF NotifyStates
    <3>2. UNCHANGED ulNotifiedValue[t][MailIndex]
      BY <2>1, <2>3, ValueSet
    <3> QED
      BY <2>1, <2>3, <3>1, <3>2 DEF KeepsMail
  <2> QED
    BY <2>2, <2>3
<1>4. CASE \/ xTaskIncrementTick(t) \/ xTaskAbortDelay(t) \/ FinishAbort(t)
           \/ vTaskResume(t) \/ xTaskResumeFromISR(t)
  BY <1>4 DEF xTaskIncrementTick, xTaskAbortDelay, FinishAbort, vTaskResume,
       xTaskResumeFromISR, notifyVars, KeepsMail
<1>5. CASE vTaskSuspend(t)
  <2>1. UNCHANGED <<ulNotifiedValue, mail>>
    BY <1>5 DEF vTaskSuspend
  <2>2. ucNotifyState[t][MailIndex] = "RECEIVED" => ucNotifyState'[t][MailIndex] = "RECEIVED"
    BY <1>5 DEF vTaskSuspend, Shape
  <2> QED
    BY <2>1, <2>2 DEF KeepsMail
<1> QED
  BY <1>1, <1>2, <1>3, <1>4, <1>5 DEF TaskStep

LEMMA IndexStepMail ==
  ASSUME Shape, NEW t \in Tasks, NEW i \in Indices, IndexStep(t, i), KeepsMail(t)
  PROVE  KeepsMail(t)'
<1> USE MailUse
<1>1. CASE xTaskGenericNotify(t, i) \/ xTaskGenericNotifyFromISR(t, i)
  <2>1. Notified(t, i) /\ SetState(t, i, "RECEIVED")
    BY <1>1, WakeEffect DEF xTaskGenericNotify, xTaskGenericNotifyFromISR
  <2>2. \A j \in Indices :
          ucNotifyState'[t][j] = IF j = i THEN "RECEIVED" ELSE ucNotifyState[t][j]
    BY <2>1, StateSet DEF NotifyStates
  <2> QED
    BY <2>1, <2>2, NotifiedMail DEF KeepsMail
<1>2. CASE vTaskGenericNotifyGiveFromISR(t, i)
  <2>1. i # MailIndex
    BY <1>2 DEF vTaskGenericNotifyGiveFromISR
  <2>2. PICK v : SetValue(t, i, v)
    BY <1>2 DEF vTaskGenericNotifyGiveFromISR
  <2>3. SetState(t, i, "RECEIVED") /\ mail' = mail
    BY <1>2, WakeEffect DEF vTaskGenericNotifyGiveFromISR
  <2>4. UNCHANGED <<ucNotifyState[t][MailIndex], ulNotifiedValue[t][MailIndex]>>
    BY <2>1, <2>2, <2>3, StateSet, ValueSet DEF NotifyStates
  <2> QED
    BY <2>3, <2>4 DEF KeepsMail
<1>3. CASE xTaskGenericNotifyStateClear(t, i)
  <2>1. i # MailIndex /\ SetState(t, i, "NOT_WAITING") /\ UNCHANGED <<ulNotifiedValue, mail>>
    BY <1>3 DEF xTaskGenericNotifyStateClear
  <2>2. UNCHANGED ucNotifyState[t][MailIndex]
    BY <2>1, StateSet DEF NotifyStates
  <2> QED
    BY <2>1, <2>2 DEF KeepsMail
<1>4. CASE ulTaskGenericNotifyValueClear(t, i)
  <2>1. i # MailIndex /\ SetValue(t, i, 0) /\ UNCHANGED <<ucNotifyState, mail>>
    BY <1>4 DEF ulTaskGenericNotifyValueClear
  <2>2. UNCHANGED ulNotifiedValue[t][MailIndex]
    BY <2>1, ValueSet
  <2> QED
    BY <2>1, <2>2 DEF KeepsMail
<1> QED
  BY <1>1, <1>2, <1>3, <1>4 DEF IndexStep

LEMMA MailKept ==
  ASSUME Shape, CallsOK, MailIsKept, [Next]_vars
  PROVE  MailIsKept'
<1> SUFFICES ASSUME NEW u \in Tasks PROVE KeepsMail(u)'
  BY DEF MailIsKept, KeepsMail
<1>1. KeepsMail(u)
  BY DEF MailIsKept, KeepsMail
<1>2. CASE vTaskSuspendAll \/ xTaskResumeAll \/ UNCHANGED vars
  BY <1>1, <1>2 DEF vTaskSuspendAll, xTaskResumeAll, vars, notifyVars, KeepsMail
<1>3. ASSUME NEW t \in Tasks, TaskStep(t) PROVE KeepsMail(u)'
  BY <1>1, <1>3, TaskStepUntouched, UntouchedMail, TaskStepMail
<1>4. ASSUME NEW t \in Tasks, NEW i \in Indices, IndexStep(t, i) PROVE KeepsMail(u)'
  BY <1>1, <1>4, IndexStepUntouched, UntouchedMail, IndexStepMail
<1> QED
  BY <1>2, <1>3, <1>4, NextIs

\* A value set without overwriting stays until it is read, whoever notifies,
\* suspends, resumes or aborts the task and whenever its call times out.
THEOREM MailCorrect == Spec => []MailIsKept
<1>1. Init => Shape /\ CallsOK /\ MailIsKept
  BY InitShape DEF Init, MailIsKept
<1>2. Shape /\ CallsOK /\ MailIsKept /\ [Next]_vars => Shape' /\ CallsOK' /\ MailIsKept'
  BY ShapeKept, MailKept
<1> QED
  BY <1>1, <1>2, PTL DEF Spec
=============================================================================
