-------------------------------- MODULE Notify --------------------------------
(***************************************************************************)
(* Direct to task notifications of src/src/freertos/tasks.c: the array of  *)
(* values and states in each task, the calls that wait for one of them,    *)
(* and the tasks and interrupts that notify, suspend, resume or abort.     *)
(*                                                                         *)
(* A call that waits has two critical sections; between them the task may  *)
(* sleep, be woken, time out, be suspended and resumed.  While one task    *)
(* has the scheduler suspended, others do not enter critical sections, and *)
(* what interrupts wake is held on xPendingReadyList.  Priorities and      *)
(* cores are module SmpKernel's: a ready task may run at any time.         *)
(***************************************************************************)
EXTENDS Integers, FiniteSets

CONSTANTS
  Tasks,                       \* the tasks that wait for notifications
  Indices,                     \* 0 .. configTASK_NOTIFICATION_ARRAY_ENTRIES - 1
  UsedActions,                 \* [Indices -> SUBSET Actions]
  MailIndex,                   \* an index used for values that must not be lost
  Values,                      \* the values that are set
  MaxValue,                    \* the largest uint32_t
  ResumesBlocked               \* xTaskResumeFromISR is called on any task

Sends == {"eNoAction", "eSetBits", "eIncrement", "eSetValueWithOverwrite",
          "eSetValueWithoutOverwrite"}
Actions == Sends \cup {"ulTaskGenericNotifyTake", "xTaskGenericNotifyWait",
             "xTaskGenericNotifyStateClear", "ulTaskGenericNotifyValueClear"}

ASSUME NotifyAssumption ==
  /\ UsedActions \in [Indices -> SUBSET Actions]
  /\ MailIndex \in Indices
  /\ UsedActions[MailIndex] \subseteq
       {"xTaskGenericNotifyWait", "eNoAction", "eSetValueWithoutOverwrite"}
  /\ MaxValue \in Nat /\ Values \subseteq 0 .. MaxValue
  /\ ResumesBlocked \in BOOLEAN

VARIABLES
  ulNotifiedValue, ucNotifyState,  \* [Tasks -> [Indices -> ...]]
  stateList,                   \* the list a task's state list item is on
  xPendingReadyList,           \* the tasks whose event list item is on it
  uxSchedulerSuspended,        \* by a task that is none of Tasks
  aborting,                    \* the task an xTaskAbortDelay has taken off its list
  pc, call,                    \* the call a task waits in, and its arguments
  \* History, never read by the code:
  suspended,                   \* the tasks vTaskSuspend put to sleep
  mail                         \* a value set without overwriting, not yet read

notifyVars == <<ulNotifiedValue, ucNotifyState, mail>>
listVars == <<stateList, xPendingReadyList, uxSchedulerSuspended, aborting, suspended>>
callVars == <<pc, call>>
vars == <<notifyVars, listVars, callVars>>

NotifyStates == {"NOT_WAITING", "WAITING", "RECEIVED"}
StateLists == {"ready", "delayed", "suspended", "none"}
Waits == {"no", "timed", "forever"}                          \* xTicksToWait
NoTasks == {}
NoCall == [index |-> 0, clears |-> FALSE]
NoMail == -1

-----------------------------------------------------------------------------
(* Helpers.                                                                *)

Runs(t, place) == pc[t] = place /\ stateList[t] = "ready" /\ ~uxSchedulerSuspended

\* |= of two unsigned numbers.
Bit(n, k) == (n \div 2^k) % 2
Or(m, n) == CHOOSE v \in 0 .. MaxValue :
              \A k \in 0 .. MaxValue : Bit(v, k) = IF Bit(m, k) + Bit(n, k) = 0 THEN 0 ELSE 1

SetState(t, i, s) == ucNotifyState' = [ucNotifyState EXCEPT ![t][i] = s]
SetValue(t, i, v) == ulNotifiedValue' = [ulNotifiedValue EXCEPT ![t][i] = v]

\* prvAddCurrentTaskToDelayedList, or nothing if there is no block time.
Sleep(t, wait) ==
  stateList' = [stateList EXCEPT ![t] = CASE wait = "no" -> @
                                          [] wait = "timed" -> "delayed"
                                          [] wait = "forever" -> "suspended"]

MakeReady(t) == stateList' = [stateList EXCEPT ![t] = "ready"]

-----------------------------------------------------------------------------
(* Waiting.                                                                *)

\* The first critical section of each call, up to the sleep.
ulTaskGenericNotifyTake(t) ==
  /\ Runs(t, "idle")
  /\ \E i \in Indices, clears \in BOOLEAN, wait \in Waits :
       /\ "ulTaskGenericNotifyTake" \in UsedActions[i]
       /\ call' = [call EXCEPT ![t] = [index |-> i, clears |-> clears]]
       /\ IF ulNotifiedValue[t][i] = 0
          THEN SetState(t, i, "WAITING") /\ Sleep(t, wait)
          ELSE UNCHANGED <<ucNotifyState, stateList>>
  /\ pc' = [pc EXCEPT ![t] = "take"]
  /\ UNCHANGED <<ulNotifiedValue, mail, xPendingReadyList, uxSchedulerSuspended,
                 aborting, suspended>>

WaitClearsAtOnce(t) ==                                         \* mutant
  /\ Runs(t, "idle")
  /\ \E i \in Indices, clearsOnEntry, clearsOnExit \in BOOLEAN, wait \in Waits :
       /\ "xTaskGenericNotifyWait" \in UsedActions[i]
       /\ call' = [call EXCEPT ![t] = [index |-> i, clears |-> clearsOnExit]]
       /\ IF clearsOnEntry THEN SetValue(t, i, 0) ELSE UNCHANGED ulNotifiedValue
       /\ IF ucNotifyState[t][i] # "RECEIVED"
          THEN SetState(t, i, "WAITING") /\ Sleep(t, wait)
          ELSE UNCHANGED <<ucNotifyState, stateList>>
  /\ pc' = [pc EXCEPT ![t] = "wait"]
  /\ UNCHANGED <<mail, xPendingReadyList, uxSchedulerSuspended, aborting, suspended>>

\* Bits are cleared all or none.
xTaskGenericNotifyWait(t) ==
  /\ Runs(t, "idle")
  /\ \E i \in Indices, clearsOnEntry, clearsOnExit \in BOOLEAN, wait \in Waits :
       /\ "xTaskGenericNotifyWait" \in UsedActions[i]
       /\ call' = [call EXCEPT ![t] = [index |-> i, clears |-> clearsOnExit]]
       /\ IF ucNotifyState[t][i] # "RECEIVED"
          THEN /\ IF clearsOnEntry THEN SetValue(t, i, 0) ELSE UNCHANGED ulNotifiedValue
               /\ SetState(t, i, "WAITING") /\ Sleep(t, wait)
          ELSE UNCHANGED <<ulNotifiedValue, ucNotifyState, stateList>>
  /\ pc' = [pc EXCEPT ![t] = "wait"]
  /\ UNCHANGED <<mail, xPendingReadyList, uxSchedulerSuspended, aborting, suspended>>

TakeResetsIfPaid(t) ==                                         \* mutant
  LET i == call[t].index
      ulReturn == ulNotifiedValue[t][i] IN
  /\ Runs(t, "take")
  /\ IF ulReturn # 0
     THEN /\ SetValue(t, i, IF call[t].clears THEN 0 ELSE ulReturn - 1)
          /\ SetState(t, i, "NOT_WAITING")
     ELSE UNCHANGED <<ulNotifiedValue, ucNotifyState>>
  /\ pc' = [pc EXCEPT ![t] = "idle"] /\ call' = [call EXCEPT ![t] = NoCall]
  /\ UNCHANGED <<mail, listVars>>

\* The second critical section of each call, and its return.
TakeNotification(t) ==
  LET i == call[t].index
      ulReturn == ulNotifiedValue[t][i] IN
  /\ Runs(t, "take")
  /\ IF ulReturn # 0
     THEN SetValue(t, i, IF call[t].clears THEN 0 ELSE ulReturn - 1)
     ELSE UNCHANGED ulNotifiedValue
  /\ SetState(t, i, "NOT_WAITING")
  /\ pc' = [pc EXCEPT ![t] = "idle"] /\ call' = [call EXCEPT ![t] = NoCall]
  /\ UNCHANGED <<mail, listVars>>

ReadNotification(t) ==
  LET i == call[t].index IN
  /\ Runs(t, "wait")
  /\ IF ucNotifyState[t][i] = "RECEIVED" /\ call[t].clears
     THEN SetValue(t, i, 0) ELSE UNCHANGED ulNotifiedValue
  /\ SetState(t, i, "NOT_WAITING")
  /\ mail' = IF i = MailIndex THEN [mail EXCEPT ![t] = NoMail] ELSE mail
  /\ pc' = [pc EXCEPT ![t] = "idle"] /\ call' = [call EXCEPT ![t] = NoCall]
  /\ UNCHANGED listVars

-----------------------------------------------------------------------------
(* Notifying.                                                              *)

\* The switch over eAction; the state was ucOriginalNotifyState.
Notified(t, i) ==
  \E action \in UsedActions[i] \cap Sends, v \in Values :
    LET old == ulNotifiedValue[t][i]
        refused == action = "eSetValueWithoutOverwrite" /\ ucNotifyState[t][i] = "RECEIVED" IN
    /\ SetValue(t, i, CASE action = "eNoAction" \/ refused -> old
                        [] action = "eSetBits" -> Or(old, v)
                        [] action = "eIncrement" -> (old + 1) % (MaxValue + 1)
                        [] OTHER -> v)
    /\ mail' = IF action = "eSetValueWithoutOverwrite" /\ ~refused /\ i = MailIndex
               THEN [mail EXCEPT ![t] = v] ELSE mail

\* By a task.  It may have the scheduler suspended itself.
xTaskGenericNotify(t, i) ==
  /\ aborting = NoTasks
  /\ Notified(t, i)
  /\ SetState(t, i, "RECEIVED")
  /\ IF ucNotifyState[t][i] = "WAITING" THEN MakeReady(t) ELSE UNCHANGED stateList
  /\ UNCHANGED <<xPendingReadyList, uxSchedulerSuspended, aborting, suspended, callVars>>

WakeNobodyYet(t, i) ==                                         \* mutant
  /\ SetState(t, i, "RECEIVED")
  /\ IF ucNotifyState[t][i] = "WAITING" /\ ~uxSchedulerSuspended
     THEN MakeReady(t) ELSE UNCHANGED stateList
  /\ UNCHANGED <<xPendingReadyList, uxSchedulerSuspended, aborting, suspended, callVars>>

\* The end of the two notifying calls for interrupts.
WakeFromISR(t, i) ==
  /\ SetState(t, i, "RECEIVED")
  /\ CASE ucNotifyState[t][i] # "WAITING" -> UNCHANGED <<stateList, xPendingReadyList>>
       [] ucNotifyState[t][i] = "WAITING" /\ ~uxSchedulerSuspended ->
            MakeReady(t) /\ UNCHANGED xPendingReadyList
       [] OTHER -> xPendingReadyList' = xPendingReadyList \cup {t} /\ UNCHANGED stateList
  /\ UNCHANGED <<uxSchedulerSuspended, aborting, suspended, callVars>>

xTaskGenericNotifyFromISR(t, i) == Notified(t, i) /\ WakeFromISR(t, i)

vTaskGenericNotifyGiveFromISR(t, i) ==
  /\ "eIncrement" \in UsedActions[i]
  /\ SetValue(t, i, (ulNotifiedValue[t][i] + 1) % (MaxValue + 1)) /\ UNCHANGED mail
  /\ WakeFromISR(t, i)

xTaskGenericNotifyStateClear(t, i) ==
  /\ aborting = NoTasks
  /\ "xTaskGenericNotifyStateClear" \in UsedActions[i]
  /\ ucNotifyState[t][i] = "RECEIVED"
  /\ SetState(t, i, "NOT_WAITING")
  /\ UNCHANGED <<ulNotifiedValue, mail, listVars, callVars>>

ulTaskGenericNotifyValueClear(t, i) ==
  /\ aborting = NoTasks
  /\ "ulTaskGenericNotifyValueClear" \in UsedActions[i]
  /\ SetValue(t, i, 0)
  /\ UNCHANGED <<ucNotifyState, mail, listVars, callVars>>

-----------------------------------------------------------------------------
(* What else moves a waiting task.                                         *)

\* The tick at which the block time of t is over.
xTaskIncrementTick(t) ==
  /\ stateList[t] = "delayed" /\ ~uxSchedulerSuspended
  /\ MakeReady(t)
  /\ UNCHANGED <<notifyVars, xPendingReadyList, uxSchedulerSuspended, aborting,
                 suspended, callVars>>

\* The suspended region of another task, xTaskAbortDelay's included.
vTaskSuspendAll ==
  /\ ~uxSchedulerSuspended
  /\ uxSchedulerSuspended' = TRUE
  /\ UNCHANGED <<notifyVars, stateList, xPendingReadyList, aborting, suspended, callVars>>

ResumeKeepsPending ==                                          \* mutant
  /\ uxSchedulerSuspended /\ aborting = NoTasks
  /\ uxSchedulerSuspended' = FALSE
  /\ UNCHANGED <<notifyVars, stateList, xPendingReadyList, aborting, suspended, callVars>>

xTaskResumeAll ==
  /\ uxSchedulerSuspended /\ aborting = NoTasks
  /\ uxSchedulerSuspended' = FALSE
  /\ stateList' = [t \in Tasks |-> IF t \in xPendingReadyList THEN "ready" ELSE stateList[t]]
  /\ suspended' = suspended \ xPendingReadyList
  /\ xPendingReadyList' = {}
  /\ UNCHANGED <<notifyVars, aborting, callVars>>

\* eTaskGetState = eBlocked, of a task that is on no event list.
eBlocked(t) ==
  \/ stateList[t] = "delayed"
  \/ /\ stateList[t] = "suspended"
     /\ t \in xPendingReadyList \/ \E i \in Indices : ucNotifyState[t][i] = "WAITING"

\* Up to the removal of the state list item.
xTaskAbortDelay(t) ==
  /\ uxSchedulerSuspended /\ aborting = NoTasks
  /\ eBlocked(t)
  /\ aborting' = {t}
  /\ stateList' = [stateList EXCEPT ![t] = "none"]
  /\ UNCHANGED <<notifyVars, xPendingReadyList, uxSchedulerSuspended, suspended, callVars>>

FinishAbort(t) ==
  /\ aborting = {t}
  /\ aborting' = NoTasks
  /\ xPendingReadyList' = xPendingReadyList \ {t}
  /\ MakeReady(t)
  /\ suspended' = suspended \ {t}
  /\ UNCHANGED <<notifyVars, uxSchedulerSuspended, callVars>>

\* Of a task, by itself or by another.
vTaskSuspend(t) ==
  /\ aborting = NoTasks
  /\ stateList' = [stateList EXCEPT ![t] = "suspended"]
  /\ xPendingReadyList' = xPendingReadyList \ {t}
  /\ ucNotifyState' = [ucNotifyState EXCEPT ![t] =
       [i \in Indices |-> IF @[i] = "WAITING" THEN "NOT_WAITING" ELSE @[i]]]
  /\ suspended' = suspended \cup {t}
  /\ UNCHANGED <<ulNotifiedValue, mail, uxSchedulerSuspended, aborting, callVars>>

\* A task that waits for a notification without a block time passes for
\* suspended here.
prvTaskIsTaskSuspended(t) == stateList[t] = "suspended" /\ t \notin xPendingReadyList

vTaskResume(t) ==
  /\ aborting = NoTasks
  /\ prvTaskIsTaskSuspended(t)
  /\ MakeReady(t)
  /\ suspended' = suspended \ {t}
  /\ UNCHANGED <<notifyVars, xPendingReadyList, uxSchedulerSuspended, aborting, callVars>>

xTaskResumeFromISR(t) ==
  /\ ResumesBlocked \/ t \in suspended
  /\ prvTaskIsTaskSuspended(t)
  /\ IF ~uxSchedulerSuspended
     THEN MakeReady(t) /\ suspended' = suspended \ {t} /\ UNCHANGED xPendingReadyList
     ELSE xPendingReadyList' = xPendingReadyList \cup {t} /\ UNCHANGED <<stateList, suspended>>
  /\ UNCHANGED <<notifyVars, uxSchedulerSuspended, aborting, callVars>>

-----------------------------------------------------------------------------
(* Specification.                                                          *)

Init ==
  /\ ulNotifiedValue = [t \in Tasks |-> [i \in Indices |-> 0]]
  /\ ucNotifyState = [t \in Tasks |-> [i \in Indices |-> "NOT_WAITING"]]
  /\ stateList = [t \in Tasks |-> "ready"]
  /\ xPendingReadyList = {} /\ uxSchedulerSuspended = FALSE /\ aborting = NoTasks
  /\ pc = [t \in Tasks |-> "idle"] /\ call = [t \in Tasks |-> NoCall]
  /\ suspended = {} /\ mail = [t \in Tasks |-> NoMail]

Next ==
  \/ vTaskSuspendAll \/ xTaskResumeAll
  \/ \E t \in Tasks :
       \/ ulTaskGenericNotifyTake(t) \/ xTaskGenericNotifyWait(t)
       \/ TakeNotification(t) \/ ReadNotification(t)
       \/ xTaskIncrementTick(t) \/ xTaskAbortDelay(t) \/ FinishAbort(t)
       \/ vTaskSuspend(t) \/ vTaskResume(t) \/ xTaskResumeFromISR(t)
       \/ \E i \in Indices :
            \/ xTaskGenericNotify(t, i) \/ xTaskGenericNotifyFromISR(t, i)
            \/ vTaskGenericNotifyGiveFromISR(t, i)
            \/ xTaskGenericNotifyStateClear(t, i) \/ ulTaskGenericNotifyValueClear(t, i)

Spec == Init /\ [][Next]_vars

\* A suspended region ends, and a task that is ready again and again runs.
Fairness ==
  /\ SF_vars(xTaskResumeAll)
  /\ \A t \in Tasks : /\ WF_vars(FinishAbort(t))
                      /\ SF_vars(TakeNotification(t)) /\ SF_vars(ReadNotification(t))

FairSpec == Spec /\ Fairness

-----------------------------------------------------------------------------
(* Properties.                                                             *)

\* The values the variables may take.
TypeOK ==
  /\ ulNotifiedValue \in [Tasks -> [Indices -> 0 .. MaxValue]]
  /\ ucNotifyState \in [Tasks -> [Indices -> NotifyStates]]
  /\ stateList \in [Tasks -> StateLists]
  /\ xPendingReadyList \subseteq Tasks /\ uxSchedulerSuspended \in BOOLEAN
  /\ aborting \subseteq Tasks
  /\ pc \in [Tasks -> {"idle", "take", "wait"}]
  /\ call \in [Tasks -> [index : Indices, clears : BOOLEAN]]
  /\ suspended \subseteq Tasks
  /\ mail \in [Tasks -> Values \cup {NoMail}]

\* No task sleeps on a notification it has: one that waits on a list, and was
\* not suspended, will be woken by the next notification, and a take sleeps on
\* a count of zero.  About the check and the sleep against tasks and interrupts
\* that notify.
SleepsUnnotified ==
  \A t \in Tasks :
    pc[t] # "idle" /\ stateList[t] # "ready" /\ t \notin suspended \cup xPendingReadyList
      => LET i == call[t].index IN
         /\ ucNotifyState[t][i] = "WAITING"
         /\ pc[t] = "take" => ulNotifiedValue[t][i] = 0

\* A task is marked as waiting on the index of the call it is in, and only
\* while it is in it: a notification moves no task that sleeps for another
\* reason.  Nor is the task on xPendingReadyList by then, where a notification
\* may put its event list item: "The task should not have been on an event
\* list." (tasks.c:6029).
WaitingIsCurrent ==
  \A t \in Tasks, i \in Indices :
    ucNotifyState[t][i] = "WAITING"
      => /\ pc[t] # "idle" /\ call[t].index = i
         /\ t \notin suspended \cup xPendingReadyList

\* A value that was set without overwriting is there until it is read, whoever
\* else notifies, suspends or aborts the task and whenever it times out.
MailIsKept ==
  \A t \in Tasks :
    mail[t] # NoMail => /\ ulNotifiedValue[t][MailIndex] = mail[t]
                        /\ ucNotifyState[t][MailIndex] = "RECEIVED"

\* A task that was notified leaves the call it waits in, unless it is suspended.
NotifiedReturns ==
  \A t \in Tasks :
    (pc[t] # "idle" /\ ucNotifyState[t][call[t].index] = "RECEIVED")
      ~> (pc[t] = "idle" \/ t \in suspended)
==============================================================================
