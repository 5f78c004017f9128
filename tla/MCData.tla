------------------------------- MODULE MCData -------------------------------
(***************************************************************************)
(* The boot with its heap, the lists, task notifications and the byte      *)
(* fifo, for TLC.  They share nothing: a behaviour has one of them for its *)
(* subject, and the others stay in their initial states.                   *)
(***************************************************************************)
EXTENDS Boot, Fifo, Lists, Notify, TLC

CONSTANTS main, u1, u2, a, b, x1, x2, x3, ready, delayed, c0, c1, task

VARIABLE subject

MCBatches == {<<a>>, <<b, a>>, <<a, b, b>>}

\* Index 0 counts and carries bits, index 1 carries values that must not be lost.
MCIndices == 0 .. 1
MCUsed ==
  0 :> (Actions \ {"eSetValueWithoutOverwrite", "xTaskGenericNotifyWait"})
    @@ 1 :> {"xTaskGenericNotifyWait", "eNoAction", "eSetValueWithoutOverwrite"}

MCInit ==
  /\ subject \in {"boot", "fifo", "lists", "notify"}
  /\ BootInit /\ FifoInit /\ ListsInit /\ Init
  /\ subject # "fifo" => size = 1

BootStep(A) == subject = "boot" /\ A /\ UNCHANGED <<subject, fvars, lvars, vars>>
FifoStep(A) == subject = "fifo" /\ A /\ UNCHANGED <<subject, bvars, lvars, vars>>
ListsStep(A) == subject = "lists" /\ A /\ UNCHANGED <<subject, bvars, fvars, vars>>
NotifyStep(A) == subject = "notify" /\ A /\ UNCHANGED <<subject, bvars, fvars, lvars>>

\* The disjuncts of BootNext, FifoNext, ListsNext and Next.
MCNext ==
  \/ \E p \in Everyone : BootStep(pvPortMalloc(p))
  \/ \E p \in Everyone : BootStep(MallocReturns(p))
  \/ \E p \in Everyone : BootStep(StackReturns(p))
  \/ \E p \in Everyone : BootStep(TcbReturns(p))
  \/ \E p \in Everyone : BootStep(prvAddNewTaskToReadyList(p))
  \/ \E p \in Everyone : BootStep(xTaskCreate(p))
  \/ \E p \in Everyone : BootStep(Allocate(p))
  \/ \E t \in readyTasks : BootStep(vTaskDelete(t))
  \/ BootStep(vTaskStartScheduler)
  \/ BootStep(prvCreateIdleTasks)
  \/ BootStep(StartOrReturn)
  \/ \E data_in \in Batches : FifoStep(write(data_in))
  \/ \E n \in Requests : FifoStep(read(n))
  \/ FifoStep(reset)
  \/ \E c \in Cores : ListsStep(Select(c))
  \/ \E c \in Cores, t \in 0 .. MaxWakeTime : ListsStep(BlockCurrent(c, t))
  \/ ListsStep(UnblockHead)
  \/ \E x \in Items : ListsStep(Unblock(x))
  \/ \E x \in Items : ListsStep(AddItem(x))
  \/ \E x \in Items : ListsStep(DropItem(x))
  \/ \E x \in Items : ListsStep(xTaskGetHandle(x))
  \/ ListsStep(uxTaskGetSystemState)
  \/ NotifyStep(vTaskSuspendAll)
  \/ NotifyStep(xTaskResumeAll)
  \/ \E t \in Tasks : NotifyStep(ulTaskGenericNotifyTake(t))
  \/ \E t \in Tasks : NotifyStep(xTaskGenericNotifyWait(t))
  \/ \E t \in Tasks : NotifyStep(TakeNotification(t))
  \/ \E t \in Tasks : NotifyStep(ReadNotification(t))
  \/ \E t \in Tasks : NotifyStep(xTaskIncrementTick(t))
  \/ \E t \in Tasks : NotifyStep(xTaskAbortDelay(t))
  \/ \E t \in Tasks : NotifyStep(FinishAbort(t))
  \/ \E t \in Tasks : NotifyStep(vTaskSuspend(t))
  \/ \E t \in Tasks : NotifyStep(vTaskResume(t))
  \/ \E t \in Tasks : NotifyStep(xTaskResumeFromISR(t))
  \/ \E t \in Tasks, i \in Indices : NotifyStep(xTaskGenericNotify(t, i))
  \/ \E t \in Tasks, i \in Indices : NotifyStep(xTaskGenericNotifyFromISR(t, i))
  \/ \E t \in Tasks, i \in Indices : NotifyStep(vTaskGenericNotifyGiveFromISR(t, i))
  \/ \E t \in Tasks, i \in Indices : NotifyStep(xTaskGenericNotifyStateClear(t, i))
  \/ \E t \in Tasks, i \in Indices : NotifyStep(ulTaskGenericNotifyValueClear(t, i))

\* ListsFairness and Fairness.
MCSpec ==
  /\ MCInit /\ [][MCNext]_<<subject, bvars, fvars, lvars, vars>>
  /\ \A c \in Cores : WF_lvars(ListsStep(Select(c)))
  /\ SF_vars(NotifyStep(xTaskResumeAll))
  /\ \A t \in Tasks : /\ WF_vars(NotifyStep(FinishAbort(t)))
                      /\ SF_vars(NotifyStep(TakeNotification(t)))
                      /\ SF_vars(NotifyStep(ReadNotification(t)))
=============================================================================
