-------------------------------- MODULE Queue --------------------------------
(***************************************************************************)
(* One queue, counting semaphore or mailbox of src/src/freertos/queue.c:   *)
(* its ring of items, the tasks waiting to send and to receive, and the    *)
(* locks that keep interrupts off the two waiting lists while a task       *)
(* decides to block.                                                       *)
(*                                                                         *)
(* Cores and priorities of running tasks are module SmpKernel's, the tick  *)
(* count is module Ticks's: here a ready task may run at any time, and a   *)
(* block time may be over at any time.  Everything between vTaskSuspendAll *)
(* and xTaskResumeAll is split where the code leaves interrupts enabled;   *)
(* no other task enters a critical section meanwhile.                      *)
(***************************************************************************)
EXTENDS EventLists

CONSTANTS
  Tasks, NoTask,
  uxPriority,                  \* [Tasks -> Nat]
  Items, NoItem,
  Lengths,                     \* the values of uxLength a queue is created with
  UsedCalls,                   \* the blocking calls each task makes
  Resetters,                   \* the tasks that call xQueueGenericReset
  queueINT8_MAX,               \* the largest int8_t
  MaxInterrupts                \* bound: posts, and takes, by interrupts while
                               \* the queue is locked once

VARIABLES
  uxItemSize, uxLength,        \* set by xQueueGenericCreate
  storage, pcWriteTo, pcReadFrom,
  uxMessagesWaiting,
  cRxLock, cTxLock,
  xTasksWaitingToSend, xTasksWaitingToReceive,
  xReadyTasks,                 \* tasks on the ready lists
  xPendingReadyList,           \* readied while the scheduler was suspended
  suspendedBy, step,           \* the task in its suspended region, and where
  pc, call,                    \* where a task stands in the call it makes
  expired,                     \* tasks whose block time is over
  \* History, never read by the code:
  delivered,                   \* what the last receive or peek handed over
  xResetLeftSenders            \* a reset made room and left senders asleep

kindVars == <<uxItemSize, uxLength>>
ringVars == <<storage, pcWriteTo, pcReadFrom, uxMessagesWaiting, delivered>>
lockVars == <<cRxLock, cTxLock>>
listVars == <<xTasksWaitingToSend, xTasksWaitingToReceive, xReadyTasks,
              xPendingReadyList>>
regionVars == <<suspendedBy, step>>
callVars == <<pc, call, expired>>
vars == <<kindVars, ringVars, lockVars, listVars, regionVars, callVars,
          xResetLeftSenders>>

\* pc: idle (outside), try (about to enter the critical section at the top of
\* the loop), suspend (found the queue full or empty, about to suspend the
\* scheduler, or not yet past the time check), fail (timed out, a send),
\* recheck (timed out, a receive).
Places == {"idle", "try", "suspend", "fail", "recheck"}
Steps == {"none", "lock", "check", "place", "unlockTx", "unlockRx", "resume"}

Waits == {"no", "timed", "forever"}                          \* xTicksToWait
NoCall == [api |-> "none", wait |-> "no", item |-> NoItem, position |-> "back"]
Receivers == {"xQueueReceive", "xQueueSemaphoreTake", "xQueuePeek"}

Sends == [api : {"xQueueGenericSend"}, wait : Waits, item : Items \cup {NoItem},
          position : {"back", "front", "overwrite"}]
Receives == [api : Receivers, wait : Waits, item : {NoItem}, position : {"back"}]

ASSUME QueueAssumption ==
  /\ NoTask \notin Tasks /\ NoItem \notin Items
  /\ IsFiniteSet(Tasks) /\ uxPriority \in [Tasks -> Nat]
  /\ Lengths \subseteq Nat \ {0}
  /\ UsedCalls \in [Tasks -> SUBSET (Sends \cup Receives)]
  /\ queueINT8_MAX \in Nat /\ MaxInterrupts \in Nat

queueUNLOCKED == -1
queueLOCKED_UNMODIFIED == 0
int8_t == -(queueINT8_MAX + 1) .. queueINT8_MAX

-----------------------------------------------------------------------------
(* The ring.                                                               *)

\* Slot n places after slot i; n is at most uxLength.
Ahead(i, n) == IF i + n >= uxLength THEN i + n - uxLength ELSE i + n
Behind(i) == IF i = 0 THEN uxLength - 1 ELSE i - 1

Contents == [n \in 1 .. uxMessagesWaiting |-> storage[Ahead(pcReadFrom, n)]]

uxQueueSpacesAvailable == uxLength - uxMessagesWaiting
prvIsQueueEmpty == uxMessagesWaiting = 0
prvIsQueueFull == uxMessagesWaiting = uxLength

MoveThenCopyData(item, position) ==                            \* mutant
  /\ uxMessagesWaiting' = IF position = "overwrite" /\ uxMessagesWaiting > 0
                          THEN uxMessagesWaiting ELSE uxMessagesWaiting + 1
  /\ UNCHANGED delivered
  /\ \/ uxItemSize = 0 /\ UNCHANGED <<storage, pcWriteTo, pcReadFrom>>
     \/ /\ uxItemSize # 0 /\ position = "back"
        /\ storage' = [storage EXCEPT ![pcWriteTo] = item]
        /\ pcWriteTo' = Ahead(pcWriteTo, 1)
        /\ UNCHANGED pcReadFrom
     \/ /\ uxItemSize # 0 /\ position # "back"
        /\ storage' = [storage EXCEPT ![Behind(pcReadFrom)] = item]
        /\ pcReadFrom' = Behind(pcReadFrom)
        /\ UNCHANGED pcWriteTo

prvCopyDataToQueue(item, position) ==
  /\ uxMessagesWaiting' = IF position = "overwrite" /\ uxMessagesWaiting > 0
                          THEN uxMessagesWaiting ELSE uxMessagesWaiting + 1
  /\ UNCHANGED delivered
  /\ \/ uxItemSize = 0 /\ UNCHANGED <<storage, pcWriteTo, pcReadFrom>>
     \/ /\ uxItemSize # 0 /\ position = "back"
        /\ storage' = [storage EXCEPT ![pcWriteTo] = item]
        /\ pcWriteTo' = Ahead(pcWriteTo, 1)
        /\ UNCHANGED pcReadFrom
     \/ /\ uxItemSize # 0 /\ position # "back"
        /\ storage' = [storage EXCEPT ![pcReadFrom] = item]
        /\ pcReadFrom' = Behind(pcReadFrom)
        /\ UNCHANGED pcWriteTo

\* The reader's copy.  Taking moves pcReadFrom, peeking puts it back.
prvCopyDataFromQueue(takes) ==
  LET slot == IF uxItemSize = 0 THEN pcReadFrom ELSE Ahead(pcReadFrom, 1) IN
  /\ delivered' = storage[slot]
  /\ pcReadFrom' = IF takes THEN slot ELSE pcReadFrom
  /\ uxMessagesWaiting' = IF takes THEN uxMessagesWaiting - 1 ELSE uxMessagesWaiting
  /\ UNCHANGED <<storage, pcWriteTo>>

-----------------------------------------------------------------------------
(* Waiting lists.                                                          *)

Runs(t) == t \in xReadyTasks /\ suspendedBy = NoTask
InRegion(t, s) == suspendedBy = t /\ step = s
GoTo(s) == step' = s /\ UNCHANGED suspendedBy

\* The tasks of S get ready: at once, or when the scheduler is resumed.
Ready(S) ==
  IF suspendedBy = NoTask
  THEN xReadyTasks' = xReadyTasks \cup S /\ UNCHANGED xPendingReadyList
  ELSE xPendingReadyList' = xPendingReadyList \cup S /\ UNCHANGED xReadyTasks

LeastOf(m, n) == IF m < n THEN m ELSE n

\* xTaskRemoveFromEventList n times, or until the list is empty.
WakeReceivers(n) ==
  LET k == LeastOf(n, Len(xTasksWaitingToReceive)) IN
  /\ xTasksWaitingToReceive' = AfterFirst(xTasksWaitingToReceive, k)
  /\ Ready(FirstOf(xTasksWaitingToReceive, k))
  /\ UNCHANGED xTasksWaitingToSend

WakeSenders(n) ==
  LET k == LeastOf(n, Len(xTasksWaitingToSend)) IN
  /\ xTasksWaitingToSend' = AfterFirst(xTasksWaitingToSend, k)
  /\ Ready(FirstOf(xTasksWaitingToSend, k))
  /\ UNCHANGED xTasksWaitingToReceive

\* History: a step that drops several items at once is a reset.
NoteReset ==
  xResetLeftSenders' = (/\ xTasksWaitingToSend' # <<>>
                        /\ uxMessagesWaiting' < uxLength
                        /\ \/ xResetLeftSenders
                           \/ uxMessagesWaiting' + 1 < uxMessagesWaiting)

-----------------------------------------------------------------------------
(* The critical section at the top of the loops of the blocking calls.  A  *)
(* call that is not idle repeats the call it has begun.                    *)

Fits(c) ==
  IF uxItemSize = 0
  THEN c.item = NoItem /\ c.api \in {"xQueueGenericSend", "xQueueSemaphoreTake"}
       /\ c.position = "back"
  ELSE /\ c.api = "xQueueGenericSend" <=> c.item \in Items
       /\ c.api # "xQueueSemaphoreTake"
       /\ c.position = "overwrite" => uxLength = 1

CallsOf(t) ==
  IF pc[t] = "idle" THEN {c \in UsedCalls[t] : Fits(c)}
  ELSE {call[t]}

InLoop(t) == Runs(t) /\ pc[t] \in {"idle", "try"}

Return(t) ==
  /\ pc' = [pc EXCEPT ![t] = "idle"]
  /\ call' = [call EXCEPT ![t] = NoCall]
  /\ expired' = expired \ {t}

\* The call can neither succeed nor, if it may wait, fail yet.
GiveUpOrWait(t, c) ==
  /\ UNCHANGED <<ringVars, listVars>>
  /\ IF c.wait = "no" THEN Return(t)
     ELSE /\ pc' = [pc EXCEPT ![t] = "suspend"]
          /\ call' = [call EXCEPT ![t] = c]
          /\ UNCHANGED expired

xQueueGenericSend(t) ==
  /\ InLoop(t)
  /\ \E c \in CallsOf(t) :
       /\ c.api = "xQueueGenericSend"
       /\ IF uxMessagesWaiting < uxLength \/ c.position = "overwrite"
          THEN prvCopyDataToQueue(c.item, c.position) /\ WakeReceivers(1) /\ Return(t)
          ELSE GiveUpOrWait(t, c)
  /\ UNCHANGED <<kindVars, lockVars, regionVars>>
  /\ NoteReset

xQueueReceive(t) ==
  /\ InLoop(t)
  /\ \E c \in CallsOf(t) :
       /\ c.api = "xQueueReceive"
       /\ IF uxMessagesWaiting > 0
          THEN prvCopyDataFromQueue(TRUE) /\ WakeSenders(1) /\ Return(t)
          ELSE GiveUpOrWait(t, c)
  /\ UNCHANGED <<kindVars, lockVars, regionVars>>
  /\ NoteReset

\* Of a semaphore that is no mutex.
xQueueSemaphoreTake(t) ==
  /\ InLoop(t)
  /\ \E c \in CallsOf(t) :
       /\ c.api = "xQueueSemaphoreTake"
       /\ IF uxMessagesWaiting > 0
          THEN prvCopyDataFromQueue(TRUE) /\ WakeSenders(1) /\ Return(t)
          ELSE GiveUpOrWait(t, c)
  /\ UNCHANGED <<kindVars, lockVars, regionVars>>
  /\ NoteReset

PeekWakesNobody(t) ==                                         \* mutant
  /\ InLoop(t)
  /\ \E c \in CallsOf(t) :
       /\ c.api = "xQueuePeek"
       /\ IF uxMessagesWaiting > 0
          THEN prvCopyDataFromQueue(FALSE) /\ UNCHANGED listVars /\ Return(t)
          ELSE GiveUpOrWait(t, c)
  /\ UNCHANGED <<kindVars, lockVars, regionVars>>
  /\ NoteReset

\* The item stays: the next waiting receiver is woken for it.
xQueuePeek(t) ==
  /\ InLoop(t)
  /\ \E c \in CallsOf(t) :
       /\ c.api = "xQueuePeek"
       /\ IF uxMessagesWaiting > 0
          THEN prvCopyDataFromQueue(FALSE) /\ WakeReceivers(1) /\ Return(t)
          ELSE GiveUpOrWait(t, c)
  /\ UNCHANGED <<kindVars, lockVars, regionVars>>
  /\ NoteReset

xQueueGenericReset(t) ==
  /\ Runs(t) /\ pc[t] = "idle" /\ t \in Resetters
  /\ uxMessagesWaiting' = 0
  /\ pcWriteTo' = 0 /\ pcReadFrom' = uxLength - 1
  /\ cRxLock' = queueUNLOCKED /\ cTxLock' = queueUNLOCKED
  /\ WakeSenders(1)
  /\ UNCHANGED <<kindVars, storage, delivered, regionVars, callVars>>
  /\ NoteReset

-----------------------------------------------------------------------------
(* The suspended region of the blocking calls.                             *)

\* Whether the call of t waits for room; the others wait for an item.
IsSend(t) == call[t].api = "xQueueGenericSend"
CannotProceed(t) == IF IsSend(t) THEN prvIsQueueFull ELSE prvIsQueueEmpty

vTaskSuspendAll(t) ==
  /\ Runs(t) /\ pc[t] = "suspend"
  /\ suspendedBy' = t /\ step' = "lock"
  /\ UNCHANGED <<kindVars, ringVars, lockVars, listVars, callVars>>
  /\ NoteReset

prvLockQueue(t) ==
  /\ InRegion(t, "lock")
  /\ cRxLock' = IF cRxLock = queueUNLOCKED THEN queueLOCKED_UNMODIFIED ELSE cRxLock
  /\ cTxLock' = IF cTxLock = queueUNLOCKED THEN queueLOCKED_UNMODIFIED ELSE cTxLock
  /\ GoTo("check")
  /\ UNCHANGED <<kindVars, ringVars, listVars, callVars>>
  /\ NoteReset

\* xTaskCheckForTimeOut, then prvIsQueueFull or prvIsQueueEmpty.  No tick is
\* counted while the scheduler is suspended, so the time does not change.  A
\* call that has timed out is left no time to wait.
CheckTimeOut(t) ==
  /\ InRegion(t, "check")
  /\ pc' = [pc EXCEPT ![t] = IF t \notin expired THEN "try"
                             ELSE IF IsSend(t) THEN "fail" ELSE "recheck"]
  /\ call' = IF t \in expired THEN [call EXCEPT ![t].wait = "no"] ELSE call
  /\ GoTo(IF t \notin expired /\ CannotProceed(t) THEN "place" ELSE "unlockTx")
  /\ UNCHANGED <<kindVars, ringVars, lockVars, listVars, expired>>
  /\ NoteReset

vTaskPlaceOnEventList(t) ==
  /\ InRegion(t, "place")
  /\ IF IsSend(t)
     THEN xTasksWaitingToSend' = vListInsert(xTasksWaitingToSend, t, uxPriority)
          /\ UNCHANGED xTasksWaitingToReceive
     ELSE xTasksWaitingToReceive' = vListInsert(xTasksWaitingToReceive, t, uxPriority)
          /\ UNCHANGED xTasksWaitingToSend
  /\ xReadyTasks' = xReadyTasks \ {t}
  /\ GoTo("unlockTx")
  /\ UNCHANGED <<kindVars, ringVars, lockVars, xPendingReadyList, callVars>>
  /\ NoteReset

\* The first and the second critical section of prvUnlockQueue.
prvUnlockQueue(t) ==
  /\ InRegion(t, "unlockTx")
  /\ WakeReceivers(IF cTxLock > queueLOCKED_UNMODIFIED THEN cTxLock ELSE 0)
  /\ cTxLock' = queueUNLOCKED
  /\ GoTo("unlockRx")
  /\ UNCHANGED <<kindVars, ringVars, cRxLock, callVars>>
  /\ NoteReset

UnlockRxIfUsed(t) ==                                           \* mutant
  /\ InRegion(t, "unlockRx")
  /\ WakeSenders(IF cRxLock > queueLOCKED_UNMODIFIED THEN cRxLock ELSE 0)
  /\ cRxLock' = IF cRxLock > queueLOCKED_UNMODIFIED THEN queueUNLOCKED ELSE cRxLock
  /\ GoTo("resume")
  /\ UNCHANGED <<kindVars, ringVars, cTxLock, callVars>>
  /\ NoteReset

UnlockRx(t) ==
  /\ InRegion(t, "unlockRx")
  /\ WakeSenders(IF cRxLock > queueLOCKED_UNMODIFIED THEN cRxLock ELSE 0)
  /\ cRxLock' = queueUNLOCKED
  /\ GoTo("resume")
  /\ UNCHANGED <<kindVars, ringVars, cTxLock, callVars>>
  /\ NoteReset

\* A send that has timed out returns without another look at the queue.
xTaskResumeAll(t) ==
  /\ InRegion(t, "resume")
  /\ suspendedBy' = NoTask /\ step' = "none"
  /\ xReadyTasks' = xReadyTasks \cup xPendingReadyList
  /\ xPendingReadyList' = {}
  /\ IF pc[t] = "fail" THEN Return(t) ELSE UNCHANGED callVars
  /\ UNCHANGED <<kindVars, ringVars, lockVars, xTasksWaitingToSend,
                 xTasksWaitingToReceive>>
  /\ NoteReset

\* A receive that has timed out looks again.
RecheckEmpty(t) ==
  /\ Runs(t) /\ pc[t] = "recheck"
  /\ IF prvIsQueueEmpty THEN Return(t)
     ELSE pc' = [pc EXCEPT ![t] = "try"] /\ UNCHANGED <<call, expired>>
  /\ UNCHANGED <<kindVars, ringVars, lockVars, listVars, regionVars>>
  /\ NoteReset

-----------------------------------------------------------------------------
(* Interrupts.  The port's interrupt mask is taken to keep them out of      *)
(* critical sections; they come anywhere else.                             *)

\* An int8_t that goes over its largest value starts again at its smallest.
Increment8(n) == IF n = queueINT8_MAX THEN -(queueINT8_MAX + 1) ELSE n + 1

\* Bound: what interrupts do to a locked queue.
Bounded(lock) == lock < MaxInterrupts

\* An item came: wake a receiver, or leave it to the task that unlocks.
PostedFromISR ==
  IF cTxLock = queueUNLOCKED
  THEN WakeReceivers(1) /\ UNCHANGED cTxLock
  ELSE cTxLock' = Increment8(cTxLock) /\ UNCHANGED listVars

xQueueGenericSendFromISR ==
  /\ uxItemSize # 0 /\ Bounded(cTxLock)
  /\ \E item \in Items, position \in {"back", "front", "overwrite"} :
       /\ position = "overwrite" => uxLength = 1
       /\ uxMessagesWaiting < uxLength \/ position = "overwrite"
       /\ prvCopyDataToQueue(item, position)
  /\ PostedFromISR
  /\ UNCHANGED <<kindVars, cRxLock, regionVars, callVars>>
  /\ NoteReset

xQueueGiveFromISR ==
  /\ uxItemSize = 0 /\ Bounded(cTxLock)
  /\ uxMessagesWaiting < uxLength
  /\ uxMessagesWaiting' = uxMessagesWaiting + 1
  /\ PostedFromISR
  /\ UNCHANGED <<kindVars, storage, pcWriteTo, pcReadFrom, delivered, cRxLock,
                 regionVars, callVars>>
  /\ NoteReset

xQueueReceiveFromISR ==
  /\ uxMessagesWaiting > 0 /\ Bounded(cRxLock)
  /\ prvCopyDataFromQueue(TRUE)
  /\ IF cRxLock = queueUNLOCKED
     THEN WakeSenders(1) /\ UNCHANGED cRxLock
     ELSE cRxLock' = Increment8(cRxLock) /\ UNCHANGED listVars
  /\ UNCHANGED <<kindVars, cTxLock, regionVars, callVars>>
  /\ NoteReset

xQueuePeekFromISR ==
  /\ uxItemSize # 0 /\ uxMessagesWaiting > 0
  /\ prvCopyDataFromQueue(FALSE)
  /\ UNCHANGED <<kindVars, lockVars, listVars, regionVars, callVars>>
  /\ NoteReset

TickKeepsEventItem(t) ==                                       \* mutant
  /\ suspendedBy = NoTask
  /\ call[t].wait = "timed" /\ t \notin expired
  /\ expired' = expired \cup {t}
  /\ xReadyTasks' = xReadyTasks \cup {t}
  /\ UNCHANGED <<kindVars, ringVars, lockVars, xPendingReadyList, regionVars,
                 pc, call, xTasksWaitingToSend, xTasksWaitingToReceive>>
  /\ NoteReset

\* The tick at which the block time of t is over.  While the scheduler is
\* suspended ticks are pended.
xTaskIncrementTick(t) ==
  /\ suspendedBy = NoTask
  /\ call[t].wait = "timed" /\ t \notin expired
  /\ expired' = expired \cup {t}
  /\ xReadyTasks' = xReadyTasks \cup {t}
  /\ xTasksWaitingToSend' = uxListRemove(xTasksWaitingToSend, t)
  /\ xTasksWaitingToReceive' = uxListRemove(xTasksWaitingToReceive, t)
  /\ UNCHANGED <<kindVars, ringVars, lockVars, xPendingReadyList, regionVars,
                 pc, call>>
  /\ NoteReset

-----------------------------------------------------------------------------
(* Specification.                                                          *)

\* A new queue is empty; a counting semaphore starts with its initial count.
xQueueGenericCreate ==
  /\ uxItemSize \in {0, 1} /\ uxLength \in Lengths
  /\ uxMessagesWaiting \in IF uxItemSize = 0 THEN 0 .. uxLength ELSE {0}
  /\ storage = [i \in 0 .. uxLength - 1 |-> NoItem]
  /\ pcWriteTo = 0 /\ pcReadFrom = uxLength - 1
  /\ cRxLock = queueUNLOCKED /\ cTxLock = queueUNLOCKED
  /\ xTasksWaitingToSend = <<>> /\ xTasksWaitingToReceive = <<>>

Init ==
  /\ xQueueGenericCreate
  /\ xReadyTasks = Tasks /\ xPendingReadyList = {}
  /\ suspendedBy = NoTask /\ step = "none"
  /\ pc = [t \in Tasks |-> "idle"] /\ call = [t \in Tasks |-> NoCall]
  /\ expired = {}
  /\ delivered = NoItem /\ xResetLeftSenders = FALSE

TaskStep(t) ==
  \/ xQueueGenericSend(t) \/ xQueueReceive(t) \/ xQueueSemaphoreTake(t)
  \/ xQueuePeek(t) \/ xQueueGenericReset(t)
  \/ vTaskSuspendAll(t) \/ prvLockQueue(t) \/ CheckTimeOut(t)
  \/ vTaskPlaceOnEventList(t) \/ prvUnlockQueue(t) \/ UnlockRx(t)
  \/ xTaskResumeAll(t) \/ RecheckEmpty(t)

Interrupt ==
  \/ xQueueGenericSendFromISR \/ xQueueGiveFromISR
  \/ xQueueReceiveFromISR \/ xQueuePeekFromISR
  \/ \E t \in Tasks : xTaskIncrementTick(t)

Next == (\E t \in Tasks : TaskStep(t)) \/ Interrupt

Spec == Init /\ [][Next]_vars

-----------------------------------------------------------------------------
(* Properties.                                                             *)

\* The values the variables may take: both locks stay within eight bits'
\* worth, and no more items wait than the queue has room for.
TypeOK ==
  /\ uxItemSize \in {0, 1} /\ uxLength \in Lengths
  /\ storage \in [0 .. uxLength - 1 -> Items \cup {NoItem}]
  /\ pcWriteTo \in 0 .. uxLength - 1 /\ pcReadFrom \in 0 .. uxLength - 1
  /\ uxMessagesWaiting \in 0 .. uxLength
  /\ cRxLock \in int8_t /\ cTxLock \in int8_t
  /\ xTasksWaitingToSend \in Seq(Tasks) /\ xTasksWaitingToReceive \in Seq(Tasks)
  /\ xReadyTasks \subseteq Tasks /\ xPendingReadyList \subseteq Tasks
  /\ suspendedBy \in Tasks \cup {NoTask} /\ step \in Steps
  /\ pc \in [Tasks -> Places] /\ call \in [Tasks -> Sends \cup Receives \cup {NoCall}]
  /\ expired \subseteq Tasks
  /\ delivered \in Items \cup {NoItem} /\ xResetLeftSenders \in BOOLEAN

\* The tasks that are awake and about to look at the queue.
Coming(sends) ==
  {t \in xReadyTasks \cup xPendingReadyList : pc[t] = "try" /\ IsSend(t) = sends}

\* The tasks that prvUnlockQueue will wake for what interrupts did meanwhile.
OwedReceivers ==
  IF suspendedBy # NoTask /\ step \in {"check", "place", "unlockTx"} THEN cTxLock ELSE 0
OwedSenders ==
  IF suspendedBy # NoTask /\ step \in {"check", "place", "unlockTx", "unlockRx"}
  THEN cRxLock ELSE 0

\* No receiver sleeps beside an item that nobody comes for: while a task waits
\* to receive, each item in the queue has a receiver that was woken and has not
\* looked yet, or a post counted in cTxLock that will wake one.  About the
\* check, the block and prvUnlockQueue against interrupts and other receivers,
\* and about a peek, which must pass the wake-up on.
NoReceiverIsForgotten ==
  xTasksWaitingToReceive # <<>>
    => uxMessagesWaiting <= Cardinality(Coming(FALSE)) + OwedReceivers

\* The same for senders and room, except after a reset, which wakes only one.
NoSenderIsForgotten ==
  xTasksWaitingToSend # <<>> /\ ~xResetLeftSenders
    => uxQueueSpacesAvailable <= Cardinality(Coming(TRUE)) + OwedSenders

\* A task sleeps on exactly one list, and only a task that sleeps, or that was
\* woken while the scheduler is suspended, is on none of the ready lists: no
\* wake-up, timeout or unlock loses a task or leaves one on a list behind.
SleepersAreOnOneList ==
  LET S == Waiters(xTasksWaitingToSend)
      R == Waiters(xTasksWaitingToReceive) IN
  /\ S \cap R = {} /\ xPendingReadyList \cap (S \cup R) = {}
  /\ S \cup R \cup xPendingReadyList = Tasks \ xReadyTasks
  /\ Cardinality(S) = Len(xTasksWaitingToSend)
  /\ Cardinality(R) = Len(xTasksWaitingToReceive)

\* The queue is locked between prvLockQueue and prvUnlockQueue only.
LockedInRegion ==
  /\ cTxLock # queueUNLOCKED
       <=> suspendedBy # NoTask /\ step \in {"check", "place", "unlockTx"}
  /\ cRxLock # queueUNLOCKED
       <=> suspendedBy # NoTask /\ step \in {"check", "place", "unlockTx", "unlockRx"}

\* The ring is a bounded sequence of items: every step posts at one end, takes
\* or reads the first item, drops all, or leaves the sequence alone.
Items_ == INSTANCE Channel WITH contents <- Contents
IsChannel == Items_!Spec
==============================================================================
