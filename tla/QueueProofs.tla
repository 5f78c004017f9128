----------------------------- MODULE QueueProofs -----------------------------
(***************************************************************************)
(* Theorems about Queue, for every set of tasks with any priorities, every *)
(* length of the queue and every mix of calls and interrupts: nobody       *)
(* sleeps forgotten as long as the eight-bit lock counts do not wrap, and  *)
(* the ring implements the bounded channel of module Channel.              *)
(***************************************************************************)
EXTENDS Queue, EventListTheorems

\* The assertion of xQueueGenericSendFromISR, that a lock count does not wrap.
LocksDoNotWrap == MaxInterrupts <= queueINT8_MAX

Sending == Waiters(xTasksWaitingToSend)
Receiving == Waiters(xTasksWaitingToReceive)
Awake == xReadyTasks \cup xPendingReadyList
ComingReceivers == {t \in Awake : pc[t] = "try" /\ ~IsSend(t)}
ComingSenders == {t \in Awake : pc[t] = "try" /\ IsSend(t)}

\* Every task is on one list, and on that list once.
ListsOK ==
  /\ OnceEach(xTasksWaitingToSend) /\ OnceEach(xTasksWaitingToReceive)
  /\ Sending \cap Receiving = {} /\ xPendingReadyList \cap (Sending \cup Receiving) = {}
  /\ Sending \cup Receiving \cup xPendingReadyList = Tasks \ xReadyTasks

\* Who sleeps waits in its loop, for what its call wants; no overwrite waits.
WaitersOK ==
  /\ \A t \in Sending : pc[t] = "try" /\ IsSend(t)
  /\ \A t \in Receiving : pc[t] = "try" /\ ~IsSend(t)
  /\ \A t \in Tasks : call[t].position # "overwrite"

\* Where the holder of the suspended scheduler stands.
RegionOK ==
  /\ suspendedBy = NoTask <=> step = "none"
  /\ suspendedBy = NoTask => xPendingReadyList = {}
  /\ step \in {"lock", "check"} => pc[suspendedBy] = "suspend"
  /\ step = "place" => pc[suspendedBy] = "try"
  /\ step \in {"lock", "check", "place"} => suspendedBy \in xReadyTasks

\* The counts are those of a locked queue.
LocksOK ==
  /\ LockedInRegion
  /\ cTxLock \in -1 .. MaxInterrupts /\ cRxLock \in -1 .. MaxInterrupts

\* A task about to sleep has seen the queue full or empty: what has come since
\* is in the counts.
PlaceOK ==
  step = "place" =>
    IF IsSend(suspendedBy) THEN uxLength - uxMessagesWaiting <= cRxLock
    ELSE uxMessagesWaiting <= cTxLock

ReceiversOK ==
  xTasksWaitingToReceive # <<>>
    => uxMessagesWaiting <= Cardinality(ComingReceivers) + OwedReceivers

SendersOK ==
  xTasksWaitingToSend # <<>> /\ ~xResetLeftSenders
    => uxLength - uxMessagesWaiting <= Cardinality(ComingSenders) + OwedSenders

RingType ==
  /\ uxItemSize \in {0, 1} /\ uxLength \in Lengths
  /\ storage \in [0 .. uxLength - 1 -> Items \cup {NoItem}]
  /\ pcWriteTo \in 0 .. uxLength - 1 /\ pcReadFrom \in 0 .. uxLength - 1
  /\ uxMessagesWaiting \in 0 .. uxLength
  /\ delivered \in Items \cup {NoItem} /\ xResetLeftSenders \in BOOLEAN

ListsType ==
  /\ xTasksWaitingToSend \in Seq(Tasks) /\ xTasksWaitingToReceive \in Seq(Tasks)
  /\ xReadyTasks \subseteq Tasks /\ xPendingReadyList \subseteq Tasks

CallType ==
  /\ suspendedBy \in Tasks \cup {NoTask} /\ step \in Steps
  /\ pc \in [Tasks -> Places] /\ call \in [Tasks -> Sends \cup Receives \cup {NoCall}]
  /\ expired \subseteq Tasks

IInv ==
  /\ RingType /\ ListsType /\ CallType
  /\ ListsOK /\ WaitersOK /\ RegionOK /\ LocksOK /\ PlaceOK
  /\ ReceiversOK /\ SendersOK

-----------------------------------------------------------------------------
(* What follows from the invariant.                                        *)

LEMMA TypeFromIInv ==
  ASSUME IInv, LocksDoNotWrap
  PROVE  TypeOK
PROOF
<1>1. cTxLock \in int8_t /\ cRxLock \in int8_t
  BY QueueAssumption DEF IInv, LocksOK, LocksDoNotWrap, int8_t
<1> QED
  BY <1>1 DEF IInv, RingType, ListsType, CallType, TypeOK

\* Coming is one of the two sets.
LEMMA ComingIs ==
  Coming(FALSE) = ComingReceivers /\ Coming(TRUE) = ComingSenders
PROOF
<1>1. \A t : IsSend(t) \in BOOLEAN
  BY DEF IsSend
<1>2. Coming(FALSE) = ComingReceivers
  BY <1>1 DEF Coming, ComingReceivers, Awake
<1>3. Coming(TRUE) = ComingSenders
  BY <1>1 DEF Coming, ComingSenders, Awake
<1> QED
  BY <1>2, <1>3

LEMMA PropertiesFromIInv ==
  ASSUME IInv
  PROVE  NoReceiverIsForgotten /\ NoSenderIsForgotten /\ SleepersAreOnOneList
PROOF
<1>1. NoReceiverIsForgotten
  BY ComingIs DEF IInv, ReceiversOK, NoReceiverIsForgotten
<1>2. NoSenderIsForgotten
  BY ComingIs DEF IInv, SendersOK, NoSenderIsForgotten, uxQueueSpacesAvailable
<1>3. Cardinality(Sending) = Len(xTasksWaitingToSend)
      /\ Cardinality(Receiving) = Len(xTasksWaitingToReceive)
  BY WaitersSize DEF IInv, ListsType, ListsOK, Sending, Receiving
<1>4. SleepersAreOnOneList
  BY <1>3 DEF IInv, ListsOK, SleepersAreOnOneList, Sending, Receiving
<1> QED
  BY <1>1, <1>2, <1>4

\* The sets of tasks that are coming are finite, and hold no sleeper.
LEMMA ComingType ==
  ASSUME IInv
  PROVE  /\ IsFiniteSet(ComingReceivers) /\ IsFiniteSet(ComingSenders)
         /\ Cardinality(ComingReceivers) \in Nat /\ Cardinality(ComingSenders) \in Nat
         /\ Awake \cap (Sending \cup Receiving) = {}
PROOF
<1>1. Awake \subseteq Tasks /\ IsFiniteSet(Tasks)
  BY QueueAssumption DEF IInv, ListsType, Awake
<1>2. ComingReceivers \subseteq Tasks /\ ComingSenders \subseteq Tasks
  BY <1>1 DEF ComingReceivers, ComingSenders
<1>3. IsFiniteSet(ComingReceivers) /\ IsFiniteSet(ComingSenders)
  BY <1>1, <1>2, FS_Subset
<1>4. Awake \cap (Sending \cup Receiving) = {}
  BY DEF IInv, ListsOK, Awake
<1> QED
  BY <1>3, <1>4, FS_CardinalityType

LEMMA OwedType ==
  ASSUME IInv
  PROVE  OwedReceivers \in Nat /\ OwedSenders \in Nat
PROOF
<1>1. cTxLock # -1 => cTxLock \in Nat
  BY QueueAssumption DEF IInv, LocksOK
<1>2. cRxLock # -1 => cRxLock \in Nat
  BY QueueAssumption DEF IInv, LocksOK
<1>3. OwedReceivers \in Nat
  BY <1>1 DEF IInv, LocksOK, LockedInRegion, OwedReceivers, queueUNLOCKED
<1>4. OwedSenders \in Nat
  BY <1>2 DEF IInv, LocksOK, LockedInRegion, OwedSenders, queueUNLOCKED
<1> QED
  BY <1>3, <1>4

-----------------------------------------------------------------------------
(* Waking.                                                                 *)

\* What Ready does to the sets.
Roused(W) ==
  /\ Awake' = Awake \cup W
  /\ xReadyTasks \subseteq xReadyTasks' /\ xPendingReadyList \subseteq xPendingReadyList'
  /\ suspendedBy = NoTask => xPendingReadyList' = xPendingReadyList

WokenReceivers(W, n) ==
  /\ W \subseteq Receiving /\ Receiving' = Receiving \ W
  /\ UNCHANGED xTasksWaitingToSend
  /\ Roused(W)
  /\ xTasksWaitingToReceive' # <<>> => xTasksWaitingToReceive # <<>> /\ Cardinality(W) = n

WokenSenders(W, n) ==
  /\ W \subseteq Sending /\ Sending' = Sending \ W
  /\ UNCHANGED xTasksWaitingToReceive
  /\ Roused(W)
  /\ xTasksWaitingToSend' # <<>> => xTasksWaitingToSend # <<>> /\ Cardinality(W) = n

\* The first k of a list.
LEMMA FirstK ==
  ASSUME NEW list \in Seq(Tasks), OnceEach(list), NEW n \in Nat
  PROVE  LET k == LeastOf(n, Len(list)) IN
         /\ k \in 0 .. Len(list)
         /\ AfterFirst(list, k) \in Seq(Tasks) /\ OnceEach(AfterFirst(list, k))
         /\ Waiters(AfterFirst(list, k)) = Waiters(list) \ FirstOf(list, k)
         /\ FirstOf(list, k) \subseteq Waiters(list)
         /\ AfterFirst(list, k) # <<>>
              => list # <<>> /\ Cardinality(FirstOf(list, k)) = n
PROOF
<1> DEFINE k == LeastOf(n, Len(list))
<1>1. Len(list) \in Nat
  BY ListType
<1>2. k \in 0 .. Len(list) /\ (k < Len(list) => k = n)
  BY <1>1 DEF LeastOf
<1> HIDE DEF k
<1>3. /\ AfterFirst(list, k) \in Seq(Tasks) /\ OnceEach(AfterFirst(list, k))
      /\ Waiters(AfterFirst(list, k)) = Waiters(list) \ FirstOf(list, k)
      /\ FirstOf(list, k) \subseteq Waiters(list)
      /\ AfterFirst(list, k) # <<>> <=> k < Len(list)
  BY <1>2, AfterFirstWaits
<1>4. Cardinality(FirstOf(list, k)) = k
  BY <1>2, FirstOfSize
<1>5. k < Len(list) => list # <<>>
  BY <1>1, <1>2, ListType
<1> QED
  BY <1>2, <1>3, <1>4, <1>5 DEF k

LEMMA Wakes ==
  ASSUME IInv, NEW W \in SUBSET Tasks, Ready(W), W \subseteq Sending \cup Receiving
  PROVE  /\ Roused(W)
         /\ xReadyTasks' \subseteq Tasks /\ xPendingReadyList' \subseteq Tasks
         /\ xPendingReadyList' \cap ((Sending \cup Receiving) \ W) = {}
         /\ ((Sending \cup Receiving) \ W) \cup xPendingReadyList' = Tasks \ xReadyTasks'
PROOF
<1>1. /\ xReadyTasks \subseteq Tasks /\ xPendingReadyList \subseteq Tasks
      /\ xPendingReadyList \cap (Sending \cup Receiving) = {}
      /\ Sending \cup Receiving \cup xPendingReadyList = Tasks \ xReadyTasks
  BY DEF IInv, ListsType, ListsOK
<1>2. CASE suspendedBy = NoTask
  <2>1. xReadyTasks' = xReadyTasks \cup W /\ xPendingReadyList' = xPendingReadyList
    BY <1>2 DEF Ready
  <2> QED
    BY <1>1, <2>1 DEF Roused, Awake
<1>3. CASE suspendedBy # NoTask
  <2>1. xPendingReadyList' = xPendingReadyList \cup W /\ xReadyTasks' = xReadyTasks
    BY <1>3 DEF Ready
  <2> QED
    BY <1>1, <1>3, <2>1 DEF Roused, Awake
<1> QED
  BY <1>2, <1>3

LEMMA WakeReceiversEffect ==
  ASSUME IInv, NEW n \in Nat, WakeReceivers(n)
  PROVE  ListsType' /\ ListsOK' /\ \E W \in SUBSET Tasks : WokenReceivers(W, n)
PROOF
<1> DEFINE R == xTasksWaitingToReceive
           k == LeastOf(n, Len(R))
           W == FirstOf(R, k)
<1>1. R \in Seq(Tasks) /\ OnceEach(R)
  BY DEF IInv, ListsType, ListsOK
<1>2. R' = AfterFirst(R, k) /\ Ready(W) /\ UNCHANGED xTasksWaitingToSend
  BY DEF WakeReceivers
<1>3. /\ R' \in Seq(Tasks) /\ OnceEach(R') /\ Waiters(R') = Waiters(R) \ W
      /\ W \subseteq Waiters(R)
      /\ R' # <<>> => R # <<>> /\ Cardinality(W) = n
  BY <1>1, <1>2, FirstK
<1> HIDE DEF k, W
<1>4. W \subseteq Receiving /\ Receiving' = Receiving \ W /\ Sending' = Sending
  BY <1>2, <1>3 DEF Receiving, Sending
<1>5. Receiving \subseteq Tasks
  BY DEF IInv, ListsOK
<1>6. W \in SUBSET Tasks
  BY <1>4, <1>5
<1>7. /\ Roused(W)
      /\ xReadyTasks' \subseteq Tasks /\ xPendingReadyList' \subseteq Tasks
      /\ xPendingReadyList' \cap ((Sending \cup Receiving) \ W) = {}
      /\ ((Sending \cup Receiving) \ W) \cup xPendingReadyList' = Tasks \ xReadyTasks'
  BY <1>2, <1>4, <1>6, Wakes
<1>8. ListsType'
  BY <1>2, <1>3, <1>7 DEF IInv, ListsType
<1>9. ListsOK'
  <2>1. Sending \cap Receiving = {} /\ OnceEach(xTasksWaitingToSend)
    BY DEF IInv, ListsOK
  <2>2. (Sending \cup Receiving) \ W = Sending' \cup Receiving'
    BY <1>4, <2>1
  <2>3. OnceEach(xTasksWaitingToSend)'
    BY <1>2, <2>1
  <2>4. OnceEach(xTasksWaitingToReceive)'
    BY <1>3
  <2>5. (Sending \cap Receiving = {})'
    BY <1>4, <2>1
  <2> QED
    BY <1>7, <2>2, <2>3, <2>4, <2>5 DEF ListsOK
<1>10. WokenReceivers(W, n)
  BY <1>2, <1>3, <1>4, <1>7 DEF WokenReceivers
<1> QED
  BY <1>6, <1>8, <1>9, <1>10

LEMMA WakeSendersEffect ==
  ASSUME IInv, NEW n \in Nat, WakeSenders(n)
  PROVE  ListsType' /\ ListsOK' /\ \E W \in SUBSET Tasks : WokenSenders(W, n)
PROOF
<1> DEFINE L == xTasksWaitingToSend
           k == LeastOf(n, Len(L))
           W == FirstOf(L, k)
<1>1. L \in Seq(Tasks) /\ OnceEach(L)
  BY DEF IInv, ListsType, ListsOK
<1>2. L' = AfterFirst(L, k) /\ Ready(W) /\ UNCHANGED xTasksWaitingToReceive
  BY DEF WakeSenders
<1>3. /\ L' \in Seq(Tasks) /\ OnceEach(L') /\ Waiters(L') = Waiters(L) \ W
      /\ W \subseteq Waiters(L)
      /\ L' # <<>> => L # <<>> /\ Cardinality(W) = n
  BY <1>1, <1>2, FirstK
<1> HIDE DEF k, W
<1>4. W \subseteq Sending /\ Sending' = Sending \ W /\ Receiving' = Receiving
  BY <1>2, <1>3 DEF Sending, Receiving
<1>5. Sending \subseteq Tasks
  BY DEF IInv, ListsOK
<1>6. W \in SUBSET Tasks
  BY <1>4, <1>5
<1>7. /\ Roused(W)
      /\ xReadyTasks' \subseteq Tasks /\ xPendingReadyList' \subseteq Tasks
      /\ xPendingReadyList' \cap ((Sending \cup Receiving) \ W) = {}
      /\ ((Sending \cup Receiving) \ W) \cup xPendingReadyList' = Tasks \ xReadyTasks'
  BY <1>2, <1>4, <1>6, Wakes
<1>8. ListsType'
  BY <1>2, <1>3, <1>7 DEF IInv, ListsType
<1>9. ListsOK'
  <2>1. Sending \cap Receiving = {} /\ OnceEach(xTasksWaitingToReceive)
    BY DEF IInv, ListsOK
  <2>2. (Sending \cup Receiving) \ W = Sending' \cup Receiving'
    BY <1>4, <2>1
  <2>3. OnceEach(xTasksWaitingToReceive)'
    BY <1>2, <2>1
  <2>4. OnceEach(xTasksWaitingToSend)'
    BY <1>3
  <2>5. (Sending \cap Receiving = {})'
    BY <1>4, <2>1
  <2> QED
    BY <1>7, <2>2, <2>3, <2>4, <2>5 DEF ListsOK
<1>10. WokenSenders(W, n)
  BY <1>2, <1>3, <1>4, <1>7 DEF WokenSenders
<1> QED
  BY <1>6, <1>8, <1>9, <1>10

-----------------------------------------------------------------------------
(* The end of a task's look at the queue.                                  *)

\* Nobody becomes a forgotten sender unless a step makes room.
LEMMA ResetNoted ==
  ASSUME IInv, NoteReset, NEW n \in 0 .. uxLength, uxMessagesWaiting' = n
  PROVE  /\ xResetLeftSenders' \in BOOLEAN
         /\ xTasksWaitingToSend' # <<>> /\ ~xResetLeftSenders' =>
              n = uxLength \/ (~xResetLeftSenders /\ n + 1 >= uxMessagesWaiting)
PROOF
<1>1. uxLength \in Nat /\ uxMessagesWaiting \in Nat
  BY QueueAssumption DEF IInv, RingType
<1>2. xResetLeftSenders' = (/\ xTasksWaitingToSend' # <<>>
                           /\ n < uxLength
                           /\ \/ xResetLeftSenders
                              \/ n + 1 < uxMessagesWaiting)
  BY Zenon DEF NoteReset
<1>3. xResetLeftSenders' \in BOOLEAN
  BY <1>2
<1>4. ASSUME xTasksWaitingToSend' # <<>>, ~xResetLeftSenders', n < uxLength
      PROVE  ~xResetLeftSenders /\ ~(n + 1 < uxMessagesWaiting)
  BY <1>2, <1>4, Zenon
<1>5. n < uxLength \/ n = uxLength
  BY <1>1
<1>6. ~(n + 1 < uxMessagesWaiting) => n + 1 >= uxMessagesWaiting
  BY <1>1
<1> QED
  BY <1>3, <1>4, <1>5, <1>6, Zenon

\* The call of t leaves the loop, W is woken.
LEMMA CallEffect ==
  ASSUME IInv, NEW t \in Tasks, Runs(t),
         NEW q \in Places, q # "try", pc' = [pc EXCEPT ![t] = q],
         NEW d \in Sends \cup Receives \cup {NoCall}, d.position # "overwrite",
         call' = [call EXCEPT ![t] = d],
         expired' \subseteq expired, UNCHANGED regionVars,
         NEW W \in SUBSET (Sending \cup Receiving), Roused(W),
         Sending' = Sending \ W, Receiving' = Receiving \ W
  PROVE  /\ CallType' /\ WaitersOK' /\ RegionOK' /\ PlaceOK'
         /\ (ComingReceivers \ {t}) \cup (W \cap Receiving) \subseteq ComingReceivers'
         /\ (ComingSenders \ {t}) \cup (W \cap Sending) \subseteq ComingSenders'
PROOF
<1>1. /\ pc \in [Tasks -> Places] /\ call \in [Tasks -> Sends \cup Receives \cup {NoCall}]
      /\ Sending \subseteq Tasks /\ Receiving \subseteq Tasks /\ Awake \subseteq Tasks
  BY DEF IInv, CallType, ListsType, ListsOK, Awake
<1>2. suspendedBy = NoTask /\ step = "none" /\ t \in xReadyTasks /\ t \notin Sending \cup Receiving
  BY DEF IInv, RegionOK, Runs, ListsOK
<1>3. /\ pc' \in [Tasks -> Places]
      /\ call' \in [Tasks -> Sends \cup Receives \cup {NoCall}]
      /\ \A u \in Tasks \ {t} : pc'[u] = pc[u] /\ call'[u] = call[u]
      /\ pc'[t] = q /\ call'[t] = d
  BY <1>1
<1>4. CallType'
  BY <1>3 DEF IInv, CallType, regionVars
<1>5. \A u \in Tasks \ {t} : IsSend(u)' <=> IsSend(u)
  BY <1>3 DEF IsSend
<1>6. WaitersOK'
  <2>1. \A u \in Sending' : pc'[u] = "try" /\ IsSend(u)'
    BY <1>1, <1>2, <1>3, <1>5 DEF IInv, WaitersOK
  <2>2. \A u \in Receiving' : pc'[u] = "try" /\ ~IsSend(u)'
    BY <1>1, <1>2, <1>3, <1>5 DEF IInv, WaitersOK
  <2>3. \A u \in Tasks : call'[u].position # "overwrite"
    BY <1>3 DEF IInv, WaitersOK
  <2> QED
    BY <2>1, <2>2, <2>3 DEF WaitersOK
<1>7. RegionOK' /\ PlaceOK'
  BY <1>2 DEF IInv, RegionOK, PlaceOK, regionVars, Roused
<1>8. Awake' = Awake \cup W
  BY DEF Roused
<1>9. \A u \in W : u \in Tasks \ {t} /\ pc[u] = "try" /\ (u \in Receiving => ~IsSend(u))
                  /\ (u \in Sending => IsSend(u))
  BY <1>1, <1>2 DEF IInv, WaitersOK
<1>10. (ComingReceivers \ {t}) \cup (W \cap Receiving) \subseteq ComingReceivers'
  BY <1>1, <1>3, <1>5, <1>8, <1>9 DEF ComingReceivers
<1>11. (ComingSenders \ {t}) \cup (W \cap Sending) \subseteq ComingSenders'
  BY <1>1, <1>3, <1>5, <1>8, <1>9 DEF ComingSenders
<1> QED
  BY <1>4, <1>6, <1>7, <1>10, <1>11

-----------------------------------------------------------------------------
(* Counting.                                                               *)

\* W joins those that come, and t may leave them (lost = 1).
Joined(C, D, W, t, lost) ==
  /\ lost \in {0, 1}
  /\ IF lost = 0 THEN C \cup W \subseteq D ELSE (C \ {t}) \cup W \subseteq D

LEMMA JoinedSize ==
  ASSUME NEW C, NEW D, NEW W, NEW t, NEW lost, IsFiniteSet(C), IsFiniteSet(D),
         C \cap W = {}, Joined(C, D, W, t, lost)
  PROVE  /\ Cardinality(C) + Cardinality(W) <= Cardinality(D) + lost
         /\ Cardinality(C) \in Nat /\ Cardinality(W) \in Nat /\ Cardinality(D) \in Nat
PROOF
<1>1. CASE lost = 0
  <2>1. C \cup W \subseteq D
    BY <1>1 DEF Joined
  <2>2. /\ Cardinality(C) + Cardinality(W) <= Cardinality(D)
        /\ Cardinality(C) \in Nat /\ Cardinality(W) \in Nat /\ Cardinality(D) \in Nat
    BY <2>1, Grows
  <2> QED
    BY <1>1, <2>2
<1>2. CASE lost = 1
  <2>1. (C \ {t}) \cup W \subseteq D
    BY <1>2 DEF Joined
  <2>2. /\ Cardinality(C) + Cardinality(W) <= Cardinality(D) + 1
        /\ Cardinality(C) \in Nat /\ Cardinality(W) \in Nat /\ Cardinality(D) \in Nat
    BY <2>1, GrowsButOne
  <2> QED
    BY <1>2, <2>2
<1> QED
  BY <1>1, <1>2 DEF Joined

LEMMA ReceiversKept ==
  ASSUME IInv, ListsType', NEW t, NEW lost, NEW W \in SUBSET Receiving,
         Joined(ComingReceivers, ComingReceivers', W, t, lost),
         NEW n \in Nat, uxMessagesWaiting' = n, NEW o \in Nat, OwedReceivers' = o,
         xTasksWaitingToReceive' # <<>> /\ n # 0 =>
           /\ xTasksWaitingToReceive # <<>>
           /\ n + lost + OwedReceivers <= uxMessagesWaiting + Cardinality(W) + o
  PROVE  ReceiversOK'
PROOF
<1> DEFINE C == ComingReceivers
           D == ComingReceivers'
           m == uxMessagesWaiting
           owed == OwedReceivers
<1>1. IsFiniteSet(C) /\ C \cap W = {}
  BY ComingType DEF ComingReceivers
<1>2. IsFiniteSet(D)
  <2>1. D \subseteq Tasks
    BY DEF ListsType, ComingReceivers, Awake
  <2> QED
    BY <2>1, QueueAssumption, FS_Subset
<1>3. m \in Nat /\ owed \in Nat
  BY OwedType, QueueAssumption DEF IInv, RingType
<1>4. xTasksWaitingToReceive # <<>> => m <= Cardinality(C) + owed
  BY DEF IInv, ReceiversOK
<1>5. lost \in {0, 1}
  BY DEF Joined
<1> HIDE DEF C, D, m, owed
<1>6. /\ Cardinality(C) + Cardinality(W) <= Cardinality(D) + lost
      /\ Cardinality(C) \in Nat /\ Cardinality(W) \in Nat /\ Cardinality(D) \in Nat
  BY <1>1, <1>2, JoinedSize DEF C, D
<1>7. ASSUME xTasksWaitingToReceive' # <<>>
      PROVE  n <= Cardinality(D) + o
  <2>1. CASE n = 0
    BY <1>6, <2>1
  <2>2. CASE n # 0
    <3>1. n + lost + owed <= m + Cardinality(W) + o /\ m <= Cardinality(C) + owed
      BY <1>4, <1>7, <2>2 DEF m, owed
    <3> QED
      BY <1>3, <1>5, <1>6, <3>1
  <2> QED
    BY <2>1, <2>2
<1> QED
  BY <1>7, Zenon DEF D, ReceiversOK

LEMMA SendersKept ==
  ASSUME IInv, ListsType', NEW t, NEW lost, NEW W \in SUBSET Sending,
         Joined(ComingSenders, ComingSenders', W, t, lost), uxLength' = uxLength,
         NEW n \in 0 .. uxLength, uxMessagesWaiting' = n, NoteReset,
         NEW o \in Nat, OwedSenders' = o,
         xTasksWaitingToSend' # <<>> /\ n # uxLength =>
           /\ xTasksWaitingToSend # <<>>
           /\ n + 1 >= uxMessagesWaiting =>
                uxMessagesWaiting + lost + OwedSenders <= n + Cardinality(W) + o
  PROVE  SendersOK'
PROOF
<1> DEFINE C == ComingSenders
           D == ComingSenders'
           m == uxMessagesWaiting
           owed == OwedSenders
<1>1. IsFiniteSet(C) /\ C \cap W = {}
  BY ComingType DEF ComingSenders
<1>2. IsFiniteSet(D)
  <2>1. D \subseteq Tasks
    BY DEF ListsType, ComingSenders, Awake
  <2> QED
    BY <2>1, QueueAssumption, FS_Subset
<1>3. m \in Nat /\ owed \in Nat /\ uxLength \in Nat
  BY OwedType, QueueAssumption DEF IInv, RingType
<1>4. xTasksWaitingToSend # <<>> /\ ~xResetLeftSenders
        => uxLength - m <= Cardinality(C) + owed
  BY DEF IInv, SendersOK
<1>5. lost \in {0, 1}
  BY DEF Joined
<1>6. xTasksWaitingToSend' # <<>> /\ ~xResetLeftSenders'
        => n = uxLength \/ (~xResetLeftSenders /\ n + 1 >= m)
  BY ResetNoted
<1>7. xTasksWaitingToSend' # <<>> /\ n # uxLength => xTasksWaitingToSend # <<>>
  OBVIOUS
<1>8. xTasksWaitingToSend' # <<>> /\ n # uxLength /\ n + 1 >= m => m + lost + owed <= n + Cardinality(W) + o
  OBVIOUS
<1> HIDE DEF C, D, m, owed
<1>9. /\ Cardinality(C) + Cardinality(W) <= Cardinality(D) + lost
      /\ Cardinality(C) \in Nat /\ Cardinality(W) \in Nat /\ Cardinality(D) \in Nat
  BY <1>1, <1>2, JoinedSize DEF C, D
<1>10. ASSUME xTasksWaitingToSend' # <<>>, ~xResetLeftSenders'
       PROVE  uxLength - n <= Cardinality(D) + o
  <2>1. CASE n = uxLength
    BY <1>3, <1>9, <2>1
  <2>2. CASE n # uxLength /\ ~xResetLeftSenders /\ n + 1 >= m
    <3>1. m + lost + owed <= n + Cardinality(W) + o
      BY <1>8, <1>10, <2>2
    <3>2. uxLength - m <= Cardinality(C) + owed
      BY <1>4, <1>7, <1>10, <2>2
    <3> QED
      BY <1>3, <1>5, <1>9, <3>1, <3>2
  <2> QED
    BY <1>6, <1>10, <2>1, <2>2
<1> QED
  BY <1>10, Zenon DEF D, SendersOK

-----------------------------------------------------------------------------
(* The ring.                                                               *)

LEMMA PostEffect ==
  ASSUME IInv, NEW item \in Items \cup {NoItem}, NEW position,
         uxMessagesWaiting < uxLength \/ position = "overwrite",
         prvCopyDataToQueue(item, position), UNCHANGED kindVars,
         xResetLeftSenders' \in BOOLEAN
  PROVE  /\ RingType'
         /\ \E n \in 0 .. uxLength :
              /\ uxMessagesWaiting' = n
              /\ n = uxMessagesWaiting + 1 \/ (n = uxMessagesWaiting /\ position = "overwrite")
PROOF
<1>1. /\ uxLength \in Nat \ {0} /\ uxMessagesWaiting \in 0 .. uxLength
      /\ storage \in [0 .. uxLength - 1 -> Items \cup {NoItem}]
      /\ pcWriteTo \in 0 .. uxLength - 1 /\ pcReadFrom \in 0 .. uxLength - 1
  BY QueueAssumption DEF IInv, RingType
<1>2. Ahead(pcWriteTo, 1) \in 0 .. uxLength - 1 /\ Behind(pcReadFrom) \in 0 .. uxLength - 1
  BY <1>1 DEF Ahead, Behind
<1>3. PICK n \in 0 .. uxLength :
        /\ uxMessagesWaiting' = n
        /\ n = uxMessagesWaiting + 1 \/ (n = uxMessagesWaiting /\ position = "overwrite")
  <2>1. CASE position = "overwrite" /\ uxMessagesWaiting > 0
    BY <1>1, <2>1 DEF prvCopyDataToQueue
  <2>2. CASE ~(position = "overwrite" /\ uxMessagesWaiting > 0)
    <3>1. uxMessagesWaiting' = uxMessagesWaiting + 1
      BY <2>2, Zenon DEF prvCopyDataToQueue
    <3>2. uxMessagesWaiting + 1 \in 0 .. uxLength
      BY <1>1, <2>2
    <3> QED
      BY <3>1, <3>2
  <2> QED
    BY <2>1, <2>2
<1>4. /\ storage' \in [0 .. uxLength - 1 -> Items \cup {NoItem}]
      /\ pcWriteTo' \in 0 .. uxLength - 1 /\ pcReadFrom' \in 0 .. uxLength - 1
  BY <1>1, <1>2 DEF prvCopyDataToQueue
<1>5. uxLength' = uxLength /\ uxItemSize' = uxItemSize /\ delivered' = delivered
  BY DEF kindVars, prvCopyDataToQueue
<1>6. RingType'
  BY <1>3, <1>4, <1>5 DEF IInv, RingType
<1> QED
  BY <1>3, <1>6

LEMMA CopyEffect ==
  ASSUME IInv, NEW takes \in BOOLEAN, uxMessagesWaiting > 0, prvCopyDataFromQueue(takes),
         UNCHANGED kindVars, xResetLeftSenders' \in BOOLEAN
  PROVE  /\ RingType'
         /\ \E n \in 0 .. uxLength :
              /\ uxMessagesWaiting' = n
              /\ n = IF takes THEN uxMessagesWaiting - 1 ELSE uxMessagesWaiting
PROOF
<1>1. /\ uxLength \in Nat \ {0} /\ uxMessagesWaiting \in 0 .. uxLength
      /\ storage \in [0 .. uxLength - 1 -> Items \cup {NoItem}]
      /\ pcWriteTo \in 0 .. uxLength - 1 /\ pcReadFrom \in 0 .. uxLength - 1
  BY QueueAssumption DEF IInv, RingType
<1>2. Ahead(pcReadFrom, 1) \in 0 .. uxLength - 1
  BY <1>1 DEF Ahead
<1>3. PICK n \in 0 .. uxLength :
        /\ uxMessagesWaiting' = n
        /\ n = IF takes THEN uxMessagesWaiting - 1 ELSE uxMessagesWaiting
  BY <1>1 DEF prvCopyDataFromQueue
<1>4. delivered' \in Items \cup {NoItem} /\ pcReadFrom' \in 0 .. uxLength - 1
  BY <1>1, <1>2 DEF prvCopyDataFromQueue
<1>5. uxLength' = uxLength /\ uxItemSize' = uxItemSize /\ UNCHANGED <<storage, pcWriteTo>>
  BY DEF kindVars, prvCopyDataFromQueue
<1>6. RingType'
  BY <1>3, <1>4, <1>5 DEF IInv, RingType
<1> QED
  BY <1>3, <1>6

-----------------------------------------------------------------------------
(* The looks at the queue of a running task.                               *)

\* What a call that looks at the queue leaves alone.
LookFrame == UNCHANGED <<kindVars, lockVars, regionVars>> /\ NoteReset

Look(t, c) ==
  /\ InLoop(t) /\ c \in CallsOf(t) /\ LookFrame

\* A running task finds the scheduler running and the queue unlocked.
LEMMA RunsFacts ==
  ASSUME IInv, NEW t \in Tasks, Runs(t)
  PROVE  /\ suspendedBy = NoTask /\ step = "none" /\ xPendingReadyList = {}
         /\ t \in xReadyTasks /\ t \notin Sending \cup Receiving
         /\ OwedReceivers = 0 /\ OwedSenders = 0
         /\ cTxLock = -1 /\ cRxLock = -1
  BY DEF IInv, RegionOK, Runs, ListsOK, LocksOK, LockedInRegion, OwedReceivers,
         OwedSenders, queueUNLOCKED

\* The region and the locks stay as they are.
LEMMA FrameEffect ==
  ASSUME IInv, NEW t \in Tasks, Runs(t), UNCHANGED <<lockVars, regionVars>>
  PROVE  LocksOK' /\ OwedReceivers' = 0 /\ OwedSenders' = 0
  BY RunsFacts DEF IInv, LocksOK, LockedInRegion, OwedReceivers, OwedSenders,
     lockVars, regionVars

\* A call in the loop is typed; who comes in again makes the call it has begun.
LEMMA LookFacts ==
  ASSUME IInv, NEW t \in Tasks, NEW c, Look(t, c),
         c.api \in Receivers \cup {"xQueueGenericSend"}
  PROVE  /\ Runs(t)
         /\ c \in Sends \/ c \in Receives
         /\ c.api = "xQueueGenericSend" => c \in Sends /\ t \notin ComingReceivers
         /\ c.api # "xQueueGenericSend" => c \in Receives /\ t \notin ComingSenders
         /\ c.position = "overwrite" => t \notin ComingSenders
PROOF
<1>1. Runs(t)
  BY DEF Look, InLoop
<1>2. c \in Sends \cup Receives
  <2>1. CASE pc[t] = "idle"
    BY <2>1, QueueAssumption DEF Look, CallsOf
  <2>2. CASE pc[t] # "idle"
    <3>1. c = call[t] /\ call[t] \in Sends \cup Receives \cup {NoCall}
      BY <2>2 DEF Look, CallsOf, IInv, CallType
    <3>2. c # NoCall
      BY DEF NoCall, Receivers
    <3> QED
      BY <3>1, <3>2
  <2> QED
    BY <2>1, <2>2
<1>3. /\ c.api = "xQueueGenericSend" => c \in Sends
      /\ c.api # "xQueueGenericSend" => c \in Receives
  BY <1>2 DEF Sends, Receives, Receivers
<1>4. pc[t] = "try" => c = call[t]
  BY DEF Look, CallsOf
<1>5. t \in ComingReceivers \cup ComingSenders => c = call[t]
  BY <1>4 DEF ComingReceivers, ComingSenders
<1>6. call[t].position # "overwrite"
  BY DEF IInv, WaitersOK
<1> QED
  BY <1>1, <1>2, <1>3, <1>5, <1>6 DEF ComingReceivers, ComingSenders, IsSend

\* How a call leaves the loop: for good, or to wait.
Leaves(t, c) ==
  \/ Return(t)
  \/ /\ c.position # "overwrite"
     /\ pc' = [pc EXCEPT ![t] = "suspend"] /\ call' = [call EXCEPT ![t] = c]
     /\ UNCHANGED expired

LEMMA LeavesEffect ==
  ASSUME IInv, NEW t \in Tasks, NEW c, Look(t, c), Leaves(t, c),
         c.api \in Receivers \cup {"xQueueGenericSend"},
         NEW W \in SUBSET (Sending \cup Receiving), Roused(W),
         Sending' = Sending \ W, Receiving' = Receiving \ W
  PROVE  /\ CallType' /\ WaitersOK' /\ RegionOK' /\ PlaceOK'
         /\ (ComingReceivers \ {t}) \cup (W \cap Receiving) \subseteq ComingReceivers'
         /\ (ComingSenders \ {t}) \cup (W \cap Sending) \subseteq ComingSenders'
PROOF
<1>1. Runs(t) /\ c \in Sends \cup Receives \cup {NoCall}
  BY LookFacts
<1>2. UNCHANGED regionVars
  BY DEF Look, LookFrame
<1>3. PICK q \in {"idle", "suspend"}, d \in {NoCall, c} :
        /\ pc' = [pc EXCEPT ![t] = q] /\ call' = [call EXCEPT ![t] = d]
        /\ d.position # "overwrite" /\ expired' \subseteq expired
  BY DEF Leaves, Return, NoCall
<1>4. q \in Places /\ q # "try" /\ d \in Sends \cup Receives \cup {NoCall}
  BY <1>1 DEF Places
<1> QED
  BY <1>1, <1>2, <1>3, <1>4, CallEffect

\* What a look at the queue does to the two promises.
LEMMA LookKeeps ==
  ASSUME IInv, NEW t \in Tasks, NEW c, Look(t, c), Leaves(t, c),
         c.api \in Receivers \cup {"xQueueGenericSend"},
         NEW W \in SUBSET (Sending \cup Receiving), Roused(W),
         Sending' = Sending \ W, Receiving' = Receiving \ W,
         ListsType', ListsOK', RingType',
         NEW n \in 0 .. uxLength, uxMessagesWaiting' = n,
         xTasksWaitingToReceive' # <<>> /\ n # 0 =>
           /\ xTasksWaitingToReceive # <<>>
           /\ n + (IF c.api = "xQueueGenericSend" THEN 0 ELSE 1)
                <= uxMessagesWaiting + Cardinality(W \cap Receiving),
         xTasksWaitingToSend' # <<>> /\ n # uxLength =>
           /\ xTasksWaitingToSend # <<>>
           /\ n + 1 >= uxMessagesWaiting =>
                uxMessagesWaiting + (IF c.api = "xQueueGenericSend" /\ c.position # "overwrite"
                                     THEN 1 ELSE 0)
                  <= n + Cardinality(W \cap Sending)
  PROVE  IInv'
PROOF
<1> DEFINE r == IF c.api = "xQueueGenericSend" THEN 0 ELSE 1
           s == IF c.api = "xQueueGenericSend" /\ c.position # "overwrite" THEN 1 ELSE 0
<1>1. Runs(t)
  BY LookFacts
<1>2. LocksOK' /\ OwedReceivers' = 0 /\ OwedSenders' = 0
  BY <1>1, FrameEffect DEF Look, LookFrame
<1>3. OwedReceivers = 0 /\ OwedSenders = 0
  BY <1>1, RunsFacts
<1>4. /\ CallType' /\ WaitersOK' /\ RegionOK' /\ PlaceOK'
      /\ (ComingReceivers \ {t}) \cup (W \cap Receiving) \subseteq ComingReceivers'
      /\ (ComingSenders \ {t}) \cup (W \cap Sending) \subseteq ComingSenders'
  BY LeavesEffect
<1>5. (r = 0 => t \notin ComingReceivers) /\ (s = 0 => t \notin ComingSenders)
  BY LookFacts
<1>6. r \in {0, 1} /\ s \in {0, 1}
  OBVIOUS
<1>7. Joined(ComingReceivers, ComingReceivers', W \cap Receiving, t, r)
  BY <1>4, <1>5, <1>6 DEF Joined
<1>8. Joined(ComingSenders, ComingSenders', W \cap Sending, t, s)
  BY <1>4, <1>5, <1>6 DEF Joined
<1>9. n \in Nat /\ uxMessagesWaiting \in Nat
  BY QueueAssumption DEF IInv, RingType
<1>10. uxLength' = uxLength /\ NoteReset
  BY DEF Look, LookFrame, kindVars
<1>11. IsFiniteSet(Sending \cup Receiving)
  BY QueueAssumption, FS_Subset DEF IInv, ListsOK
<1>12. Cardinality(W \cap Receiving) \in Nat /\ Cardinality(W \cap Sending) \in Nat
  BY <1>11, FS_Subset, FS_CardinalityType
<1> DEFINE w == Cardinality(W \cap Receiving)
           v == Cardinality(W \cap Sending)
<1>13. xTasksWaitingToReceive' # <<>> /\ n # 0 =>
         xTasksWaitingToReceive # <<>> /\ n + r <= uxMessagesWaiting + w
  OBVIOUS
<1>14. xTasksWaitingToSend' # <<>> /\ n # uxLength =>
         xTasksWaitingToSend # <<>> /\ (n + 1 >= uxMessagesWaiting => uxMessagesWaiting + s <= n + v)
  OBVIOUS
<1> HIDE DEF r, s, w, v
<1>15. xTasksWaitingToReceive' # <<>> /\ n # 0 =>
         xTasksWaitingToReceive # <<>> /\ n + r + OwedReceivers <= uxMessagesWaiting + w + 0
  BY <1>3, <1>6, <1>9, <1>12, <1>13 DEF w
<1>16. xTasksWaitingToSend' # <<>> /\ n # uxLength =>
         /\ xTasksWaitingToSend # <<>>
         /\ n + 1 >= uxMessagesWaiting => uxMessagesWaiting + s + OwedSenders <= n + v + 0
  BY <1>3, <1>6, <1>9, <1>12, <1>14 DEF v
<1>17. ReceiversOK'
  BY <1>2, <1>7, <1>9, <1>15, ReceiversKept DEF w
<1>18. SendersOK'
  BY <1>2, <1>8, <1>10, <1>16, SendersKept DEF v
<1> QED
  BY <1>2, <1>4, <1>17, <1>18 DEF IInv

\* What may come of a look at the queue.
SentBy(t, c) ==
  /\ Look(t, c) /\ c.api = "xQueueGenericSend"
  /\ uxMessagesWaiting < uxLength \/ c.position = "overwrite"
  /\ prvCopyDataToQueue(c.item, c.position) /\ WakeReceivers(1) /\ Return(t)

TakenBy(t, c) ==
  /\ Look(t, c) /\ c.api \in Receivers /\ uxMessagesWaiting > 0
  /\ prvCopyDataFromQueue(TRUE) /\ WakeSenders(1) /\ Return(t)

PeekedBy(t, c) ==
  /\ Look(t, c) /\ c.api \in Receivers /\ uxMessagesWaiting > 0
  /\ prvCopyDataFromQueue(FALSE) /\ WakeReceivers(1) /\ Return(t)

GivenUpBy(t, c) ==
  /\ Look(t, c) /\ c.api \in Receivers \cup {"xQueueGenericSend"}
  /\ IF c.api = "xQueueGenericSend"
     THEN ~(uxMessagesWaiting < uxLength \/ c.position = "overwrite")
     ELSE ~(uxMessagesWaiting > 0)
  /\ GiveUpOrWait(t, c)

LEMMA LooksAre ==
  ASSUME NEW t,
         \/ xQueueGenericSend(t) \/ xQueueReceive(t) \/ xQueueSemaphoreTake(t)
         \/ xQueuePeek(t)
  PROVE  \E c \in CallsOf(t) :
           SentBy(t, c) \/ TakenBy(t, c) \/ PeekedBy(t, c) \/ GivenUpBy(t, c)
PROOF
<1>1. CASE xQueueGenericSend(t)
  BY <1>1, Zenon DEF xQueueGenericSend, SentBy, GivenUpBy, Look, LookFrame
<1>2. CASE xQueueReceive(t)
  <2>1. "xQueueReceive" \in Receivers /\ "xQueueReceive" # "xQueueGenericSend"
    BY DEF Receivers
  <2> QED
    BY <1>2, <2>1, Zenon DEF xQueueReceive, TakenBy, GivenUpBy, Look, LookFrame
<1>3. CASE xQueueSemaphoreTake(t)
  <2>1. "xQueueSemaphoreTake" \in Receivers /\ "xQueueSemaphoreTake" # "xQueueGenericSend"
    BY DEF Receivers
  <2> QED
    BY <1>3, <2>1, Zenon DEF xQueueSemaphoreTake, TakenBy, GivenUpBy, Look, LookFrame
<1>4. CASE xQueuePeek(t)
  <2>1. "xQueuePeek" \in Receivers /\ "xQueuePeek" # "xQueueGenericSend"
    BY DEF Receivers
  <2> QED
    BY <1>4, <2>1, Zenon DEF xQueuePeek, PeekedBy, GivenUpBy, Look, LookFrame
<1> QED
  BY <1>1, <1>2, <1>3, <1>4

\* NoteReset keeps its flag a Boolean.
LEMMA NoteType ==
  ASSUME NoteReset
  PROVE  xResetLeftSenders' \in BOOLEAN
  BY DEF NoteReset

LEMMA SentKeeps ==
  ASSUME IInv, NEW t \in Tasks, NEW c, SentBy(t, c)
  PROVE  IInv'
PROOF
<1>1. Look(t, c) /\ c.api = "xQueueGenericSend" /\ Leaves(t, c)
  BY DEF SentBy, Leaves
<1>2. c \in Sends /\ NoteReset /\ UNCHANGED kindVars
  BY <1>1, LookFacts DEF Look, LookFrame
<1>3. c.item \in Items \cup {NoItem}
  BY <1>2 DEF Sends
<1>4. RingType' /\ \E n \in 0 .. uxLength :
        /\ uxMessagesWaiting' = n
        /\ n = uxMessagesWaiting + 1 \/ (n = uxMessagesWaiting /\ c.position = "overwrite")
  BY <1>2, <1>3, NoteType, PostEffect DEF SentBy
<1>5. PICK n \in 0 .. uxLength :
        /\ uxMessagesWaiting' = n
        /\ n = uxMessagesWaiting + 1 \/ (n = uxMessagesWaiting /\ c.position = "overwrite")
  BY <1>4
<1>6. ListsType' /\ ListsOK' /\ \E W \in SUBSET Tasks : WokenReceivers(W, 1)
  BY WakeReceiversEffect DEF SentBy
<1>7. PICK W \in SUBSET Tasks : WokenReceivers(W, 1)
  BY <1>6
<1>8. /\ W \subseteq Receiving /\ W \cap Receiving = W /\ W \cap Sending = {}
      /\ Sending' = Sending \ W /\ Receiving' = Receiving \ W /\ Roused(W)
      /\ UNCHANGED xTasksWaitingToSend
      /\ xTasksWaitingToReceive' # <<>> => xTasksWaitingToReceive # <<>> /\ Cardinality(W) = 1
  BY <1>7 DEF WokenReceivers, IInv, ListsOK, Sending
<1>9. n \in Nat /\ uxMessagesWaiting \in Nat
  BY <1>5, QueueAssumption DEF IInv, RingType
<1>10. Cardinality(W \cap Sending) = 0
  BY <1>8, FS_EmptySet
<1>11. xTasksWaitingToReceive' # <<>> =>
         xTasksWaitingToReceive # <<>> /\ n + 0 <= uxMessagesWaiting + Cardinality(W \cap Receiving)
  <2>1. xTasksWaitingToReceive' # <<>> =>
          xTasksWaitingToReceive # <<>> /\ Cardinality(W \cap Receiving) = 1
    BY <1>8, Zenon
  <2> QED
    BY <1>5, <1>9, <2>1
<1>12. uxMessagesWaiting + (IF c.position # "overwrite" THEN 1 ELSE 0)
         <= n + Cardinality(W \cap Sending)
  BY <1>5, <1>9, <1>10
<1> QED
  BY <1>1, <1>4, <1>5, <1>6, <1>8, <1>11, <1>12, LookKeeps

LEMMA TakenKeeps ==
  ASSUME IInv, NEW t \in Tasks, NEW c, TakenBy(t, c)
  PROVE  IInv'
PROOF
<1>1. Look(t, c) /\ c.api \in Receivers /\ Leaves(t, c) /\ c.api # "xQueueGenericSend"
  BY DEF TakenBy, Leaves, Receivers
<1>2. NoteReset /\ UNCHANGED kindVars
  BY <1>1 DEF Look, LookFrame
<1>3. RingType' /\ \E n \in 0 .. uxLength :
        uxMessagesWaiting' = n /\ n = uxMessagesWaiting - 1
  BY <1>2, NoteType, CopyEffect DEF TakenBy
<1>4. PICK n \in 0 .. uxLength : uxMessagesWaiting' = n /\ n = uxMessagesWaiting - 1
  BY <1>3
<1>5. ListsType' /\ ListsOK' /\ \E W \in SUBSET Tasks : WokenSenders(W, 1)
  BY WakeSendersEffect DEF TakenBy
<1>6. PICK W \in SUBSET Tasks : WokenSenders(W, 1)
  BY <1>5
<1>7. /\ W \subseteq Sending /\ W \cap Sending = W /\ W \cap Receiving = {}
      /\ Sending' = Sending \ W /\ Receiving' = Receiving \ W /\ Roused(W)
      /\ UNCHANGED xTasksWaitingToReceive
      /\ xTasksWaitingToSend' # <<>> => xTasksWaitingToSend # <<>> /\ Cardinality(W) = 1
  BY <1>6 DEF WokenSenders, IInv, ListsOK, Receiving
<1>8. n \in Nat /\ uxMessagesWaiting \in Nat
  BY <1>4, QueueAssumption DEF IInv, RingType
<1>9. Cardinality(W \cap Receiving) = 0
  BY <1>7, FS_EmptySet
<1>10. n + 1 <= uxMessagesWaiting + Cardinality(W \cap Receiving)
  BY <1>4, <1>8, <1>9
<1>11. xTasksWaitingToSend' # <<>> =>
         xTasksWaitingToSend # <<>> /\ uxMessagesWaiting + 0 <= n + Cardinality(W \cap Sending)
  <2>1. xTasksWaitingToSend' # <<>> =>
          xTasksWaitingToSend # <<>> /\ Cardinality(W \cap Sending) = 1
    BY <1>7, Zenon
  <2> QED
    BY <1>4, <1>8, <2>1
<1> QED
  BY <1>1, <1>3, <1>4, <1>5, <1>7, <1>10, <1>11, LookKeeps

LEMMA PeekedKeeps ==
  ASSUME IInv, NEW t \in Tasks, NEW c, PeekedBy(t, c)
  PROVE  IInv'
PROOF
<1>1. Look(t, c) /\ c.api \in Receivers /\ Leaves(t, c) /\ c.api # "xQueueGenericSend"
  BY DEF PeekedBy, Leaves, Receivers
<1>2. NoteReset /\ UNCHANGED kindVars
  BY <1>1 DEF Look, LookFrame
<1>3. RingType' /\ \E n \in 0 .. uxLength :
        uxMessagesWaiting' = n /\ n = uxMessagesWaiting
  BY <1>2, NoteType, CopyEffect DEF PeekedBy
<1>4. PICK n \in 0 .. uxLength : uxMessagesWaiting' = n /\ n = uxMessagesWaiting
  BY <1>3
<1>5. ListsType' /\ ListsOK' /\ \E W \in SUBSET Tasks : WokenReceivers(W, 1)
  BY WakeReceiversEffect DEF PeekedBy
<1>6. PICK W \in SUBSET Tasks : WokenReceivers(W, 1)
  BY <1>5
<1>7. /\ W \subseteq Receiving /\ W \cap Receiving = W /\ W \cap Sending = {}
      /\ Sending' = Sending \ W /\ Receiving' = Receiving \ W /\ Roused(W)
      /\ UNCHANGED xTasksWaitingToSend
      /\ xTasksWaitingToReceive' # <<>> => xTasksWaitingToReceive # <<>> /\ Cardinality(W) = 1
  BY <1>6 DEF WokenReceivers, IInv, ListsOK, Sending
<1>8. n \in Nat /\ uxMessagesWaiting \in Nat
  BY <1>4, QueueAssumption DEF IInv, RingType
<1>9. Cardinality(W \cap Sending) = 0
  BY <1>7, FS_EmptySet
<1>10. xTasksWaitingToReceive' # <<>> =>
         xTasksWaitingToReceive # <<>> /\ n + 1 <= uxMessagesWaiting + Cardinality(W \cap Receiving)
  <2>1. xTasksWaitingToReceive' # <<>> =>
          xTasksWaitingToReceive # <<>> /\ Cardinality(W \cap Receiving) = 1
    BY <1>7, Zenon
  <2> QED
    BY <1>4, <1>8, <2>1
<1>11. uxMessagesWaiting + 0 <= n + Cardinality(W \cap Sending)
  BY <1>4, <1>8, <1>9
<1> QED
  BY <1>1, <1>3, <1>4, <1>5, <1>7, <1>10, <1>11, LookKeeps

LEMMA GivenUpKeeps ==
  ASSUME IInv, NEW t \in Tasks, NEW c, GivenUpBy(t, c)
  PROVE  IInv'
PROOF
<1> DEFINE n == uxMessagesWaiting
<1>1. Look(t, c) /\ c.api \in Receivers \cup {"xQueueGenericSend"}
  BY DEF GivenUpBy
<1>2. NoteReset /\ UNCHANGED kindVars /\ UNCHANGED <<ringVars, listVars>>
  BY <1>1 DEF Look, LookFrame, GivenUpBy, GiveUpOrWait
<1>3. n \in 0 .. uxLength /\ n \in Nat /\ uxMessagesWaiting' = n /\ uxLength \in Nat
  BY <1>2, QueueAssumption DEF IInv, RingType, ringVars
<1>4. RingType'
  BY <1>2, NoteType DEF IInv, RingType, ringVars, kindVars
<1>5. ListsType' /\ ListsOK'
  BY <1>2 DEF IInv, ListsType, ListsOK, listVars, Sending, Receiving
<1>6. /\ Sending' = Sending \ {} /\ Receiving' = Receiving \ {} /\ Roused({})
      /\ {} \in SUBSET (Sending \cup Receiving)
      /\ UNCHANGED <<xTasksWaitingToReceive, xTasksWaitingToSend>>
  BY <1>2 DEF listVars, Sending, Receiving, Roused, Awake
<1>7. Cardinality({} \cap Receiving) = 0 /\ Cardinality({} \cap Sending) = 0
  BY FS_EmptySet
<1>8. Leaves(t, c)
  <2>1. c.api # "xQueueGenericSend" => c \in Receives
    BY <1>1, LookFacts
  <2>2. c.position # "overwrite"
    BY <2>1 DEF GivenUpBy, Receives
  <2> QED
    BY <2>2, Zenon DEF Leaves, GivenUpBy, GiveUpOrWait
<1>9. CASE c.api = "xQueueGenericSend"
  <2>1. n = uxLength
    BY <1>3, <1>9 DEF GivenUpBy
  <2>2. n + 0 <= uxMessagesWaiting + Cardinality({} \cap Receiving)
    BY <1>3, <1>7
  <2> QED
    BY <1>1, <1>3, <1>4, <1>5, <1>6, <1>8, <1>9, <2>1, <2>2, LookKeeps
<1>10. CASE c.api # "xQueueGenericSend"
  <2>1. n = 0
    BY <1>3, <1>10 DEF GivenUpBy
  <2>2. uxMessagesWaiting + 0 <= n + Cardinality({} \cap Sending)
    BY <1>3, <1>7
  <2> QED
    BY <1>1, <1>3, <1>4, <1>5, <1>6, <1>8, <1>10, <2>1, <2>2, LookKeeps
<1> QED
  BY <1>9, <1>10

-----------------------------------------------------------------------------
(* Steps that take nobody out of its loop.                                 *)

\* Who stands in the loop stays there with its call; no overwrite is kept.
StayInLoop ==
  /\ \A u \in Tasks : pc[u] = "try" => pc'[u] = "try" /\ call'[u] = call[u]
  /\ \A u \in Tasks : call'[u].position # "overwrite"

LEMMA ComingKept ==
  ASSUME IInv, StayInLoop, NEW W \in SUBSET (Sending \cup Receiving), Awake \cup W \subseteq Awake',
         Sending' \subseteq Sending, Receiving' \subseteq Receiving
  PROVE  /\ WaitersOK'
         /\ ComingReceivers \cup (W \cap Receiving) \subseteq ComingReceivers'
         /\ ComingSenders \cup (W \cap Sending) \subseteq ComingSenders'
PROOF
<1>1. Sending \subseteq Tasks /\ Receiving \subseteq Tasks /\ Awake \subseteq Tasks
  BY DEF IInv, ListsType, ListsOK, Awake
<1>2. \A u \in Tasks : pc[u] = "try" => pc'[u] = "try" /\ (IsSend(u)' <=> IsSend(u))
  BY DEF StayInLoop, IsSend
<1>3. WaitersOK'
  <2>1. \A u \in Sending' : pc'[u] = "try" /\ IsSend(u)'
    BY <1>1, <1>2 DEF IInv, WaitersOK
  <2>2. \A u \in Receiving' : pc'[u] = "try" /\ ~IsSend(u)'
    BY <1>1, <1>2 DEF IInv, WaitersOK
  <2> QED
    BY <2>1, <2>2 DEF WaitersOK, StayInLoop
<1>4. \A u \in W : /\ u \in Tasks /\ pc[u] = "try"
                   /\ u \in Receiving => ~IsSend(u)
                   /\ u \in Sending => IsSend(u)
  BY <1>1 DEF IInv, WaitersOK
<1>5. ComingReceivers \cup (W \cap Receiving) \subseteq ComingReceivers'
  <2>1. ASSUME NEW u \in ComingReceivers \cup (W \cap Receiving)
        PROVE  u \in Tasks /\ u \in Awake' /\ pc[u] = "try" /\ ~IsSend(u)
    BY <1>1, <1>4, <2>1 DEF ComingReceivers
  <2>2. ASSUME NEW u \in ComingReceivers \cup (W \cap Receiving)
        PROVE  u \in ComingReceivers'
    BY <1>2, <2>1, <2>2 DEF ComingReceivers
  <2> QED
    BY <2>2
<1>6. ComingSenders \cup (W \cap Sending) \subseteq ComingSenders'
  <2>1. ASSUME NEW u \in ComingSenders \cup (W \cap Sending)
        PROVE  u \in Tasks /\ u \in Awake' /\ pc[u] = "try" /\ IsSend(u)
    BY <1>1, <1>4, <2>1 DEF ComingSenders
  <2>2. ASSUME NEW u \in ComingSenders \cup (W \cap Sending)
        PROVE  u \in ComingSenders'
    BY <1>2, <2>1, <2>2 DEF ComingSenders
  <2> QED
    BY <2>2
<1> QED
  BY <1>3, <1>5, <1>6

LEMMA StepKeeps ==
  ASSUME IInv, StayInLoop, NEW W \in SUBSET (Sending \cup Receiving), Awake \cup W \subseteq Awake',
         Sending' \subseteq Sending, Receiving' \subseteq Receiving,
         ListsType', NoteReset, uxLength' = uxLength,
         NEW n \in 0 .. uxLength, uxMessagesWaiting' = n,
         NEW o \in Nat, OwedReceivers' = o, NEW p \in Nat, OwedSenders' = p,
         xTasksWaitingToReceive' # <<>> /\ n # 0 =>
           /\ xTasksWaitingToReceive # <<>>
           /\ n + OwedReceivers <= uxMessagesWaiting + Cardinality(W \cap Receiving) + o,
         xTasksWaitingToSend' # <<>> /\ n # uxLength =>
           /\ xTasksWaitingToSend # <<>>
           /\ n + 1 >= uxMessagesWaiting =>
                uxMessagesWaiting + OwedSenders <= n + Cardinality(W \cap Sending) + p
  PROVE  WaitersOK' /\ ReceiversOK' /\ SendersOK'
PROOF
<1>1. /\ WaitersOK'
      /\ Joined(ComingReceivers, ComingReceivers', W \cap Receiving, NoTask, 0)
      /\ Joined(ComingSenders, ComingSenders', W \cap Sending, NoTask, 0)
  BY ComingKept DEF Joined
<1>2. n \in Nat /\ uxMessagesWaiting \in Nat /\ OwedReceivers \in Nat /\ OwedSenders \in Nat
  BY OwedType, QueueAssumption DEF IInv, RingType
<1>3. xTasksWaitingToReceive' # <<>> /\ n # 0 =>
        /\ xTasksWaitingToReceive # <<>>
        /\ n + 0 + OwedReceivers <= uxMessagesWaiting + Cardinality(W \cap Receiving) + o
  BY <1>2
<1>4. xTasksWaitingToSend' # <<>> /\ n # uxLength =>
        /\ xTasksWaitingToSend # <<>>
        /\ n + 1 >= uxMessagesWaiting =>
             uxMessagesWaiting + 0 + OwedSenders <= n + Cardinality(W \cap Sending) + p
  BY <1>2
<1>5. ReceiversOK'
  BY <1>1, <1>2, <1>3, ReceiversKept
<1>6. SendersOK'
  BY <1>1, <1>4, SendersKept
<1> QED
  BY <1>1, <1>5, <1>6

\* A step that posts and takes nothing, and settles no debt.
LEMMA QuietKeeps ==
  ASSUME IInv, StayInLoop, Awake \subseteq Awake',
         Sending' \subseteq Sending, Receiving' \subseteq Receiving,
         ListsType', NoteReset, UNCHANGED <<kindVars, ringVars>>,
         NEW o \in Nat, OwedReceivers' = o, OwedReceivers <= o,
         NEW p \in Nat, OwedSenders' = p, OwedSenders <= p
  PROVE  RingType' /\ WaitersOK' /\ ReceiversOK' /\ SendersOK'
PROOF
<1> DEFINE n == uxMessagesWaiting
<1>1. uxLength' = uxLength /\ n \in 0 .. uxLength /\ n \in Nat /\ uxMessagesWaiting' = n
  BY QueueAssumption DEF IInv, RingType, kindVars, ringVars
<1>2. RingType'
  BY NoteType DEF IInv, RingType, kindVars, ringVars
<1>3. Cardinality({} \cap Receiving) = 0 /\ Cardinality({} \cap Sending) = 0
  BY FS_EmptySet
<1>4. OwedReceivers \in Nat /\ OwedSenders \in Nat
  BY OwedType
<1>5. n + OwedReceivers <= uxMessagesWaiting + Cardinality({} \cap Receiving) + o
  <2>1. n + OwedReceivers <= n + 0 + o
    BY <1>1, <1>4
  <2> QED
    BY <1>3, <2>1, Zenon
<1>6. uxMessagesWaiting + OwedSenders <= n + Cardinality({} \cap Sending) + p
  <2>1. n + OwedSenders <= n + 0 + p
    BY <1>1, <1>4
  <2> QED
    BY <1>3, <2>1, Zenon
<1>7. /\ xTasksWaitingToSend' # <<>> => xTasksWaitingToSend # <<>>
      /\ xTasksWaitingToReceive' # <<>> => xTasksWaitingToReceive # <<>>
  <2>1. /\ xTasksWaitingToSend \in Seq(Tasks) /\ xTasksWaitingToReceive \in Seq(Tasks)
        /\ xTasksWaitingToSend' \in Seq(Tasks) /\ xTasksWaitingToReceive' \in Seq(Tasks)
    BY DEF IInv, ListsType
  <2>2. /\ xTasksWaitingToSend = <<>> <=> Sending = {}
        /\ xTasksWaitingToReceive = <<>> <=> Receiving = {}
        /\ xTasksWaitingToSend' = <<>> <=> Sending' = {}
        /\ xTasksWaitingToReceive' = <<>> <=> Receiving' = {}
    BY <2>1, ListType DEF Sending, Receiving
  <2> QED
    BY <2>2
<1>8. {} \in SUBSET (Sending \cup Receiving) /\ Awake \cup {} \subseteq Awake'
  OBVIOUS
<1> HIDE DEF n
<1> QED
  BY <1>1, <1>2, <1>5, <1>6, <1>7, <1>8, StepKeeps

\* Steps that leave the places and calls of the tasks alone.
LEMMA UnmovedStays ==
  ASSUME IInv, UNCHANGED callVars
  PROVE  StayInLoop /\ pc' = pc /\ call' = call /\ expired' = expired
         /\ \A u : IsSend(u)' <=> IsSend(u)
  BY DEF IInv, WaitersOK, StayInLoop, callVars, IsSend

\* Steps that leave the lists alone.
LEMMA UnmovedLists ==
  ASSUME IInv, UNCHANGED listVars
  PROVE  /\ ListsType' /\ ListsOK' /\ Awake' = Awake /\ xReadyTasks' = xReadyTasks
         /\ Sending' = Sending /\ Receiving' = Receiving
         /\ xPendingReadyList' = xPendingReadyList
  BY DEF IInv, ListsType, ListsOK, listVars, Sending, Receiving, Awake

-----------------------------------------------------------------------------
(* The suspended region, step by step.                                     *)

LEMMA ResetKeeps ==
  ASSUME IInv, NEW t \in Tasks, xQueueGenericReset(t)
  PROVE  IInv'
PROOF
<1>1. /\ Runs(t) /\ uxMessagesWaiting' = 0 /\ NoteReset /\ UNCHANGED <<kindVars, regionVars, callVars>>
      /\ UNCHANGED <<storage, delivered>> /\ WakeSenders(1)
      /\ pcWriteTo' = 0 /\ pcReadFrom' = uxLength - 1
      /\ cRxLock' = -1 /\ cTxLock' = -1
  BY DEF xQueueGenericReset, queueUNLOCKED
<1>2. /\ suspendedBy = NoTask /\ step = "none" /\ xPendingReadyList = {}
      /\ OwedReceivers = 0 /\ OwedSenders = 0 /\ cTxLock = -1 /\ cRxLock = -1
  BY <1>1, RunsFacts
<1>3. LocksOK' /\ OwedReceivers' = 0 /\ OwedSenders' = 0
  BY <1>1, <1>2, FrameEffect DEF lockVars
<1>4. ListsType' /\ ListsOK' /\ \E W \in SUBSET Tasks : WokenSenders(W, 1)
  BY <1>1, WakeSendersEffect
<1>5. PICK W \in SUBSET Tasks : WokenSenders(W, 1)
  BY <1>4
<1>6. /\ W \in SUBSET (Sending \cup Receiving) /\ W \cap Sending = W
      /\ Sending' \subseteq Sending /\ Receiving' \subseteq Receiving /\ Roused(W)
      /\ Awake \cup W \subseteq Awake'
      /\ xTasksWaitingToSend' # <<>> => xTasksWaitingToSend # <<>> /\ Cardinality(W) = 1
  BY <1>5 DEF WokenSenders, Receiving, Roused
<1>7. uxLength' = uxLength /\ uxLength \in Nat \ {0} /\ uxMessagesWaiting \in Nat
  BY <1>1, QueueAssumption DEF IInv, RingType, kindVars
<1>8. RingType'
  BY <1>1, <1>7, NoteType DEF IInv, RingType, kindVars
<1>9. StayInLoop
  BY <1>1, UnmovedStays
<1>10. CallType' /\ RegionOK' /\ PlaceOK'
  BY <1>1, <1>2, <1>6 DEF IInv, CallType, RegionOK, PlaceOK, regionVars, callVars, Roused
<1>11. xTasksWaitingToSend' # <<>> /\ 0 # uxLength =>
         /\ xTasksWaitingToSend # <<>>
         /\ 0 + 1 >= uxMessagesWaiting =>
              uxMessagesWaiting + OwedSenders <= 0 + Cardinality(W \cap Sending) + 0
  <2>1. xTasksWaitingToSend' # <<>> =>
          xTasksWaitingToSend # <<>> /\ Cardinality(W \cap Sending) = 1
    BY <1>6, Zenon
  <2> QED
    BY <1>2, <1>7, <2>1
<1>12. 0 \in Nat /\ 0 \in 0 .. uxLength
  BY <1>7
<1>13. WaitersOK' /\ ReceiversOK' /\ SendersOK'
  BY <1>1, <1>3, <1>4, <1>6, <1>7, <1>9, <1>11, <1>12, StepKeeps
<1> QED
  BY <1>3, <1>4, <1>8, <1>10, <1>13 DEF IInv

LEMMA SuspendKeeps ==
  ASSUME IInv, NEW t \in Tasks, vTaskSuspendAll(t)
  PROVE  IInv'
PROOF
<1>1. /\ Runs(t) /\ pc[t] = "suspend" /\ suspendedBy' = t /\ step' = "lock" /\ NoteReset
      /\ UNCHANGED <<kindVars, ringVars, lockVars, listVars, callVars>>
  BY DEF vTaskSuspendAll
<1>2. /\ suspendedBy = NoTask /\ t \in xReadyTasks /\ t # NoTask
      /\ OwedReceivers = 0 /\ OwedSenders = 0 /\ cTxLock = -1 /\ cRxLock = -1
  BY <1>1, RunsFacts, QueueAssumption
<1>3. /\ ListsType' /\ ListsOK' /\ Awake \subseteq Awake' /\ xReadyTasks' = xReadyTasks
      /\ Sending' \subseteq Sending /\ Receiving' \subseteq Receiving
  BY <1>1, UnmovedLists
<1>4. StayInLoop /\ pc' = pc
  BY <1>1, UnmovedStays
<1>5. LocksOK' /\ OwedReceivers' = 0 /\ OwedSenders' = 0
  BY <1>1, <1>2 DEF IInv, LocksOK, LockedInRegion, OwedReceivers, OwedSenders, lockVars,
     queueUNLOCKED
<1>6. CallType' /\ RegionOK' /\ PlaceOK'
  BY <1>1, <1>2, <1>3, <1>4 DEF IInv, CallType, RegionOK, PlaceOK, callVars, Steps
<1>7. RingType' /\ WaitersOK' /\ ReceiversOK' /\ SendersOK'
  BY <1>1, <1>2, <1>3, <1>4, <1>5, QuietKeeps
<1> QED
  BY <1>3, <1>5, <1>6, <1>7 DEF IInv

LEMMA LockKeeps ==
  ASSUME IInv, NEW t \in Tasks, prvLockQueue(t)
  PROVE  IInv'
PROOF
<1>1. /\ suspendedBy = t /\ step = "lock" /\ suspendedBy' = t /\ step' = "check" /\ NoteReset
      /\ UNCHANGED <<kindVars, ringVars, listVars, callVars>> /\ t # NoTask
  BY QueueAssumption DEF prvLockQueue, InRegion, GoTo
<1>2. cTxLock' = 0 /\ cRxLock' = 0
  BY <1>1 DEF IInv, LocksOK, LockedInRegion, prvLockQueue, queueUNLOCKED,
     queueLOCKED_UNMODIFIED
<1>3. /\ ListsType' /\ ListsOK' /\ Awake \subseteq Awake' /\ xReadyTasks' = xReadyTasks
      /\ Sending' \subseteq Sending /\ Receiving' \subseteq Receiving
  BY <1>1, UnmovedLists
<1>4. StayInLoop /\ pc' = pc
  BY <1>1, UnmovedStays
<1>5. LocksOK'
  BY <1>1, <1>2, QueueAssumption DEF LocksOK, LockedInRegion, queueUNLOCKED
<1>6. OwedReceivers = 0 /\ OwedSenders = 0 /\ OwedReceivers' = 0 /\ OwedSenders' = 0
  BY <1>1, <1>2 DEF OwedReceivers, OwedSenders
<1>7. CallType' /\ RegionOK' /\ PlaceOK'
  BY <1>1, <1>3, <1>4 DEF IInv, CallType, RegionOK, PlaceOK, callVars, Steps
<1>8. RingType' /\ WaitersOK' /\ ReceiversOK' /\ SendersOK'
  BY <1>1, <1>3, <1>4, <1>6, QuietKeeps
<1> QED
  BY <1>3, <1>5, <1>7, <1>8 DEF IInv

\* While the queue is locked the locks are the debts.
LEMMA LockedFacts ==
  ASSUME IInv, suspendedBy # NoTask
  PROVE  /\ step \in {"check", "place", "unlockTx"} =>
              OwedReceivers = cTxLock /\ cTxLock \in Nat
         /\ step \in {"check", "place", "unlockTx", "unlockRx"} =>
              OwedSenders = cRxLock /\ cRxLock \in Nat
  BY QueueAssumption DEF IInv, LocksOK, LockedInRegion, OwedReceivers, OwedSenders,
     queueUNLOCKED

\* The time check may change how long a call waits, and nothing else of it.
LEMMA CheckedCalls ==
  ASSUME IInv, NEW t \in Tasks, CheckTimeOut(t)
  PROVE  \E c \in Sends \cup Receives \cup {NoCall} :
           /\ call' = [call EXCEPT ![t] = c]
           /\ c.api = call[t].api /\ c.item = call[t].item
           /\ c.position = call[t].position
PROOF
<1> DEFINE hasty == [call[t] EXCEPT !.wait = "no"]
<1>1. call \in [Tasks -> Sends \cup Receives \cup {NoCall}]
  BY DEF IInv, CallType
<1>2. call[t] \in Sends \cup Receives \cup {NoCall}
  BY <1>1
<1>3. /\ hasty \in Sends \cup Receives \cup {NoCall}
      /\ hasty.api = call[t].api /\ hasty.item = call[t].item
      /\ hasty.position = call[t].position
  BY <1>2 DEF Sends, Receives, NoCall, Waits
<1>4. CASE t \in expired
  BY <1>3, <1>4 DEF CheckTimeOut
<1>5. CASE t \notin expired
  <2>1. call' = [call EXCEPT ![t] = call[t]]
    BY <1>1, <1>5 DEF CheckTimeOut
  <2> QED
    BY <1>2, <2>1
<1> QED
  BY <1>4, <1>5

LEMMA CheckKeeps ==
  ASSUME IInv, NEW t \in Tasks, CheckTimeOut(t)
  PROVE  IInv'
PROOF
<1>0. /\ call' \in [Tasks -> Sends \cup Receives \cup {NoCall}]
      /\ \A u \in Tasks : /\ IsSend(u)' <=> IsSend(u)
                          /\ call'[u].position = call[u].position
                          /\ u # t => call'[u] = call[u]
  <2>1. PICK c \in Sends \cup Receives \cup {NoCall} :
          /\ call' = [call EXCEPT ![t] = c]
          /\ c.api = call[t].api /\ c.position = call[t].position
    BY CheckedCalls
  <2>2. call \in [Tasks -> Sends \cup Receives \cup {NoCall}]
    BY DEF IInv, CallType
  <2> QED
    BY <2>1, <2>2 DEF IsSend
<1>1. /\ suspendedBy = t /\ step = "check" /\ suspendedBy' = t /\ NoteReset
      /\ UNCHANGED <<kindVars, ringVars, lockVars, listVars, expired>> /\ t # NoTask
      /\ step' = IF t \notin expired /\ CannotProceed(t) THEN "place" ELSE "unlockTx"
  BY QueueAssumption DEF CheckTimeOut, InRegion, GoTo
<1>2. PICK q \in {"try", "fail", "recheck"} :
        /\ pc' = [pc EXCEPT ![t] = q]
        /\ t \notin expired => q = "try"
  BY DEF CheckTimeOut
<1>3. pc[t] = "suspend" /\ t \in xReadyTasks /\ pc \in [Tasks -> Places] /\ q \in Places
  BY <1>1 DEF IInv, RegionOK, CallType, Places
<1>4. /\ ListsType' /\ ListsOK' /\ Awake \subseteq Awake' /\ xReadyTasks' = xReadyTasks
      /\ Sending' \subseteq Sending /\ Receiving' \subseteq Receiving
  BY <1>1, UnmovedLists
<1>5. /\ cTxLock \in Nat /\ cRxLock \in Nat
      /\ OwedReceivers = cTxLock /\ OwedSenders = cRxLock
  BY <1>1, LockedFacts
<1>6. step' \in {"place", "unlockTx"} /\ cTxLock' = cTxLock /\ cRxLock' = cRxLock
  BY <1>1 DEF lockVars
<1>7. OwedReceivers' = cTxLock /\ OwedSenders' = cRxLock
  BY <1>1, <1>6 DEF OwedReceivers, OwedSenders
<1>8. LocksOK'
  BY <1>1, <1>5, <1>6 DEF IInv, LocksOK, LockedInRegion, queueUNLOCKED
<1>9. /\ pc'[t] = q /\ \A u \in Tasks \ {t} : pc'[u] = pc[u]
      /\ pc' \in [Tasks -> Places]
  BY <1>2, <1>3
<1>10. StayInLoop
  BY <1>0, <1>1, <1>3, <1>9 DEF IInv, WaitersOK, StayInLoop
<1>11. CallType'
  BY <1>0, <1>1, <1>6, <1>9 DEF IInv, CallType, Steps
<1>12. RegionOK'
  BY <1>1, <1>2, <1>3, <1>4, <1>6, <1>9 DEF RegionOK
<1>13. PlaceOK'
  <2>1. ASSUME step' = "place"
        PROVE  IF IsSend(t) THEN uxLength - uxMessagesWaiting <= cRxLock
               ELSE uxMessagesWaiting <= cTxLock
    <3>1. CannotProceed(t)
      BY <1>1, <2>1
    <3>2. uxLength \in Nat
      BY QueueAssumption DEF IInv, RingType
    <3> QED
      BY <1>5, <3>1, <3>2 DEF CannotProceed, prvIsQueueFull, prvIsQueueEmpty
  <2>3. UNCHANGED <<uxLength, uxMessagesWaiting, cTxLock, cRxLock>>
    BY <1>1 DEF kindVars, ringVars, lockVars
  <2>4. IsSend(suspendedBy)' <=> IsSend(t)
    BY <1>0, <1>1 DEF IsSend
  <2> QED
    BY <2>1, <2>3, <2>4, Zenon DEF PlaceOK
<1>14. RingType' /\ WaitersOK' /\ ReceiversOK' /\ SendersOK'
  BY <1>1, <1>4, <1>5, <1>7, <1>10, QuietKeeps
<1> QED
  BY <1>4, <1>8, <1>11, <1>12, <1>13, <1>14 DEF IInv

LEMMA PlaceLists ==
  ASSUME IInv, NEW t \in Tasks, vTaskPlaceOnEventList(t)
  PROVE  /\ ListsType' /\ ListsOK'
         /\ xReadyTasks' = xReadyTasks \ {t} /\ xPendingReadyList' = xPendingReadyList
         /\ IF IsSend(t)
            THEN Sending' = Sending \cup {t} /\ UNCHANGED xTasksWaitingToReceive
            ELSE Receiving' = Receiving \cup {t} /\ UNCHANGED xTasksWaitingToSend
PROOF
<1>1. t \in xReadyTasks /\ t \notin Sending \cup Receiving /\ t \notin xPendingReadyList
  BY DEF IInv, RegionOK, ListsOK, vTaskPlaceOnEventList, InRegion
<1>2. /\ xTasksWaitingToSend \in Seq(Tasks) /\ OnceEach(xTasksWaitingToSend)
      /\ xTasksWaitingToReceive \in Seq(Tasks) /\ OnceEach(xTasksWaitingToReceive)
  BY DEF IInv, ListsType, ListsOK
<1>3. xReadyTasks' = xReadyTasks \ {t} /\ xPendingReadyList' = xPendingReadyList
  BY DEF vTaskPlaceOnEventList
<1>4. CASE IsSend(t)
  <2>1. /\ xTasksWaitingToSend' = vListInsert(xTasksWaitingToSend, t, uxPriority)
        /\ UNCHANGED xTasksWaitingToReceive
    BY <1>4 DEF vTaskPlaceOnEventList
  <2>2. t \notin Waiters(xTasksWaitingToSend)
    BY <1>1 DEF Sending
  <2>3. /\ xTasksWaitingToSend' \in Seq(Tasks) /\ OnceEach(xTasksWaitingToSend)'
        /\ Sending' = Sending \cup {t} /\ Receiving' = Receiving
    BY <1>2, <2>1, <2>2, InsertWaits DEF Sending, Receiving
  <2>4. ListsType'
    BY <1>2, <1>3, <2>1, <2>3 DEF IInv, ListsType
  <2>5. ListsOK'
    BY <1>1, <1>2, <1>3, <2>1, <2>3 DEF IInv, ListsType, ListsOK
  <2> QED
    BY <1>3, <1>4, <2>1, <2>3, <2>4, <2>5
<1>5. CASE ~IsSend(t)
  <2>1. /\ xTasksWaitingToReceive' = vListInsert(xTasksWaitingToReceive, t, uxPriority)
        /\ UNCHANGED xTasksWaitingToSend
    BY <1>5 DEF vTaskPlaceOnEventList
  <2>2. t \notin Waiters(xTasksWaitingToReceive)
    BY <1>1 DEF Receiving
  <2>3. /\ xTasksWaitingToReceive' \in Seq(Tasks) /\ OnceEach(xTasksWaitingToReceive)'
        /\ Receiving' = Receiving \cup {t} /\ Sending' = Sending
    BY <1>2, <2>1, <2>2, InsertWaits DEF Sending, Receiving
  <2>4. ListsType'
    BY <1>2, <1>3, <2>1, <2>3 DEF IInv, ListsType
  <2>5. ListsOK'
    BY <1>1, <1>2, <1>3, <2>1, <2>3 DEF IInv, ListsType, ListsOK
  <2> QED
    BY <1>3, <1>5, <2>1, <2>3, <2>4, <2>5
<1> QED
  BY <1>4, <1>5

\* The task goes to sleep: what it has not seen is in the counts.
LEMMA PlaceKeeps ==
  ASSUME IInv, NEW t \in Tasks, vTaskPlaceOnEventList(t)
  PROVE  IInv'
PROOF
<1>1. /\ suspendedBy = t /\ step = "place" /\ suspendedBy' = t /\ step' = "unlockTx"
      /\ NoteReset /\ UNCHANGED <<kindVars, ringVars, lockVars, callVars>> /\ t # NoTask
  BY QueueAssumption DEF vTaskPlaceOnEventList, InRegion, GoTo
<1>2. /\ ListsType' /\ ListsOK'
      /\ xReadyTasks' = xReadyTasks \ {t} /\ xPendingReadyList' = xPendingReadyList
      /\ IF IsSend(t)
         THEN Sending' = Sending \cup {t} /\ UNCHANGED xTasksWaitingToReceive
         ELSE Receiving' = Receiving \cup {t} /\ UNCHANGED xTasksWaitingToSend
  BY PlaceLists
<1>3. pc[t] = "try" /\ t \in xReadyTasks
  BY <1>1 DEF IInv, RegionOK
<1>4. /\ cTxLock \in Nat /\ cRxLock \in Nat
      /\ OwedReceivers = cTxLock /\ OwedSenders = cRxLock
  BY <1>1, LockedFacts
<1>5. OwedReceivers' = cTxLock /\ OwedSenders' = cRxLock /\ LocksOK'
  BY <1>1, <1>4 DEF IInv, LocksOK, LockedInRegion, lockVars, OwedReceivers, OwedSenders,
     queueUNLOCKED
<1>6. CallType' /\ RegionOK' /\ PlaceOK'
  BY <1>1, <1>2 DEF IInv, CallType, RegionOK, PlaceOK, callVars, Steps
<1>7. RingType'
  BY <1>1, NoteType DEF IInv, RingType, ringVars, kindVars
<1>8. pc' = pc /\ call' = call /\ \A u : IsSend(u)' <=> IsSend(u)
  BY <1>1, UnmovedStays
<1>9. WaitersOK'
  <2>1. CASE IsSend(t)
    BY <1>2, <1>3, <1>8, <2>1 DEF IInv, WaitersOK, Receiving
  <2>2. CASE ~IsSend(t)
    BY <1>2, <1>3, <1>8, <2>2 DEF IInv, WaitersOK, Sending
  <2> QED
    BY <2>1, <2>2
<1>10. Awake' = Awake \ {t}
  BY <1>2, <1>3 DEF Awake, IInv, ListsOK
<1>11. /\ uxLength' = uxLength /\ uxMessagesWaiting' = uxMessagesWaiting
       /\ uxMessagesWaiting \in 0 .. uxLength /\ uxMessagesWaiting \in Nat /\ uxLength \in Nat
  BY <1>1, QueueAssumption DEF IInv, RingType, kindVars, ringVars
<1>12. IsFiniteSet(ComingReceivers') /\ IsFiniteSet(ComingSenders')
  <2>1. ComingReceivers' \subseteq Tasks /\ ComingSenders' \subseteq Tasks
    BY <1>2 DEF ListsType, ComingReceivers, ComingSenders, Awake
  <2> QED
    BY <2>1, QueueAssumption, FS_Subset
<1>13. Cardinality(ComingReceivers') \in Nat /\ Cardinality(ComingSenders') \in Nat
  BY <1>12, FS_CardinalityType
<1> DEFINE D == Cardinality(ComingReceivers')
           E == Cardinality(ComingSenders')
<1>14. {} \cap Receiving = {} /\ {} \in SUBSET Receiving /\ {} \in SUBSET Sending
       /\ Cardinality({}) = 0
  BY FS_EmptySet
<1>15. CASE IsSend(t)
  <2>1. uxLength - uxMessagesWaiting <= cRxLock
    BY <1>1, <1>15 DEF IInv, PlaceOK
  <2>2. SendersOK'
    <3> HIDE DEF E
    <3>1. uxLength - uxMessagesWaiting <= E + cRxLock
      BY <1>4, <1>11, <1>13, <2>1 DEF E
    <3> QED
      BY <1>5, <1>11, <3>1, Zenon DEF SendersOK, E
  <2>3. Joined(ComingReceivers, ComingReceivers', {}, t, 0)
    BY <1>8, <1>10, <1>15 DEF Joined, ComingReceivers
  <2>4. uxMessagesWaiting + 0 + OwedReceivers <= uxMessagesWaiting + Cardinality({}) + cTxLock
    BY <1>4, <1>11, <1>14
  <2>5. ReceiversOK'
    BY <1>2, <1>4, <1>5, <1>11, <1>14, <1>15, <2>3, <2>4, ReceiversKept
  <2> QED
    BY <1>2, <1>5, <1>6, <1>7, <1>9, <2>2, <2>5 DEF IInv
<1>16. CASE ~IsSend(t)
  <2>1. uxMessagesWaiting <= cTxLock
    BY <1>1, <1>16 DEF IInv, PlaceOK
  <2>2. ReceiversOK'
    <3> HIDE DEF D
    <3>1. uxMessagesWaiting <= D + cTxLock
      BY <1>4, <1>11, <1>13, <2>1 DEF D
    <3> QED
      BY <1>5, <1>11, <3>1, Zenon DEF ReceiversOK, D
  <2>3. Joined(ComingSenders, ComingSenders', {}, t, 0)
    BY <1>8, <1>10, <1>16 DEF Joined, ComingSenders
  <2>4. uxMessagesWaiting + 0 + OwedSenders <= uxMessagesWaiting + Cardinality({}) + cRxLock
    BY <1>4, <1>11, <1>14
  <2>5. SendersOK'
    BY <1>1, <1>2, <1>4, <1>5, <1>11, <1>14, <1>16, <2>3, <2>4, SendersKept
  <2> QED
    BY <1>2, <1>5, <1>6, <1>7, <1>9, <2>2, <2>5 DEF IInv
<1> QED
  BY <1>15, <1>16

\* The unlocking task wakes a receiver for each post that was counted.
LEMMA UnlockTxKeeps ==
  ASSUME IInv, NEW t \in Tasks, prvUnlockQueue(t)
  PROVE  IInv'
PROOF
<1>1. /\ suspendedBy = t /\ step = "unlockTx" /\ suspendedBy' = t /\ step' = "unlockRx"
      /\ NoteReset /\ UNCHANGED <<kindVars, ringVars, cRxLock, callVars>> /\ t # NoTask
      /\ cTxLock' = -1
  BY QueueAssumption DEF prvUnlockQueue, InRegion, GoTo, queueUNLOCKED
<1>2. /\ cTxLock \in Nat /\ cRxLock \in Nat
      /\ OwedReceivers = cTxLock /\ OwedSenders = cRxLock
  BY <1>1, LockedFacts
<1>3. WakeReceivers(cTxLock)
  <2>1. (IF cTxLock > queueLOCKED_UNMODIFIED THEN cTxLock ELSE 0) = cTxLock
    BY <1>2 DEF queueLOCKED_UNMODIFIED
  <2> QED
    BY <2>1, Zenon DEF prvUnlockQueue
<1>4. ListsType' /\ ListsOK' /\ \E W \in SUBSET Tasks : WokenReceivers(W, cTxLock)
  BY <1>2, <1>3, WakeReceiversEffect
<1>5. PICK W \in SUBSET Tasks : WokenReceivers(W, cTxLock)
  BY <1>4
<1>6. /\ W \in SUBSET (Sending \cup Receiving) /\ W \cap Receiving = W /\ W \cap Sending = {}
      /\ Sending' \subseteq Sending /\ Receiving' \subseteq Receiving /\ Roused(W)
      /\ Awake \cup W \subseteq Awake' /\ xReadyTasks \subseteq xReadyTasks'
      /\ UNCHANGED xTasksWaitingToSend
      /\ xTasksWaitingToReceive' # <<>> => xTasksWaitingToReceive # <<>> /\ Cardinality(W) = cTxLock
  BY <1>5 DEF WokenReceivers, Sending, Roused, IInv, ListsOK
<1>7. OwedReceivers' = 0 /\ OwedSenders' = cRxLock /\ LocksOK'
  BY <1>1, <1>2, QueueAssumption DEF IInv, LocksOK, LockedInRegion, OwedReceivers, OwedSenders,
     queueUNLOCKED
<1>8. StayInLoop /\ pc' = pc
  BY <1>1, UnmovedStays
<1>9. CallType' /\ RegionOK' /\ PlaceOK'
  BY <1>1, <1>6, <1>8 DEF IInv, CallType, RegionOK, PlaceOK, callVars, Steps
<1>10. RingType'
  BY <1>1, NoteType DEF IInv, RingType, ringVars, kindVars
<1> DEFINE n == uxMessagesWaiting
<1>11. uxLength' = uxLength /\ n \in 0 .. uxLength /\ n \in Nat /\ uxMessagesWaiting' = n
  BY <1>1, QueueAssumption DEF IInv, RingType, kindVars, ringVars
<1>12. Cardinality(W \cap Sending) = 0
  BY <1>6, FS_EmptySet
<1>13. xTasksWaitingToReceive' # <<>> =>
         /\ xTasksWaitingToReceive # <<>>
         /\ n + OwedReceivers <= uxMessagesWaiting + Cardinality(W \cap Receiving) + 0
  <2>1. xTasksWaitingToReceive' # <<>> =>
          xTasksWaitingToReceive # <<>> /\ Cardinality(W \cap Receiving) = cTxLock
    BY <1>6, Zenon
  <2> QED
    BY <1>2, <1>11, <2>1
<1>14. uxMessagesWaiting + OwedSenders <= n + Cardinality(W \cap Sending) + cRxLock
  BY <1>2, <1>11, <1>12
<1>15. 0 \in Nat
  OBVIOUS
<1> HIDE DEF n
<1>16. WaitersOK' /\ ReceiversOK' /\ SendersOK'
  BY <1>1, <1>2, <1>4, <1>6, <1>7, <1>8, <1>11, <1>13, <1>14, <1>15, StepKeeps
<1> QED
  BY <1>4, <1>7, <1>9, <1>10, <1>16 DEF IInv

\* And a sender for each item that was counted as taken.
LEMMA UnlockRxKeeps ==
  ASSUME IInv, NEW t \in Tasks, UnlockRx(t)
  PROVE  IInv'
PROOF
<1>1. /\ suspendedBy = t /\ step = "unlockRx" /\ suspendedBy' = t /\ step' = "resume"
      /\ NoteReset /\ UNCHANGED <<kindVars, ringVars, cTxLock, callVars>> /\ t # NoTask
      /\ cRxLock' = -1
  BY QueueAssumption DEF UnlockRx, InRegion, GoTo, queueUNLOCKED
<1>2. /\ cRxLock \in Nat /\ OwedReceivers = 0 /\ OwedSenders = cRxLock /\ cTxLock = -1
  BY <1>1, LockedFacts DEF OwedReceivers, IInv, LocksOK, LockedInRegion, queueUNLOCKED
<1>3. WakeSenders(cRxLock)
  <2>1. (IF cRxLock > queueLOCKED_UNMODIFIED THEN cRxLock ELSE 0) = cRxLock
    BY <1>2 DEF queueLOCKED_UNMODIFIED
  <2> QED
    BY <2>1, Zenon DEF UnlockRx
<1>4. ListsType' /\ ListsOK' /\ \E W \in SUBSET Tasks : WokenSenders(W, cRxLock)
  BY <1>2, <1>3, WakeSendersEffect
<1>5. PICK W \in SUBSET Tasks : WokenSenders(W, cRxLock)
  BY <1>4
<1>6. /\ W \in SUBSET (Sending \cup Receiving) /\ W \cap Sending = W /\ W \cap Receiving = {}
      /\ Sending' \subseteq Sending /\ Receiving' \subseteq Receiving /\ Roused(W)
      /\ Awake \cup W \subseteq Awake' /\ xReadyTasks \subseteq xReadyTasks'
      /\ UNCHANGED xTasksWaitingToReceive
      /\ xTasksWaitingToSend' # <<>> => xTasksWaitingToSend # <<>> /\ Cardinality(W) = cRxLock
  BY <1>5 DEF WokenSenders, Receiving, Roused, IInv, ListsOK
<1>7. OwedReceivers' = 0 /\ OwedSenders' = 0 /\ LocksOK'
  BY <1>1, <1>2, QueueAssumption DEF IInv, LocksOK, LockedInRegion, OwedReceivers, OwedSenders,
     queueUNLOCKED
<1>8. StayInLoop /\ pc' = pc
  BY <1>1, UnmovedStays
<1>9. CallType' /\ RegionOK' /\ PlaceOK'
  BY <1>1, <1>6, <1>8 DEF IInv, CallType, RegionOK, PlaceOK, callVars, Steps
<1>10. RingType'
  BY <1>1, NoteType DEF IInv, RingType, ringVars, kindVars
<1> DEFINE n == uxMessagesWaiting
<1>11. uxLength' = uxLength /\ n \in 0 .. uxLength /\ n \in Nat /\ uxMessagesWaiting' = n
  BY <1>1, QueueAssumption DEF IInv, RingType, kindVars, ringVars
<1>12. Cardinality(W \cap Receiving) = 0
  BY <1>6, FS_EmptySet
<1>13. xTasksWaitingToSend' # <<>> =>
         /\ xTasksWaitingToSend # <<>>
         /\ uxMessagesWaiting + OwedSenders <= n + Cardinality(W \cap Sending) + 0
  <2>1. xTasksWaitingToSend' # <<>> =>
          xTasksWaitingToSend # <<>> /\ Cardinality(W \cap Sending) = cRxLock
    BY <1>6, Zenon
  <2> QED
    BY <1>2, <1>11, <2>1
<1>14. n + OwedReceivers <= uxMessagesWaiting + Cardinality(W \cap Receiving) + 0
  BY <1>2, <1>11, <1>12
<1>15. 0 \in Nat
  OBVIOUS
<1> HIDE DEF n
<1>16. WaitersOK' /\ ReceiversOK' /\ SendersOK'
  BY <1>1, <1>2, <1>4, <1>6, <1>7, <1>8, <1>11, <1>13, <1>14, <1>15, StepKeeps
<1> QED
  BY <1>4, <1>7, <1>9, <1>10, <1>16 DEF IInv

\* A task that has left the loop may end its call.
LEMMA ReturnStays ==
  ASSUME IInv, NEW t \in Tasks, pc[t] # "try", Return(t)
  PROVE  StayInLoop /\ pc' \in [Tasks -> Places] /\ expired' \subseteq Tasks
         /\ call' \in [Tasks -> Sends \cup Receives \cup {NoCall}]
PROOF
<1>1. pc \in [Tasks -> Places] /\ call \in [Tasks -> Sends \cup Receives \cup {NoCall}]
  BY DEF IInv, CallType
<1>2. /\ \A u \in Tasks \ {t} : pc'[u] = pc[u] /\ call'[u] = call[u]
      /\ call'[t] = NoCall
      /\ pc' \in [Tasks -> Places] /\ call' \in [Tasks -> Sends \cup Receives \cup {NoCall}]
  BY <1>1 DEF Return, Places
<1>3. NoCall.position # "overwrite"
  BY DEF NoCall
<1>4. StayInLoop
  BY <1>2, <1>3 DEF IInv, WaitersOK, StayInLoop
<1> QED
  BY <1>2, <1>4 DEF Return, IInv, CallType

LEMMA ResumeKeeps ==
  ASSUME IInv, NEW t \in Tasks, xTaskResumeAll(t)
  PROVE  IInv'
PROOF
<1>1. /\ suspendedBy = t /\ step = "resume" /\ suspendedBy' = NoTask /\ step' = "none"
      /\ xReadyTasks' = xReadyTasks \cup xPendingReadyList /\ xPendingReadyList' = {}
      /\ UNCHANGED <<kindVars, ringVars, lockVars, xTasksWaitingToSend, xTasksWaitingToReceive>>
      /\ NoteReset /\ t # NoTask
      /\ IF pc[t] = "fail" THEN Return(t) ELSE UNCHANGED callVars
  BY QueueAssumption DEF xTaskResumeAll, InRegion
<1>2. Sending' = Sending /\ Receiving' = Receiving /\ Awake' = Awake
  BY <1>1 DEF Sending, Receiving, Awake
<1>3. ListsType' /\ ListsOK'
  BY <1>1, <1>2 DEF IInv, ListsType, ListsOK
<1>4. LocksOK' /\ OwedReceivers = 0 /\ OwedSenders = 0 /\ OwedReceivers' = 0 /\ OwedSenders' = 0
  BY <1>1 DEF IInv, LocksOK, LockedInRegion, lockVars, OwedReceivers, OwedSenders, queueUNLOCKED
<1>5. StayInLoop /\ CallType'
  <2>1. CASE pc[t] = "fail"
    BY <1>1, <2>1, ReturnStays DEF CallType, Steps
  <2>2. CASE pc[t] # "fail"
    BY <1>1, <2>2, UnmovedStays DEF IInv, CallType, Steps
  <2> QED
    BY <2>1, <2>2
<1>6. RegionOK' /\ PlaceOK'
  BY <1>1 DEF RegionOK, PlaceOK
<1>7. RingType' /\ WaitersOK' /\ ReceiversOK' /\ SendersOK'
  BY <1>1, <1>2, <1>3, <1>4, <1>5, QuietKeeps
<1> QED
  BY <1>3, <1>4, <1>5, <1>6, <1>7 DEF IInv

LEMMA RecheckKeeps ==
  ASSUME IInv, NEW t \in Tasks, RecheckEmpty(t)
  PROVE  IInv'
PROOF
<1>1. /\ Runs(t) /\ pc[t] = "recheck" /\ NoteReset
      /\ UNCHANGED <<kindVars, ringVars, lockVars, listVars, regionVars>>
      /\ \/ Return(t)
         \/ pc' = [pc EXCEPT ![t] = "try"] /\ UNCHANGED <<call, expired>>
  BY DEF RecheckEmpty
<1>2. suspendedBy = NoTask /\ step = "none" /\ OwedReceivers = 0 /\ OwedSenders = 0
  BY <1>1, RunsFacts
<1>3. /\ ListsType' /\ ListsOK' /\ Awake \subseteq Awake'
      /\ Sending' \subseteq Sending /\ Receiving' \subseteq Receiving
      /\ xPendingReadyList' = xPendingReadyList
  BY <1>1, UnmovedLists
<1>4. LocksOK' /\ OwedReceivers' = 0 /\ OwedSenders' = 0
  BY <1>1, FrameEffect
<1>5. StayInLoop /\ CallType'
  <2>1. CASE Return(t)
    BY <1>1, <2>1, ReturnStays DEF IInv, CallType, regionVars
  <2>2. CASE pc' = [pc EXCEPT ![t] = "try"] /\ UNCHANGED <<call, expired>>
    <3>1. pc' \in [Tasks -> Places] /\ \A u \in Tasks : pc[u] = "try" => pc'[u] = "try"
      BY <2>2 DEF IInv, CallType, Places
    <3> QED
      BY <1>1, <2>2, <3>1 DEF IInv, CallType, WaitersOK, StayInLoop, regionVars
  <2> QED
    BY <1>1, <2>1, <2>2
<1>6. RegionOK' /\ PlaceOK'
  BY <1>1, <1>2, <1>3 DEF IInv, RegionOK, PlaceOK, regionVars
<1>7. RingType' /\ WaitersOK' /\ ReceiversOK' /\ SendersOK'
  BY <1>1, <1>2, <1>3, <1>4, <1>5, QuietKeeps
<1> QED
  BY <1>3, <1>4, <1>5, <1>6, <1>7 DEF IInv

LEMMA TickKeeps ==
  ASSUME IInv, NEW t \in Tasks, xTaskIncrementTick(t)
  PROVE  IInv'
PROOF
<1>1. /\ suspendedBy = NoTask /\ expired' = expired \cup {t} /\ xReadyTasks' = xReadyTasks \cup {t}
      /\ xTasksWaitingToSend' = uxListRemove(xTasksWaitingToSend, t)
      /\ xTasksWaitingToReceive' = uxListRemove(xTasksWaitingToReceive, t)
      /\ UNCHANGED <<kindVars, ringVars, lockVars, xPendingReadyList, regionVars, pc, call>>
      /\ NoteReset
  BY DEF xTaskIncrementTick
<1>2. /\ xTasksWaitingToSend \in Seq(Tasks) /\ OnceEach(xTasksWaitingToSend)
      /\ xTasksWaitingToReceive \in Seq(Tasks) /\ OnceEach(xTasksWaitingToReceive)
      /\ xPendingReadyList = {} /\ step = "none"
  BY <1>1 DEF IInv, ListsType, ListsOK, RegionOK
<1>3. /\ xTasksWaitingToSend' \in Seq(Tasks) /\ OnceEach(xTasksWaitingToSend)'
      /\ Sending' = Sending \ {t}
  BY <1>1, <1>2, RemoveWaits DEF Sending
<1>4. /\ xTasksWaitingToReceive' \in Seq(Tasks) /\ OnceEach(xTasksWaitingToReceive)'
      /\ Receiving' = Receiving \ {t}
  BY <1>1, <1>2, RemoveWaits DEF Receiving
<1>5. ListsType'
  BY <1>1, <1>3, <1>4 DEF IInv, ListsType
<1>6. ListsOK' /\ Awake \subseteq Awake'
  BY <1>1, <1>2, <1>3, <1>4 DEF IInv, ListsType, ListsOK, Awake
<1>7. LocksOK' /\ OwedReceivers = 0 /\ OwedSenders = 0 /\ OwedReceivers' = 0 /\ OwedSenders' = 0
  BY <1>1, <1>2 DEF IInv, LocksOK, LockedInRegion, lockVars, regionVars, OwedReceivers, OwedSenders
<1>8. StayInLoop /\ CallType' /\ RegionOK' /\ PlaceOK'
  BY <1>1, <1>2 DEF IInv, CallType, WaitersOK, StayInLoop, RegionOK, PlaceOK, regionVars
<1>9. RingType' /\ WaitersOK' /\ ReceiversOK' /\ SendersOK'
  BY <1>1, <1>3, <1>4, <1>5, <1>6, <1>7, <1>8, QuietKeeps
<1> QED
  BY <1>5, <1>6, <1>7, <1>8, <1>9 DEF IInv

-----------------------------------------------------------------------------
(* Interrupts.                                                             *)

LEMMA PostedKeeps ==
  ASSUME IInv, LocksDoNotWrap, RingType', NoteReset,
         NEW n \in 0 .. uxLength, uxMessagesWaiting' = n,
         n = uxMessagesWaiting + 1 \/ n = uxMessagesWaiting,
         Bounded(cTxLock), PostedFromISR,
         UNCHANGED <<kindVars, cRxLock, regionVars, callVars>>
  PROVE  IInv'
PROOF
<1>1. /\ n \in Nat /\ uxMessagesWaiting \in Nat /\ uxLength \in Nat /\ uxLength' = uxLength
      /\ cTxLock \in -1 .. MaxInterrupts /\ cTxLock < MaxInterrupts /\ MaxInterrupts \in Nat
      /\ cTxLock # queueINT8_MAX
  BY QueueAssumption DEF IInv, RingType, LocksOK, Bounded, kindVars, LocksDoNotWrap
<1>2. StayInLoop /\ pc' = pc /\ call' = call /\ \A u : IsSend(u)' <=> IsSend(u)
  BY UnmovedStays
<1>3. suspendedBy' = suspendedBy /\ step' = step
  BY DEF regionVars
<1>4. OwedReceivers \in Nat /\ OwedSenders \in Nat /\ OwedSenders' = OwedSenders
  BY <1>3, OwedType DEF OwedSenders
<1>5. CallType'
  BY <1>2, <1>3 DEF IInv, CallType, callVars
<1>6. CASE cTxLock = -1
  <2>1. WakeReceivers(1) /\ cTxLock' = cTxLock
    BY <1>6 DEF PostedFromISR, queueUNLOCKED
  <2>2. ListsType' /\ ListsOK' /\ \E W \in SUBSET Tasks : WokenReceivers(W, 1)
    BY <2>1, WakeReceiversEffect
  <2>3. PICK W \in SUBSET Tasks : WokenReceivers(W, 1)
    BY <2>2
  <2>4. /\ W \in SUBSET (Sending \cup Receiving) /\ W \cap Receiving = W /\ W \cap Sending = {}
        /\ Sending' \subseteq Sending /\ Receiving' \subseteq Receiving /\ Roused(W)
        /\ Awake \cup W \subseteq Awake' /\ xReadyTasks \subseteq xReadyTasks'
        /\ UNCHANGED xTasksWaitingToSend
        /\ xTasksWaitingToReceive' # <<>> => xTasksWaitingToReceive # <<>> /\ Cardinality(W) = 1
        /\ suspendedBy = NoTask => xPendingReadyList' = xPendingReadyList
    BY <2>3 DEF WokenReceivers, Sending, Roused, IInv, ListsOK
  <2>5. ~(suspendedBy # NoTask /\ step \in {"check", "place", "unlockTx"})
    BY <1>6 DEF IInv, LocksOK, LockedInRegion, queueUNLOCKED
  <2>6. OwedReceivers = 0 /\ OwedReceivers' = 0
    BY <1>3, <2>5 DEF OwedReceivers
  <2>7. LocksOK'
    BY <1>3, <2>1 DEF IInv, LocksOK, LockedInRegion
  <2>8. RegionOK' /\ PlaceOK'
    BY <1>2, <1>3, <2>4, <2>5 DEF IInv, RegionOK, PlaceOK
  <2>9. Cardinality(W \cap Sending) = 0
    BY <2>4, FS_EmptySet
  <2>10. xTasksWaitingToReceive' # <<>> =>
           /\ xTasksWaitingToReceive # <<>>
           /\ n + OwedReceivers <= uxMessagesWaiting + Cardinality(W \cap Receiving) + 0
    <3>1. xTasksWaitingToReceive' # <<>> =>
            xTasksWaitingToReceive # <<>> /\ Cardinality(W \cap Receiving) = 1
      BY <2>4, Zenon
    <3> QED
      BY <1>1, <2>6, <3>1
  <2>11. uxMessagesWaiting + OwedSenders <= n + Cardinality(W \cap Sending) + OwedSenders
    BY <1>1, <1>4, <2>9
  <2>12. 0 \in Nat
    OBVIOUS
  <2>13. WaitersOK' /\ ReceiversOK' /\ SendersOK'
    BY <1>1, <1>2, <1>4, <2>2, <2>4, <2>6, <2>10, <2>11, <2>12, StepKeeps
  <2> QED
    BY <1>5, <2>2, <2>7, <2>8, <2>13 DEF IInv
<1>7. CASE cTxLock # -1
  <2>1. cTxLock' = cTxLock + 1 /\ UNCHANGED listVars /\ cTxLock \in Nat
    BY <1>1, <1>7 DEF PostedFromISR, queueUNLOCKED, Increment8
  <2>2. suspendedBy # NoTask /\ step \in {"check", "place", "unlockTx"}
    BY <1>7 DEF IInv, LocksOK, LockedInRegion, queueUNLOCKED
  <2>3. OwedReceivers = cTxLock /\ OwedReceivers' = cTxLock + 1
    BY <1>3, <2>1, <2>2 DEF OwedReceivers
  <2>4. /\ ListsType' /\ ListsOK' /\ Awake' = Awake /\ xReadyTasks' = xReadyTasks
        /\ Sending' = Sending /\ Receiving' = Receiving
        /\ xPendingReadyList' = xPendingReadyList
    BY <2>1, UnmovedLists
  <2>5. LocksOK'
    <3>1. cTxLock + 1 \in -1 .. MaxInterrupts /\ cTxLock + 1 # -1
      BY <1>1, <2>1
    <3> QED
      BY <1>3, <1>7, <2>1, <2>2, <3>1 DEF IInv, LocksOK, LockedInRegion, queueUNLOCKED
  <2>6. RegionOK'
    BY <1>2, <1>3, <2>4 DEF IInv, RegionOK
  <2>7. PlaceOK'
    <3>1. step = "place" => IF IsSend(suspendedBy) THEN uxLength - n <= cRxLock
                            ELSE n <= cTxLock + 1
      <4>1. cRxLock \in Int
        BY <1>1 DEF IInv, LocksOK
      <4> QED
        BY <1>1, <2>1, <4>1 DEF IInv, PlaceOK
    <3>2. IsSend(suspendedBy)' <=> IsSend(suspendedBy)
      BY <1>2, <1>3 DEF IsSend
    <3> QED
      BY <1>1, <1>3, <2>1, <3>1, <3>2, Zenon DEF PlaceOK
  <2>8. /\ Cardinality({} \cap Receiving) = 0 /\ Cardinality({} \cap Sending) = 0
        /\ {} \in SUBSET (Sending \cup Receiving) /\ Awake \cup {} \subseteq Awake'
        /\ Sending' \subseteq Sending /\ Receiving' \subseteq Receiving
        /\ UNCHANGED <<xTasksWaitingToReceive, xTasksWaitingToSend>>
    BY <2>1, <2>4, FS_EmptySet DEF listVars
  <2>9. n + OwedReceivers <= uxMessagesWaiting + Cardinality({} \cap Receiving) + (cTxLock + 1)
    BY <1>1, <2>1, <2>3, <2>8
  <2>10. uxMessagesWaiting + OwedSenders <= n + Cardinality({} \cap Sending) + OwedSenders
    BY <1>1, <1>4, <2>8
  <2>11. cTxLock + 1 \in Nat
    BY <2>1
  <2>12. WaitersOK' /\ ReceiversOK' /\ SendersOK'
    BY <1>1, <1>2, <1>4, <2>3, <2>4, <2>8, <2>9, <2>10, <2>11, StepKeeps
  <2> QED
    BY <1>5, <2>4, <2>5, <2>6, <2>7, <2>12 DEF IInv
<1> QED
  BY <1>6, <1>7

LEMMA SendFromISRKeeps ==
  ASSUME IInv, LocksDoNotWrap, xQueueGenericSendFromISR
  PROVE  IInv'
PROOF
<1>1. PICK item \in Items, position \in {"back", "front", "overwrite"} :
        /\ uxMessagesWaiting < uxLength \/ position = "overwrite"
        /\ prvCopyDataToQueue(item, position)
  BY Zenon DEF xQueueGenericSendFromISR
<1>2. /\ Bounded(cTxLock) /\ PostedFromISR /\ NoteReset
      /\ UNCHANGED <<kindVars, cRxLock, regionVars, callVars>>
  BY DEF xQueueGenericSendFromISR
<1>3. item \in Items \cup {NoItem}
  OBVIOUS
<1>4. RingType' /\ \E n \in 0 .. uxLength :
        /\ uxMessagesWaiting' = n
        /\ n = uxMessagesWaiting + 1 \/ (n = uxMessagesWaiting /\ position = "overwrite")
  BY <1>1, <1>2, <1>3, NoteType, PostEffect
<1> QED
  BY <1>2, <1>4, PostedKeeps

LEMMA GiveFromISRKeeps ==
  ASSUME IInv, LocksDoNotWrap, xQueueGiveFromISR
  PROVE  IInv'
PROOF
<1>1. /\ Bounded(cTxLock) /\ PostedFromISR /\ NoteReset
      /\ UNCHANGED <<kindVars, cRxLock, regionVars, callVars>>
      /\ UNCHANGED <<storage, pcWriteTo, pcReadFrom, delivered>>
      /\ uxMessagesWaiting < uxLength /\ uxMessagesWaiting' = uxMessagesWaiting + 1
  BY DEF xQueueGiveFromISR
<1>2. /\ uxLength \in Nat /\ uxMessagesWaiting \in 0 .. uxLength
  BY QueueAssumption DEF IInv, RingType
<1>3. PICK n \in 0 .. uxLength : n = uxMessagesWaiting + 1
  BY <1>1, <1>2
<1>4. RingType'
  BY <1>1, <1>3, NoteType DEF IInv, RingType, kindVars
<1> QED
  BY <1>1, <1>3, <1>4, PostedKeeps

LEMMA ReceiveFromISRKeeps ==
  ASSUME IInv, LocksDoNotWrap, xQueueReceiveFromISR
  PROVE  IInv'
PROOF
<1>1. /\ uxMessagesWaiting > 0 /\ Bounded(cRxLock) /\ prvCopyDataFromQueue(TRUE) /\ NoteReset
      /\ UNCHANGED <<kindVars, cTxLock, regionVars, callVars>>
  BY DEF xQueueReceiveFromISR
<1>2. RingType' /\ \E n \in 0 .. uxLength : uxMessagesWaiting' = n /\ n = uxMessagesWaiting - 1
  BY <1>1, NoteType, CopyEffect
<1>3. PICK n \in 0 .. uxLength : uxMessagesWaiting' = n /\ n = uxMessagesWaiting - 1
  BY <1>2
<1>4. /\ n \in Nat /\ uxMessagesWaiting \in Nat /\ uxLength \in Nat /\ uxLength' = uxLength
      /\ cRxLock \in -1 .. MaxInterrupts /\ cRxLock < MaxInterrupts /\ MaxInterrupts \in Nat
      /\ cRxLock # queueINT8_MAX
  BY <1>1, QueueAssumption DEF IInv, RingType, LocksOK, Bounded, kindVars, LocksDoNotWrap
<1>5. StayInLoop /\ pc' = pc /\ call' = call /\ \A u : IsSend(u)' <=> IsSend(u)
  BY <1>1, UnmovedStays
<1>6. suspendedBy' = suspendedBy /\ step' = step /\ cTxLock' = cTxLock
  BY <1>1 DEF regionVars
<1>7. OwedReceivers \in Nat /\ OwedSenders \in Nat /\ OwedReceivers' = OwedReceivers
  BY <1>6, OwedType DEF OwedReceivers
<1>8. CallType'
  BY <1>1, <1>5, <1>6 DEF IInv, CallType, callVars
<1>9. CASE cRxLock = -1
  <2>1. WakeSenders(1) /\ cRxLock' = cRxLock
    BY <1>9 DEF xQueueReceiveFromISR, queueUNLOCKED
  <2>2. ListsType' /\ ListsOK' /\ \E W \in SUBSET Tasks : WokenSenders(W, 1)
    BY <2>1, WakeSendersEffect
  <2>3. PICK W \in SUBSET Tasks : WokenSenders(W, 1)
    BY <2>2
  <2>4. /\ W \in SUBSET (Sending \cup Receiving) /\ W \cap Sending = W /\ W \cap Receiving = {}
        /\ Sending' \subseteq Sending /\ Receiving' \subseteq Receiving /\ Roused(W)
        /\ Awake \cup W \subseteq Awake' /\ xReadyTasks \subseteq xReadyTasks'
        /\ UNCHANGED xTasksWaitingToReceive
        /\ xTasksWaitingToSend' # <<>> => xTasksWaitingToSend # <<>> /\ Cardinality(W) = 1
        /\ suspendedBy = NoTask => xPendingReadyList' = xPendingReadyList
    BY <2>3 DEF WokenSenders, Receiving, Roused, IInv, ListsOK
  <2>5. ~(suspendedBy # NoTask /\ step \in {"check", "place", "unlockTx", "unlockRx"})
    BY <1>9 DEF IInv, LocksOK, LockedInRegion, queueUNLOCKED
  <2>6. OwedSenders = 0 /\ OwedSenders' = 0
    BY <1>6, <2>5 DEF OwedSenders
  <2>7. LocksOK'
    BY <1>6, <2>1 DEF IInv, LocksOK, LockedInRegion
  <2>8. RegionOK' /\ PlaceOK'
    BY <1>5, <1>6, <2>4, <2>5 DEF IInv, RegionOK, PlaceOK
  <2>9. Cardinality(W \cap Receiving) = 0
    BY <2>4, FS_EmptySet
  <2>10. xTasksWaitingToSend' # <<>> =>
           /\ xTasksWaitingToSend # <<>>
           /\ uxMessagesWaiting + OwedSenders <= n + Cardinality(W \cap Sending) + 0
    <3>1. xTasksWaitingToSend' # <<>> =>
            xTasksWaitingToSend # <<>> /\ Cardinality(W \cap Sending) = 1
      BY <2>4, Zenon
    <3> QED
      BY <1>3, <1>4, <2>6, <3>1
  <2>11. n + OwedReceivers <= uxMessagesWaiting + Cardinality(W \cap Receiving) + OwedReceivers
    BY <1>3, <1>4, <1>7, <2>9
  <2>12. 0 \in Nat
    OBVIOUS
  <2>13. WaitersOK' /\ ReceiversOK' /\ SendersOK'
    BY <1>1, <1>3, <1>4, <1>5, <1>7, <2>2, <2>4, <2>6, <2>10, <2>11, <2>12, StepKeeps
  <2> QED
    BY <1>2, <1>8, <2>2, <2>7, <2>8, <2>13 DEF IInv
<1>10. CASE cRxLock # -1
  <2>1. cRxLock' = cRxLock + 1 /\ UNCHANGED listVars /\ cRxLock \in Nat
    BY <1>4, <1>10 DEF xQueueReceiveFromISR, queueUNLOCKED, Increment8
  <2>2. suspendedBy # NoTask /\ step \in {"check", "place", "unlockTx", "unlockRx"}
    BY <1>10 DEF IInv, LocksOK, LockedInRegion, queueUNLOCKED
  <2>3. OwedSenders = cRxLock /\ OwedSenders' = cRxLock + 1
    BY <1>6, <2>1, <2>2 DEF OwedSenders
  <2>4. /\ ListsType' /\ ListsOK' /\ Awake' = Awake /\ xReadyTasks' = xReadyTasks
        /\ Sending' = Sending /\ Receiving' = Receiving
        /\ xPendingReadyList' = xPendingReadyList
    BY <2>1, UnmovedLists
  <2>5. LocksOK'
    <3>1. cRxLock + 1 \in -1 .. MaxInterrupts /\ cRxLock + 1 # -1
      BY <1>4, <2>1
    <3> QED
      BY <1>6, <1>10, <2>1, <2>2, <3>1 DEF IInv, LocksOK, LockedInRegion, queueUNLOCKED
  <2>6. RegionOK'
    BY <1>5, <1>6, <2>4 DEF IInv, RegionOK
  <2>7. PlaceOK'
    <3>1. step = "place" => IF IsSend(suspendedBy) THEN uxLength - n <= cRxLock + 1
                            ELSE n <= cTxLock
      <4>1. cTxLock \in Int
        BY <1>4 DEF IInv, LocksOK
      <4> QED
        BY <1>3, <1>4, <2>1, <4>1 DEF IInv, PlaceOK
    <3>2. IsSend(suspendedBy)' <=> IsSend(suspendedBy)
      BY <1>5, <1>6 DEF IsSend
    <3> QED
      BY <1>3, <1>4, <1>6, <2>1, <3>1, <3>2, Zenon DEF PlaceOK
  <2>8. /\ Cardinality({} \cap Receiving) = 0 /\ Cardinality({} \cap Sending) = 0
        /\ {} \in SUBSET (Sending \cup Receiving) /\ Awake \cup {} \subseteq Awake'
        /\ Sending' \subseteq Sending /\ Receiving' \subseteq Receiving
        /\ UNCHANGED <<xTasksWaitingToReceive, xTasksWaitingToSend>>
    BY <2>1, <2>4, FS_EmptySet DEF listVars
  <2>9. n + OwedReceivers <= uxMessagesWaiting + Cardinality({} \cap Receiving) + OwedReceivers
    BY <1>3, <1>4, <1>7, <2>8
  <2>10. uxMessagesWaiting + OwedSenders <= n + Cardinality({} \cap Sending) + (cRxLock + 1)
    BY <1>3, <1>4, <2>1, <2>3, <2>8
  <2>11. cRxLock + 1 \in Nat
    BY <2>1
  <2>12. WaitersOK' /\ ReceiversOK' /\ SendersOK'
    BY <1>1, <1>3, <1>4, <1>5, <1>7, <2>3, <2>4, <2>8, <2>9, <2>10, <2>11, StepKeeps
  <2> QED
    BY <1>2, <1>8, <2>4, <2>5, <2>6, <2>7, <2>12 DEF IInv
<1> QED
  BY <1>9, <1>10

LEMMA PeekFromISRKeeps ==
  ASSUME IInv, xQueuePeekFromISR
  PROVE  IInv'
PROOF
<1>1. /\ uxMessagesWaiting > 0 /\ prvCopyDataFromQueue(FALSE) /\ NoteReset
      /\ UNCHANGED <<kindVars, lockVars, listVars, regionVars, callVars>>
  BY DEF xQueuePeekFromISR
<1>2. RingType' /\ \E n \in 0 .. uxLength : uxMessagesWaiting' = n /\ n = uxMessagesWaiting
  BY <1>1, NoteType, CopyEffect
<1>3. PICK n \in 0 .. uxLength : uxMessagesWaiting' = n /\ n = uxMessagesWaiting
  BY <1>2
<1>4. StayInLoop /\ pc' = pc /\ call' = call /\ \A u : IsSend(u)' <=> IsSend(u)
  BY <1>1, UnmovedStays
<1>5. suspendedBy' = suspendedBy /\ step' = step /\ cTxLock' = cTxLock /\ cRxLock' = cRxLock
  BY <1>1 DEF regionVars, lockVars
<1>6. /\ ListsType' /\ ListsOK' /\ Awake' = Awake /\ xReadyTasks' = xReadyTasks
      /\ Sending' = Sending /\ Receiving' = Receiving
      /\ xPendingReadyList' = xPendingReadyList
      /\ UNCHANGED <<xTasksWaitingToReceive, xTasksWaitingToSend>>
  BY <1>1, UnmovedLists DEF listVars
<1>7. /\ OwedReceivers \in Nat /\ OwedReceivers' = OwedReceivers
      /\ OwedSenders \in Nat /\ OwedSenders' = OwedSenders
  BY <1>5, OwedType DEF OwedReceivers, OwedSenders
<1>8. LocksOK'
  BY <1>5 DEF IInv, LocksOK, LockedInRegion
<1>9. uxLength' = uxLength /\ uxMessagesWaiting' = uxMessagesWaiting
  BY <1>1, <1>3 DEF kindVars
<1>10. CallType' /\ RegionOK'
  BY <1>1, <1>4, <1>5, <1>6 DEF IInv, CallType, RegionOK, callVars
<1>11. PlaceOK'
  <2>1. IsSend(suspendedBy)' <=> IsSend(suspendedBy)
    BY <1>4, <1>5 DEF IsSend
  <2> QED
    BY <1>5, <1>9, <2>1 DEF IInv, PlaceOK
<1>12. n \in Nat /\ uxMessagesWaiting \in Nat
  BY QueueAssumption DEF IInv, RingType
<1>13. /\ Cardinality({} \cap Receiving) = 0 /\ Cardinality({} \cap Sending) = 0
       /\ {} \in SUBSET (Sending \cup Receiving) /\ Awake \cup {} \subseteq Awake'
       /\ Sending' \subseteq Sending /\ Receiving' \subseteq Receiving
  BY <1>6, FS_EmptySet
<1>14. n + OwedReceivers <= uxMessagesWaiting + Cardinality({} \cap Receiving) + OwedReceivers
  BY <1>3, <1>7, <1>12, <1>13
<1>15. uxMessagesWaiting + OwedSenders <= n + Cardinality({} \cap Sending) + OwedSenders
  BY <1>3, <1>7, <1>12, <1>13
<1>16. WaitersOK' /\ ReceiversOK' /\ SendersOK'
  BY <1>1, <1>3, <1>4, <1>6, <1>7, <1>9, <1>13, <1>14, <1>15, StepKeeps
<1> QED
  BY <1>2, <1>6, <1>8, <1>10, <1>11, <1>16 DEF IInv

-----------------------------------------------------------------------------
(* The theorems.                                                           *)

LEMMA InitIInv ==
  ASSUME Init
  PROVE  IInv
PROOF
<1>1. RingType /\ CallType
  <2>1. uxLength \in Nat \ {0} /\ uxLength \in Lengths /\ uxItemSize \in {0, 1}
    BY QueueAssumption DEF Init, xQueueGenericCreate
  <2>2. uxMessagesWaiting \in 0 .. uxLength
    BY <2>1 DEF Init, xQueueGenericCreate
  <2>3. pcWriteTo \in 0 .. uxLength - 1 /\ pcReadFrom \in 0 .. uxLength - 1
    BY <2>1 DEF Init, xQueueGenericCreate
  <2>4. storage \in [0 .. uxLength - 1 -> Items \cup {NoItem}]
    BY DEF Init, xQueueGenericCreate
  <2>5. RingType
    BY <2>1, <2>2, <2>3, <2>4 DEF Init, RingType
  <2>6. CallType
    BY DEF Init, CallType, Steps, Places
  <2> QED
    BY <2>5, <2>6
<1>2. xTasksWaitingToSend = <<>> /\ xTasksWaitingToReceive = <<>>
  BY DEF Init, xQueueGenericCreate
<1>3. Sending = {} /\ Receiving = {} /\ ListsType /\ ListsOK
  <2>1. Sending = {} /\ Receiving = {}
    BY <1>2, EmptyList DEF Sending, Receiving
  <2> QED
    BY <1>2, <2>1, EmptyList DEF Init, ListsType, ListsOK
<1>4. WaitersOK
  <2>1. \A t \in Tasks : call[t] = NoCall
    BY DEF Init
  <2> QED
    BY <1>3, <2>1 DEF WaitersOK, NoCall
<1>5. RegionOK /\ PlaceOK
  BY DEF Init, RegionOK, PlaceOK
<1>6. LocksOK
  BY QueueAssumption DEF Init, xQueueGenericCreate, LocksOK, LockedInRegion, queueUNLOCKED
<1>7. ReceiversOK /\ SendersOK
  BY <1>2 DEF ReceiversOK, SendersOK
<1> QED
  BY <1>1, <1>3, <1>4, <1>5, <1>6, <1>7 DEF IInv

LEMMA StutterKeeps ==
  ASSUME IInv, UNCHANGED vars
  PROVE  IInv'
PROOF
<1>1. UNCHANGED <<kindVars, ringVars, lockVars, listVars, regionVars, callVars, xResetLeftSenders>>
  BY DEF vars
<1> USE <1>1 DEF kindVars, ringVars, lockVars, listVars, regionVars, callVars
<1>2. RingType' /\ ListsType' /\ CallType'
  BY DEF IInv, RingType, ListsType, CallType
<1>3. Sending' = Sending /\ Receiving' = Receiving /\ Awake' = Awake
  BY DEF Sending, Receiving, Awake
<1>4. \A t : IsSend(t)' <=> IsSend(t)
  BY DEF IsSend
<1>5. ListsOK' /\ WaitersOK' /\ RegionOK' /\ LocksOK'
  BY <1>3, <1>4 DEF IInv, ListsOK, WaitersOK, RegionOK, LocksOK, LockedInRegion
<1>6. PlaceOK'
  BY <1>4 DEF IInv, PlaceOK, IsSend
<1>7. ComingReceivers' = ComingReceivers /\ ComingSenders' = ComingSenders
  BY <1>3, <1>4 DEF ComingReceivers, ComingSenders
<1>8. OwedReceivers' = OwedReceivers /\ OwedSenders' = OwedSenders
  BY DEF OwedReceivers, OwedSenders
<1>9. ReceiversOK' /\ SendersOK'
  BY <1>7, <1>8 DEF IInv, ReceiversOK, SendersOK
<1> QED
  BY <1>2, <1>5, <1>6, <1>9 DEF IInv

LEMMA NextKeeps ==
  ASSUME IInv, LocksDoNotWrap, Next
  PROVE  IInv'
PROOF
<1>1. ASSUME NEW t \in Tasks, TaskStep(t)
      PROVE  IInv'
  <2>1. CASE \/ xQueueGenericSend(t) \/ xQueueReceive(t) \/ xQueueSemaphoreTake(t)
             \/ xQueuePeek(t)
    BY <2>1, LooksAre, SentKeeps, TakenKeeps, PeekedKeeps, GivenUpKeeps
  <2>2. CASE xQueueGenericReset(t)
    BY <2>2, ResetKeeps
  <2>3. CASE vTaskSuspendAll(t)
    BY <2>3, SuspendKeeps
  <2>4. CASE prvLockQueue(t)
    BY <2>4, LockKeeps
  <2>5. CASE CheckTimeOut(t)
    BY <2>5, CheckKeeps
  <2>6. CASE vTaskPlaceOnEventList(t)
    BY <2>6, PlaceKeeps
  <2>7. CASE prvUnlockQueue(t)
    BY <2>7, UnlockTxKeeps
  <2>8. CASE UnlockRx(t)
    BY <2>8, UnlockRxKeeps
  <2>9. CASE xTaskResumeAll(t)
    BY <2>9, ResumeKeeps
  <2>10. CASE RecheckEmpty(t)
    BY <2>10, RecheckKeeps
  <2> QED
    BY <1>1, <2>1, <2>2, <2>3, <2>4, <2>5, <2>6, <2>7, <2>8, <2>9, <2>10 DEF TaskStep
<1>2. ASSUME Interrupt
      PROVE  IInv'
  BY <1>2, SendFromISRKeeps, GiveFromISRKeeps, ReceiveFromISRKeeps, PeekFromISRKeeps, TickKeeps
     DEF Interrupt
<1> QED
  BY <1>1, <1>2 DEF Next

\* The invariant holds in every reachable state.
LEMMA Inductive == LocksDoNotWrap => (Spec => []IInv)
PROOF
<1> SUFFICES ASSUME LocksDoNotWrap
             PROVE  Spec => []IInv
  OBVIOUS
<1>1. Init => IInv
  BY InitIInv
<1>2. IInv /\ [Next]_vars => IInv'
  BY NextKeeps, StutterKeeps
<1> QED
  BY <1>1, <1>2, PTL DEF Spec

\* No lock count wraps and no more items wait than there is room: every
\* variable keeps its type, whatever tasks and interrupts do to the queue.
THEOREM TypeCorrect == LocksDoNotWrap => (Spec => []TypeOK)
PROOF
<1> SUFFICES ASSUME LocksDoNotWrap
             PROVE  Spec => []TypeOK
  OBVIOUS
<1>1. IInv => TypeOK
  BY TypeFromIInv
<1> QED
  BY <1>1, Inductive, PTL

\* Every task is on one list, once: no wake-up, timeout or unlock loses one.
THEOREM SleepersCorrect == LocksDoNotWrap => (Spec => []SleepersAreOnOneList)
PROOF
<1> SUFFICES ASSUME LocksDoNotWrap
             PROVE  Spec => []SleepersAreOnOneList
  OBVIOUS
<1>1. IInv => SleepersAreOnOneList
  BY PropertiesFromIInv
<1> QED
  BY <1>1, Inductive, PTL

\* No receiver sleeps beside an item nobody comes for, as long as the eight-bit
\* lock counts do not wrap.
THEOREM ReceiversCorrect == LocksDoNotWrap => (Spec => []NoReceiverIsForgotten)
PROOF
<1> SUFFICES ASSUME LocksDoNotWrap
             PROVE  Spec => []NoReceiverIsForgotten
  OBVIOUS
<1>1. IInv => NoReceiverIsForgotten
  BY PropertiesFromIInv
<1> QED
  BY <1>1, Inductive, PTL

\* No sender sleeps beside room nobody comes for, unless the queue was reset.
THEOREM SendersCorrect == LocksDoNotWrap => (Spec => []NoSenderIsForgotten)
PROOF
<1> SUFFICES ASSUME LocksDoNotWrap
             PROVE  Spec => []NoSenderIsForgotten
  OBVIOUS
<1>1. IInv => NoSenderIsForgotten
  BY PropertiesFromIInv
<1> QED
  BY <1>1, Inductive, PTL

-----------------------------------------------------------------------------
(* The ring implements the bounded channel of module Channel.  The arith-  *)
(* metic of the ring is proved about constants first, so that the steps    *)
(* only have to name the ring before and after.                            *)

\* A ring of L slots s, read behind slot r.
Slot(L, i, n) == IF i + n >= L THEN i + n - L ELSE i + n
Before(L, i) == IF i = 0 THEN L - 1 ELSE i - 1
Ring(L, s, r, m) == [n \in 1 .. m |-> s[Slot(L, r, n)]]

\* The slot the next item at the back goes to.
Free(L, r, m) == Slot(L, Slot(L, r, 1), m)

\* The ring holds m elements of S.
RingState(L, S, s, r, m) ==
  L \in Nat \ {0} /\ s \in [0 .. L - 1 -> S] /\ r \in 0 .. L - 1 /\ m \in 0 .. L

\* u is s with x in slot w.
Written(L, S, s, u, w, x) ==
  /\ u \in [0 .. L - 1 -> S] /\ x \in S /\ u[w] = x
  /\ \A i \in 0 .. L - 1 : i # w => u[i] = s[i]

AllAre(L, s, x) == \A i \in 0 .. L - 1 : s[i] = x

LEMMA Appended ==
  ASSUME NEW S, NEW m \in Nat, NEW f \in [1 .. m + 1 -> S], NEW g \in [1 .. m -> S],
         NEW x \in S, \A i \in 1 .. m : f[i] = g[i], f[m + 1] = x
  PROVE  f = g \o <<x>>
  OBVIOUS

LEMMA Prepended ==
  ASSUME NEW S, NEW m \in Nat, NEW f \in [1 .. m + 1 -> S], NEW g \in [1 .. m -> S],
         NEW x \in S, \A i \in 1 .. m : f[i + 1] = g[i], f[1] = x
  PROVE  f = <<x>> \o g
  OBVIOUS

LEMMA Tailed ==
  ASSUME NEW S, NEW m \in Nat, NEW f \in [1 .. m -> S], NEW g \in [1 .. m + 1 -> S],
         \A i \in 1 .. m : f[i] = g[i + 1]
  PROVE  f = Tail(g) /\ g # <<>> /\ Head(g) = g[1]
  OBVIOUS

LEMMA RingShape ==
  ASSUME NEW L, NEW S, NEW s, NEW r, NEW m, RingState(L, S, s, r, m)
  PROVE  /\ Ring(L, s, r, m) \in [1 .. m -> S]
         /\ Ring(L, s, r, m) \in Seq(S)
         /\ Len(Ring(L, s, r, m)) = m
         /\ \A n \in 1 .. m : Slot(L, r, n) \in 0 .. L - 1
         /\ Free(L, r, m) \in 0 .. L - 1
PROOF
<1> USE DEF RingState
<1>1. \A n \in 1 .. m : Slot(L, r, n) \in 0 .. L - 1
  BY DEF Slot
<1>2. Ring(L, s, r, m) \in [1 .. m -> S]
  BY <1>1 DEF Ring
<1>3. Ring(L, s, r, m) \in Seq(S) /\ Len(Ring(L, s, r, m)) = m
  BY <1>2
<1>4. Free(L, r, m) \in 0 .. L - 1
  BY DEF Free, Slot
<1> QED
  BY <1>1, <1>2, <1>3, <1>4

\* An item written to the free slot is the last of the ring.
LEMMA RingBack ==
  ASSUME NEW L, NEW S, NEW s, NEW r, NEW m, RingState(L, S, s, r, m), m < L,
         NEW w, w = Free(L, r, m),
         NEW x, NEW u, Written(L, S, s, u, w, x)
  PROVE  /\ Ring(L, u, r, m + 1) = Ring(L, s, r, m) \o <<x>>
         /\ Free(L, r, m + 1) = Slot(L, w, 1)
PROOF
<1> USE DEF RingState
<1> DEFINE f == Ring(L, u, r, m + 1)
           g == Ring(L, s, r, m)
<1>1. w \in 0 .. L - 1 /\ w = Slot(L, r, m + 1)
  BY DEF Free, Slot
<1>2. \A n \in 1 .. m : Slot(L, r, n) \in 0 .. L - 1 /\ Slot(L, r, n) # w
  BY DEF Free, Slot
<1>3. Free(L, r, m + 1) = Slot(L, w, 1)
  BY DEF Free, Slot
<1>4. /\ u \in [0 .. L - 1 -> S] /\ x \in S /\ u[w] = x
      /\ \A i \in 0 .. L - 1 : i # w => u[i] = s[i]
      /\ m + 1 \in 0 .. L /\ m \in 0 .. L /\ m \in Nat
  BY DEF Written
<1>5. f \in [1 .. m + 1 -> S] /\ g \in [1 .. m -> S]
  BY <1>4, RingShape
<1>6. \A n \in 1 .. m : f[n] = g[n]
  BY <1>1, <1>2, <1>4 DEF Ring
<1>7. f[m + 1] = x
  BY <1>1, <1>4 DEF Ring
<1>8. f = g \o <<x>>
  <2> HIDE DEF f, g
  <2> QED
    BY <1>4, <1>5, <1>6, <1>7, Appended
<1> QED
  BY <1>3, <1>8

\* An item written to the slot the reader stands on is the first of the ring.
LEMMA RingFront ==
  ASSUME NEW L, NEW S, NEW s, NEW r, NEW m, RingState(L, S, s, r, m), m < L,
         NEW x, NEW u, Written(L, S, s, u, r, x)
  PROVE  /\ Ring(L, u, Before(L, r), m + 1) = <<x>> \o Ring(L, s, r, m)
         /\ Free(L, Before(L, r), m + 1) = Free(L, r, m)
         /\ Before(L, r) \in 0 .. L - 1
PROOF
<1> USE DEF RingState
<1> DEFINE q == Before(L, r)
           f == Ring(L, u, q, m + 1)
           g == Ring(L, s, r, m)
<1>1. q \in 0 .. L - 1 /\ Slot(L, q, 1) = r
  BY DEF Before, Slot
<1>2. \A n \in 1 .. m : /\ Slot(L, r, n) \in 0 .. L - 1 /\ Slot(L, r, n) # r
                        /\ Slot(L, q, n + 1) = Slot(L, r, n)
  BY DEF Before, Slot
<1>3. Free(L, q, m + 1) = Free(L, r, m)
  BY DEF Free, Before, Slot
<1> HIDE DEF q
<1>4. /\ u \in [0 .. L - 1 -> S] /\ x \in S /\ u[r] = x
      /\ \A i \in 0 .. L - 1 : i # r => u[i] = s[i]
      /\ m + 1 \in 0 .. L /\ m \in 0 .. L /\ m \in Nat
  BY DEF Written
<1>5. f \in [1 .. m + 1 -> S] /\ g \in [1 .. m -> S]
  BY <1>1, <1>4, RingShape
<1>6. \A n \in 1 .. m : f[n + 1] = g[n]
  BY <1>1, <1>2, <1>4 DEF Ring
<1>7. f[1] = x
  BY <1>1, <1>4 DEF Ring
<1>8. f = <<x>> \o g
  <2> HIDE DEF f, g
  <2> QED
    BY <1>4, <1>5, <1>6, <1>7, Prepended
<1> QED
  BY <1>1, <1>3, <1>8 DEF q

\* Reading on drops the first item.
LEMMA RingTake ==
  ASSUME NEW L, NEW S, NEW s, NEW r, NEW m, RingState(L, S, s, r, m), m > 0
  PROVE  /\ Ring(L, s, Slot(L, r, 1), m - 1) = Tail(Ring(L, s, r, m))
         /\ Ring(L, s, r, m) # <<>> /\ Head(Ring(L, s, r, m)) = s[Slot(L, r, 1)]
         /\ Free(L, Slot(L, r, 1), m - 1) = Free(L, r, m)
         /\ Slot(L, r, 1) \in 0 .. L - 1
PROOF
<1> USE DEF RingState
<1> DEFINE q == Slot(L, r, 1)
           k == m - 1
           f == Ring(L, s, q, k)
           g == Ring(L, s, r, m)
<1>1. q \in 0 .. L - 1 /\ k \in Nat /\ k \in 0 .. L /\ m = k + 1
  BY DEF Slot
<1>2. \A n \in 1 .. k : Slot(L, q, n) = Slot(L, r, n + 1)
  BY DEF Slot
<1>3. Free(L, q, k) = Free(L, r, m)
  BY DEF Free, Slot
<1>4. f \in [1 .. k -> S] /\ g \in [1 .. k + 1 -> S]
  <2> HIDE DEF q, k
  <2> QED
    BY <1>1, RingShape
<1>5. \A n \in 1 .. k : f[n] = g[n + 1]
  <2> HIDE DEF q, k
  <2> QED
    BY <1>1, <1>2 DEF Ring
<1>6. g[1] = s[q]
  BY <1>1 DEF Ring
<1>7. f = Tail(g) /\ g # <<>> /\ Head(g) = g[1]
  <2> HIDE DEF f, g, k
  <2> QED
    BY <1>1, <1>4, <1>5, Tailed
<1> QED
  BY <1>1, <1>3, <1>6, <1>7

\* A semaphore's ring holds the same in every slot.
LEMMA RingSame ==
  ASSUME NEW L, NEW S, NEW s, NEW r, NEW m, RingState(L, S, s, r, m),
         NEW x, AllAre(L, s, x), NEW n \in 0 .. L
  PROVE  /\ Ring(L, s, r, n) \in [1 .. n -> S]
         /\ \A i \in 1 .. n : Ring(L, s, r, n)[i] = x
PROOF
<1>1. RingState(L, S, s, r, n)
  BY DEF RingState
<1>2. Ring(L, s, r, n) \in [1 .. n -> S] /\ \A i \in 1 .. n : Slot(L, r, i) \in 0 .. L - 1
  BY <1>1, RingShape
<1>3. \A i \in 1 .. n : Ring(L, s, r, n)[i] = x
  BY <1>2 DEF Ring, AllAre
<1> QED
  BY <1>2, <1>3

LEMMA RingGive ==
  ASSUME NEW L, NEW S, NEW s, NEW r, NEW m, RingState(L, S, s, r, m), m < L,
         NEW x, AllAre(L, s, x)
  PROVE  Ring(L, s, r, m + 1) = Ring(L, s, r, m) \o <<x>>
PROOF
<1> DEFINE g == Ring(L, s, r, m)
           f == Ring(L, s, r, m + 1)
<1>1. m \in Nat /\ m \in 0 .. L /\ m + 1 \in 0 .. L /\ m + 1 \in 1 .. m + 1
  BY DEF RingState
<1>2. f \in [1 .. m + 1 -> S] /\ \A i \in 1 .. m + 1 : f[i] = x
  BY <1>1, RingSame
<1>3. g \in [1 .. m -> S] /\ \A i \in 1 .. m : g[i] = x
  BY <1>1, RingSame
<1> HIDE DEF f, g
<1>4. f[m + 1] = x /\ \A i \in 1 .. m : f[i] = g[i]
  BY <1>1, <1>2, <1>3
<1>5. f = g \o <<x>>
  BY <1>1, <1>2, <1>3, <1>4, Appended
<1> QED
  BY <1>5 DEF f, g

LEMMA RingTakeSame ==
  ASSUME NEW L, NEW S, NEW s, NEW r, NEW m, RingState(L, S, s, r, m), m > 0,
         NEW x, AllAre(L, s, x)
  PROVE  /\ Ring(L, s, r, m - 1) = Tail(Ring(L, s, r, m))
         /\ Ring(L, s, r, m) # <<>> /\ Head(Ring(L, s, r, m)) = x
PROOF
<1> DEFINE g == Ring(L, s, r, m)
           k == m - 1
           f == Ring(L, s, r, k)
<1>1. k \in Nat /\ m = k + 1 /\ k \in 0 .. L /\ m \in 0 .. L
  BY DEF RingState
<1> HIDE DEF k
<1>2. f \in [1 .. k -> S] /\ \A i \in 1 .. k : f[i] = x
  BY <1>1, RingSame
<1>3. g \in [1 .. k + 1 -> S] /\ \A i \in 1 .. k + 1 : g[i] = x
  BY <1>1, RingSame
<1> HIDE DEF f, g
<1>4. g[1] = x /\ \A i \in 1 .. k : f[i] = g[i + 1]
  BY <1>1, <1>2, <1>3
<1>5. f = Tail(g) /\ g # <<>> /\ Head(g) = g[1]
  BY <1>1, <1>2, <1>3, <1>4, Tailed
<1> QED
  BY <1>4, <1>5 DEF f, g, k

-----------------------------------------------------------------------------
(* The ring of the queue.                                                  *)

\* A semaphore stores nothing; otherwise the writer stands on the free slot.
RingOK ==
  IF uxItemSize = 0 THEN AllAre(uxLength, storage, NoItem)
  ELSE pcWriteTo = Free(uxLength, pcReadFrom, uxMessagesWaiting)

ChannelStep == Items_!Next \/ UNCHANGED <<uxLength, Contents, delivered>>

LEMMA ContentsIs ==
  /\ Contents = Ring(uxLength, storage, pcReadFrom, uxMessagesWaiting)
  /\ Contents' = Ring(uxLength', storage', pcReadFrom', uxMessagesWaiting')
  BY DEF Contents, Ring, Ahead, Slot

LEMMA RingFacts ==
  ASSUME IInv
  PROVE  /\ uxLength \in Nat \ {0} /\ uxMessagesWaiting \in 0 .. uxLength
         /\ storage \in [0 .. uxLength - 1 -> Items \cup {NoItem}]
         /\ pcReadFrom \in 0 .. uxLength - 1 /\ pcWriteTo \in 0 .. uxLength - 1
         /\ uxItemSize \in {0, 1}
         /\ RingState(uxLength, Items \cup {NoItem}, storage, pcReadFrom, uxMessagesWaiting)
         /\ Len(Contents) = uxMessagesWaiting
PROOF
<1>1. /\ uxLength \in Nat \ {0} /\ uxMessagesWaiting \in 0 .. uxLength
      /\ storage \in [0 .. uxLength - 1 -> Items \cup {NoItem}]
      /\ pcReadFrom \in 0 .. uxLength - 1 /\ pcWriteTo \in 0 .. uxLength - 1
      /\ uxItemSize \in {0, 1}
  BY QueueAssumption DEF IInv, RingType
<1>2. RingState(uxLength, Items \cup {NoItem}, storage, pcReadFrom, uxMessagesWaiting)
  BY <1>1 DEF RingState
<1>3. Len(Contents) = uxMessagesWaiting
  BY <1>2, ContentsIs, RingShape
<1> QED
  BY <1>1, <1>2, <1>3

\* Posting, at the back, at the front or over the item of a mailbox.
LEMMA PostRefines ==
  ASSUME IInv, RingOK, NEW item \in Items \cup {NoItem}, NEW position,
         uxMessagesWaiting < uxLength \/ position = "overwrite",
         position = "overwrite" => uxLength = 1 /\ uxItemSize # 0,
         uxItemSize = 0 => item = NoItem,
         prvCopyDataToQueue(item, position), UNCHANGED kindVars
  PROVE  RingOK' /\ ChannelStep
PROOF
<1> DEFINE L == uxLength
           s == storage
           r == pcReadFrom
           w == pcWriteTo
           m == uxMessagesWaiting
           S == Items \cup {NoItem}
<1>1. /\ L \in Nat \ {0} /\ m \in 0 .. L /\ m \in Nat /\ s \in [0 .. L - 1 -> S]
      /\ r \in 0 .. L - 1 /\ w \in 0 .. L - 1 /\ uxItemSize \in {0, 1} /\ Len(Contents) = m
      /\ RingState(L, S, s, r, m)
  BY RingFacts
<1>2. uxLength' = L /\ uxItemSize' = uxItemSize /\ delivered' = delivered
  BY DEF kindVars, prvCopyDataToQueue
<1>3. Contents = Ring(L, s, r, m) /\ Contents' = Ring(L, storage', pcReadFrom', uxMessagesWaiting')
  BY <1>2, ContentsIs
<1>4. L # 0 /\ m = L => position = "overwrite" /\ L = 1 /\ uxItemSize # 0
  BY <1>1
<1>5. CASE uxItemSize = 0
  <2>1. /\ uxMessagesWaiting' = m + 1 /\ UNCHANGED <<storage, pcWriteTo, pcReadFrom>>
        /\ item = NoItem /\ m < L
    BY <1>1, <1>5 DEF prvCopyDataToQueue
  <2>2. AllAre(L, s, NoItem)
    BY <1>5 DEF RingOK
  <2>3. Ring(L, s, r, m + 1) = Ring(L, s, r, m) \o <<NoItem>>
    <3> HIDE DEF L, s, r, m, S
    <3> QED
      BY <1>1, <2>1, <2>2, RingGive
  <2>4. Contents' = Contents \o <<item>>
    BY <1>3, <2>1, <2>3
  <2>5. Items_!PostBack(item)
    BY <1>1, <1>2, <2>1, <2>4 DEF Items_!PostBack, Items_!Room
  <2>6. RingOK'
    BY <1>2, <1>5, <2>1, <2>2 DEF RingOK
  <2> QED
    BY <1>2, <2>5, <2>6 DEF ChannelStep, Items_!Next
<1>6. CASE uxItemSize # 0 /\ position = "back"
  <2>1. /\ uxMessagesWaiting' = m + 1 /\ storage' = [s EXCEPT ![w] = item]
        /\ pcWriteTo' = Slot(L, w, 1) /\ pcReadFrom' = r /\ m < L /\ m \in 0 .. L - 1
    BY <1>1, <1>6 DEF prvCopyDataToQueue, Ahead, Slot
  <2>2. w = Free(L, r, m)
    BY <1>6 DEF RingOK
  <2>3. Written(L, S, s, storage', w, item)
    BY <1>1, <2>1, <2>2 DEF Written
  <2>4. /\ Ring(L, storage', r, m + 1) = Ring(L, s, r, m) \o <<item>>
        /\ Free(L, r, m + 1) = Slot(L, w, 1)
    <3>1. RingState(L, S, s, r, m) /\ m < L
      BY <1>1, <2>1
    <3> HIDE DEF L, s, r, m, w, S
    <3> QED
      BY <2>2, <2>3, <3>1, RingBack
  <2>5. Contents' = Contents \o <<item>>
    BY <1>3, <2>1, <2>4
  <2>6. Items_!PostBack(item)
    BY <1>1, <1>2, <2>1, <2>5 DEF Items_!PostBack, Items_!Room
  <2>7. RingOK'
    BY <1>2, <1>6, <2>1, <2>4 DEF RingOK
  <2> QED
    BY <1>2, <2>6, <2>7 DEF ChannelStep, Items_!Next
<1>7. CASE uxItemSize # 0 /\ position # "back" /\ m < L
  <2>1. m \in 0 .. L - 1 /\ (position = "overwrite" /\ m > 0 => FALSE)
    BY <1>1, <1>7
  <2>2. uxMessagesWaiting' = m + 1
    BY <2>1, Zenon DEF prvCopyDataToQueue
  <2>3. /\ storage' = [s EXCEPT ![r] = item] /\ pcReadFrom' = Before(L, r) /\ pcWriteTo' = w
    BY <1>7 DEF prvCopyDataToQueue, Behind, Before
  <2>4. Written(L, S, s, storage', r, item)
    BY <1>1, <2>3 DEF Written
  <2>5. /\ Ring(L, storage', Before(L, r), m + 1) = <<item>> \o Ring(L, s, r, m)
        /\ Free(L, Before(L, r), m + 1) = Free(L, r, m)
    <3> HIDE DEF L, s, r, m, w, S
    <3> QED
      BY <1>1, <1>7, <2>4, RingFront
  <2>6. Contents' = <<item>> \o Contents
    BY <1>3, <2>2, <2>3, <2>5
  <2>7. Items_!PostFront(item)
    BY <1>1, <1>2, <1>7, <2>6 DEF Items_!PostFront, Items_!Room
  <2>8. RingOK'
    BY <1>2, <1>7, <2>2, <2>3, <2>5 DEF RingOK
  <2> QED
    BY <1>2, <2>7, <2>8 DEF ChannelStep, Items_!Next
<1>8. CASE m = L
  <2>1. position = "overwrite" /\ position # "back" /\ L = 1 /\ uxItemSize # 0 /\ m = 1
    BY <1>1, <1>4, <1>8
  <2>2. uxMessagesWaiting' = 1
    BY <2>1 DEF prvCopyDataToQueue
  <2>3. r = 0 /\ w = 0 /\ Before(L, r) = 0
    BY <1>1, <2>1 DEF Before
  <2>4. storage' = [s EXCEPT ![0] = item] /\ pcReadFrom' = 0 /\ pcWriteTo' = 0
    BY <2>1, <2>3 DEF prvCopyDataToQueue, Behind, Before
  <2>5. Ring(1, [s EXCEPT ![0] = item], 0, 1) = <<item>>
    <3>1. [s EXCEPT ![0] = item][0] = item
      BY <1>1, <2>3
    <3>2. Slot(1, 0, 1) = 0
      BY DEF Slot
    <3> HIDE DEF s
    <3>3. \A n \in 1 .. 1 : [s EXCEPT ![0] = item][Slot(1, 0, n)] = item
      BY <3>1, <3>2
    <3> QED
      BY <3>3 DEF Ring
  <2>6. Contents' = <<item>>
    BY <1>3, <2>1, <2>2, <2>4, <2>5
  <2>7. Items_!Overwrite(item)
    BY <1>2, <2>1, <2>6 DEF Items_!Overwrite
  <2>8. Free(1, 0, 1) = 0
    BY DEF Free, Slot
  <2>9. RingOK'
    BY <1>2, <2>1, <2>2, <2>4, <2>8 DEF RingOK
  <2> QED
    BY <1>2, <2>7, <2>9 DEF ChannelStep, Items_!Next
<1> QED
  BY <1>1, <1>5, <1>6, <1>7, <1>8

\* Taking the first item, or looking at it.
LEMMA CopyRefines ==
  ASSUME IInv, RingOK, NEW takes \in BOOLEAN, uxMessagesWaiting > 0,
         prvCopyDataFromQueue(takes), UNCHANGED kindVars
  PROVE  RingOK' /\ ChannelStep
PROOF
<1> DEFINE L == uxLength
           s == storage
           r == pcReadFrom
           m == uxMessagesWaiting
           S == Items \cup {NoItem}
<1>1. /\ L \in Nat \ {0} /\ m \in 1 .. L /\ m \in 0 .. L /\ s \in [0 .. L - 1 -> S]
      /\ r \in 0 .. L - 1 /\ uxItemSize \in {0, 1} /\ RingState(L, S, s, r, m)
  BY RingFacts
<1>2. /\ uxLength' = L /\ uxItemSize' = uxItemSize
      /\ storage' = s /\ pcWriteTo' = pcWriteTo
  BY DEF kindVars, prvCopyDataFromQueue
<1>3. Contents = Ring(L, s, r, m) /\ Contents' = Ring(L, s, pcReadFrom', uxMessagesWaiting')
  BY <1>2, ContentsIs
<1>4. CASE uxItemSize = 0
  <2>1. pcReadFrom' = r /\ delivered' = s[r]
    BY <1>4 DEF prvCopyDataFromQueue
  <2>2. AllAre(L, s, NoItem)
    BY <1>4 DEF RingOK
  <2>3. /\ Ring(L, s, r, m - 1) = Tail(Ring(L, s, r, m))
        /\ Ring(L, s, r, m) # <<>> /\ Head(Ring(L, s, r, m)) = NoItem
    <3>1. m > 0 /\ RingState(L, S, s, r, m)
      BY <1>1
    <3> HIDE DEF L, s, r, m, S
    <3> QED
      BY <2>2, <3>1, RingTakeSame
  <2>4. s[r] = NoItem
    BY <1>1, <2>2 DEF AllAre
  <2>5. Items_!Take \/ Items_!Look
    <3>1. CASE takes
      <4>1. uxMessagesWaiting' = m - 1
        BY <3>1 DEF prvCopyDataFromQueue
      <4> QED
        BY <1>3, <2>1, <2>3, <2>4, <4>1 DEF Items_!Take
    <3>2. CASE ~takes
      <4>1. uxMessagesWaiting' = m
        BY <3>2 DEF prvCopyDataFromQueue
      <4> QED
        BY <1>3, <2>1, <2>3, <2>4, <4>1 DEF Items_!Look
    <3> QED
      BY <3>1, <3>2
  <2>6. RingOK'
    BY <1>2, <1>4, <2>2 DEF RingOK
  <2> QED
    BY <1>2, <2>5, <2>6 DEF ChannelStep, Items_!Next
<1>5. CASE uxItemSize # 0
  <2>1. /\ Ring(L, s, Slot(L, r, 1), m - 1) = Tail(Ring(L, s, r, m))
        /\ Ring(L, s, r, m) # <<>> /\ Head(Ring(L, s, r, m)) = s[Slot(L, r, 1)]
        /\ Free(L, Slot(L, r, 1), m - 1) = Free(L, r, m)
    <3> HIDE DEF L, s, r, m, S
    <3> QED
      BY <1>1, RingTake
  <2>2. pcWriteTo = Free(L, r, m)
    BY <1>5 DEF RingOK
  <2>3. delivered' = s[Slot(L, r, 1)]
    BY <1>5 DEF prvCopyDataFromQueue, Ahead, Slot
  <2>4. CASE takes
    <3>1. uxMessagesWaiting' = m - 1 /\ pcReadFrom' = Slot(L, r, 1)
      BY <1>5, <2>4 DEF prvCopyDataFromQueue, Ahead, Slot
    <3>2. Items_!Take
      BY <1>3, <2>1, <2>3, <3>1 DEF Items_!Take
    <3>3. RingOK'
      BY <1>2, <1>5, <2>1, <2>2, <3>1 DEF RingOK
    <3> QED
      BY <1>2, <3>2, <3>3 DEF ChannelStep, Items_!Next
  <2>5. CASE ~takes
    <3>1. uxMessagesWaiting' = m /\ pcReadFrom' = r
      BY <2>5 DEF prvCopyDataFromQueue
    <3>2. Items_!Look
      BY <1>3, <2>1, <2>3, <3>1 DEF Items_!Look
    <3>3. RingOK'
      BY <1>2, <1>5, <2>2, <3>1 DEF RingOK
    <3> QED
      BY <1>2, <3>2, <3>3 DEF ChannelStep, Items_!Next
  <2> QED
    BY <2>4, <2>5
<1> QED
  BY <1>4, <1>5

\* Steps that leave the ring alone.
LEMMA SameRing ==
  ASSUME RingOK, UNCHANGED <<kindVars, ringVars>>
  PROVE  RingOK' /\ ChannelStep
PROOF
<1>1. /\ UNCHANGED <<uxItemSize, uxLength, storage, pcWriteTo, pcReadFrom>>
      /\ UNCHANGED <<uxMessagesWaiting, delivered>>
  BY DEF kindVars, ringVars
<1>2. Contents' = Contents
  BY <1>1, ContentsIs
<1> QED
  BY <1>1, <1>2 DEF RingOK, ChannelStep

-----------------------------------------------------------------------------
(* The steps.                                                              *)

\* Whoever is in a call makes one that fits the queue.
CallsFit == \A t \in Tasks : pc[t] = "idle" \/ Fits(call[t])

CInv == IInv /\ RingOK /\ CallsFit

LEMMA SameCalls ==
  ASSUME CallsFit, UNCHANGED kindVars, UNCHANGED <<pc, call>>
  PROVE  CallsFit'
  BY DEF kindVars, Fits, CallsFit

LEMMA MovedCalls ==
  ASSUME IInv, CallsFit, UNCHANGED kindVars, NEW t \in Tasks,
         NEW q, pc' = [pc EXCEPT ![t] = q],
         NEW c, call' = [call EXCEPT ![t] = c], q = "idle" \/ Fits(c)
  PROVE  CallsFit'
PROOF
<1>1. /\ pc \in [Tasks -> Places] /\ DOMAIN call = Tasks
  BY DEF IInv, CallType
<1>2. \A u \in Tasks : /\ pc'[u] = IF u = t THEN q ELSE pc[u]
                       /\ call'[u] = IF u = t THEN c ELSE call[u]
  BY <1>1
<1>3. \A u \in Tasks : pc'[u] = "idle" \/ Fits(call'[u])
  BY <1>2 DEF CallsFit
<1>4. ASSUME NEW u \in Tasks
      PROVE  (Fits(call[u]))' <=> Fits(call'[u])
  BY DEF kindVars, Fits
<1> QED
  BY <1>3, <1>4 DEF CallsFit

LEMMA ReturnFits ==
  ASSUME IInv, CallsFit, UNCHANGED kindVars, NEW t \in Tasks, Return(t)
  PROVE  CallsFit'
  BY MovedCalls DEF Return

\* A look by a running task.
LEMMA LookRefines ==
  ASSUME CInv, NEW t \in Tasks,
         \/ xQueueGenericSend(t) \/ xQueueReceive(t) \/ xQueueSemaphoreTake(t)
         \/ xQueuePeek(t)
  PROVE  RingOK' /\ CallsFit' /\ ChannelStep
PROOF
<1> USE DEF CInv
<1>1. PICK c \in CallsOf(t) :
        SentBy(t, c) \/ TakenBy(t, c) \/ PeekedBy(t, c) \/ GivenUpBy(t, c)
  BY LooksAre
<1>2. Look(t, c) /\ UNCHANGED kindVars /\ c.api \in Receivers \cup {"xQueueGenericSend"}
  BY <1>1 DEF SentBy, TakenBy, PeekedBy, GivenUpBy, Look, LookFrame
<1>3. Fits(c)
  BY DEF CallsOf, CallsFit
<1>4. CASE SentBy(t, c)
  <2>1. c \in Sends
    BY <1>2, <1>4, LookFacts DEF SentBy
  <2>2. /\ c.item \in Items \cup {NoItem}
        /\ c.position = "overwrite" => uxLength = 1 /\ uxItemSize # 0
        /\ uxItemSize = 0 => c.item = NoItem
    BY <1>3, <2>1 DEF Fits, Sends
  <2> QED
    BY <1>2, <1>4, <2>2, PostRefines, ReturnFits DEF SentBy
<1>5. CASE TakenBy(t, c)
  BY <1>2, <1>5, CopyRefines, ReturnFits DEF TakenBy
<1>6. CASE PeekedBy(t, c)
  BY <1>2, <1>6, CopyRefines, ReturnFits DEF PeekedBy
<1>7. CASE GivenUpBy(t, c)
  <2>1. UNCHANGED <<kindVars, ringVars>>
    BY <1>2, <1>7 DEF GivenUpBy, GiveUpOrWait
  <2>2. \/ Return(t)
        \/ pc' = [pc EXCEPT ![t] = "suspend"] /\ call' = [call EXCEPT ![t] = c]
    BY <1>7 DEF GivenUpBy, GiveUpOrWait
  <2>3. CallsFit'
    BY <1>2, <1>3, <2>2, ReturnFits, MovedCalls
  <2> QED
    BY <2>1, <2>3, SameRing
<1> QED
  BY <1>1, <1>4, <1>5, <1>6, <1>7

LEMMA ResetRefines ==
  ASSUME CInv, NEW t \in Tasks, xQueueGenericReset(t)
  PROVE  RingOK' /\ CallsFit' /\ ChannelStep
PROOF
<1>1. /\ uxMessagesWaiting' = 0 /\ pcWriteTo' = 0 /\ pcReadFrom' = uxLength - 1
      /\ UNCHANGED <<kindVars, storage, delivered, callVars>>
  BY DEF xQueueGenericReset
<1>2. uxLength' = uxLength /\ uxItemSize' = uxItemSize /\ uxLength \in Nat \ {0}
  BY <1>1, RingFacts DEF CInv, kindVars
<1>3. Free(uxLength, uxLength - 1, 0) = 0
  BY <1>2 DEF Free, Slot
<1>4. RingOK'
  BY <1>1, <1>2, <1>3 DEF CInv, RingOK
<1>5. Ring(uxLength, storage, uxLength - 1, 0) = <<>>
  BY DEF Ring
<1>6. Contents' = <<>>
  BY <1>1, <1>2, <1>5, ContentsIs
<1>7. Items_!Clear
  BY <1>1, <1>6 DEF Items_!Clear
<1>8. CallsFit'
  BY <1>1, SameCalls DEF CInv, callVars
<1> QED
  BY <1>2, <1>4, <1>7, <1>8 DEF ChannelStep, Items_!Next

\* The other steps of a task leave the ring alone.
LEMMA RestRefines ==
  ASSUME CInv, NEW t \in Tasks,
         \/ vTaskSuspendAll(t) \/ prvLockQueue(t) \/ CheckTimeOut(t)
         \/ vTaskPlaceOnEventList(t) \/ prvUnlockQueue(t) \/ UnlockRx(t)
         \/ xTaskResumeAll(t) \/ RecheckEmpty(t)
  PROVE  RingOK' /\ CallsFit' /\ ChannelStep
PROOF
<1> USE DEF CInv
<1>1. UNCHANGED <<kindVars, ringVars>>
  BY DEF vTaskSuspendAll, prvLockQueue, CheckTimeOut, vTaskPlaceOnEventList, prvUnlockQueue,
         UnlockRx, xTaskResumeAll, RecheckEmpty
<1>2. CASE vTaskSuspendAll(t) \/ prvLockQueue(t) \/ vTaskPlaceOnEventList(t)
           \/ prvUnlockQueue(t) \/ UnlockRx(t)
  <2>1. UNCHANGED callVars
    BY <1>2 DEF vTaskSuspendAll, prvLockQueue, vTaskPlaceOnEventList, prvUnlockQueue, UnlockRx
  <2> QED
    BY <1>1, <2>1, SameCalls, SameRing DEF callVars
<1>3. CASE CheckTimeOut(t)
  <2>1. PICK q : pc' = [pc EXCEPT ![t] = q]
    BY <1>3 DEF CheckTimeOut
  <2>2. PICK c : /\ call' = [call EXCEPT ![t] = c]
                 /\ c.api = call[t].api /\ c.item = call[t].item
                 /\ c.position = call[t].position
    BY <1>3, CheckedCalls
  <2>3. Fits(call[t])
    BY <1>3 DEF CheckTimeOut, InRegion, IInv, RegionOK, CallsFit
  <2>4. Fits(c)
    BY <2>2, <2>3 DEF Fits
  <2> QED
    BY <1>1, <2>1, <2>2, <2>4, MovedCalls, SameRing
<1>4. CASE xTaskResumeAll(t)
  <2>1. Return(t) \/ UNCHANGED callVars
    BY <1>4 DEF xTaskResumeAll
  <2> QED
    BY <1>1, <2>1, ReturnFits, SameCalls, SameRing DEF callVars
<1>5. CASE RecheckEmpty(t)
  <2>1. Return(t) \/ (pc' = [pc EXCEPT ![t] = "try"] /\ call' = call)
    BY <1>5 DEF RecheckEmpty
  <2>2. call = [call EXCEPT ![t] = call[t]]
    BY DEF IInv, CallType
  <2>3. Fits(call[t])
    BY <1>5 DEF RecheckEmpty, CallsFit
  <2>4. CallsFit'
    BY <1>1, <2>1, <2>2, <2>3, MovedCalls, ReturnFits
  <2> QED
    BY <1>1, <2>4, SameRing
<1> QED
  BY <1>2, <1>3, <1>4, <1>5

LEMMA InterruptRefines ==
  ASSUME CInv, Interrupt
  PROVE  RingOK' /\ CallsFit' /\ ChannelStep
PROOF
<1> USE DEF CInv
<1>1. UNCHANGED kindVars /\ UNCHANGED <<pc, call>>
  BY DEF Interrupt, xQueueGenericSendFromISR, xQueueGiveFromISR, xQueueReceiveFromISR,
         xQueuePeekFromISR, xTaskIncrementTick, callVars
<1>2. CallsFit'
  BY <1>1, SameCalls
<1>3. CASE xQueueGenericSendFromISR
  <2>1. PICK item \in Items, position \in {"back", "front", "overwrite"} :
          /\ position = "overwrite" => uxLength = 1
          /\ uxMessagesWaiting < uxLength \/ position = "overwrite"
          /\ prvCopyDataToQueue(item, position)
    BY <1>3, Zenon DEF xQueueGenericSendFromISR
  <2>2. uxItemSize # 0 /\ item \in Items \cup {NoItem}
    BY <1>3 DEF xQueueGenericSendFromISR
  <2> QED
    BY <1>1, <1>2, <2>1, <2>2, PostRefines
<1>4. CASE xQueueGiveFromISR
  <2>1. /\ uxItemSize = 0 /\ uxMessagesWaiting < uxLength
        /\ uxMessagesWaiting' = uxMessagesWaiting + 1
        /\ UNCHANGED <<storage, pcWriteTo, pcReadFrom, delivered>>
    BY <1>4 DEF xQueueGiveFromISR
  <2>2. prvCopyDataToQueue(NoItem, "back")
    BY <2>1 DEF prvCopyDataToQueue
  <2> QED
    BY <1>1, <1>2, <2>1, <2>2, PostRefines
<1>5. CASE xQueueReceiveFromISR
  <2>1. uxMessagesWaiting > 0 /\ prvCopyDataFromQueue(TRUE)
    BY <1>5 DEF xQueueReceiveFromISR
  <2> QED
    BY <1>1, <1>2, <2>1, CopyRefines
<1>6. CASE xQueuePeekFromISR
  <2>1. uxMessagesWaiting > 0 /\ prvCopyDataFromQueue(FALSE)
    BY <1>6 DEF xQueuePeekFromISR
  <2> QED
    BY <1>1, <1>2, <2>1, CopyRefines
<1>7. CASE \E t \in Tasks : xTaskIncrementTick(t)
  <2>1. UNCHANGED <<kindVars, ringVars>>
    BY <1>7 DEF xTaskIncrementTick
  <2> QED
    BY <1>2, <2>1, SameRing
<1> QED
  BY <1>3, <1>4, <1>5, <1>6, <1>7 DEF Interrupt

LEMMA StepRefines ==
  ASSUME CInv, [Next]_vars
  PROVE  RingOK' /\ CallsFit' /\ ChannelStep
PROOF
<1>1. CASE UNCHANGED vars
  <2>1. UNCHANGED <<kindVars, ringVars>> /\ UNCHANGED <<pc, call>>
    BY <1>1 DEF vars, callVars
  <2> QED
    BY <2>1, SameRing, SameCalls DEF CInv
<1>2. CASE Interrupt
  BY <1>2, InterruptRefines
<1>3. ASSUME NEW t \in Tasks, TaskStep(t)
      PROVE  RingOK' /\ CallsFit' /\ ChannelStep
  BY <1>3, LookRefines, ResetRefines, RestRefines DEF TaskStep
<1> QED
  BY <1>1, <1>2, <1>3 DEF Next

LEMMA InitRefines ==
  ASSUME Init
  PROVE  RingOK /\ CallsFit /\ Items_!Init
PROOF
<1>1. /\ uxLength \in Lengths /\ uxLength \in Nat \ {0}
      /\ uxMessagesWaiting \in IF uxItemSize = 0 THEN 0 .. uxLength ELSE {0}
      /\ storage = [i \in 0 .. uxLength - 1 |-> NoItem]
      /\ pcWriteTo = 0 /\ pcReadFrom = uxLength - 1 /\ delivered = NoItem
  BY QueueAssumption DEF Init, xQueueGenericCreate
<1>2. Free(uxLength, uxLength - 1, 0) = 0
  BY <1>1 DEF Free, Slot
<1>3. RingOK
  <2>1. AllAre(uxLength, storage, NoItem)
    BY <1>1 DEF AllAre
  <2>2. pcWriteTo = Free(uxLength, pcReadFrom, uxMessagesWaiting) \/ uxItemSize = 0
    BY <1>1, <1>2
  <2> QED
    BY <2>1, <2>2 DEF RingOK
<1>4. \A n \in 1 .. uxMessagesWaiting : Slot(uxLength, pcReadFrom, n) \in 0 .. uxLength - 1
  BY <1>1 DEF Slot
<1>5. Contents = [i \in 1 .. uxMessagesWaiting |-> NoItem]
  BY <1>1, <1>4, ContentsIs DEF Ring
<1>6. uxMessagesWaiting \in 0 .. uxLength
  BY <1>1
<1>7. Items_!Init
  BY <1>1, <1>5, <1>6 DEF Items_!Init
<1>8. CallsFit
  BY DEF Init, CallsFit
<1> QED
  BY <1>3, <1>7, <1>8

\* Whatever tasks and interrupts do, the queue is a bounded sequence of items:
\* each step posts at one end, takes or reads the first item, drops them all,
\* or leaves the sequence and what was handed over alone.
THEOREM ChannelCorrect == LocksDoNotWrap => (Spec => IsChannel)
PROOF
<1> SUFFICES ASSUME LocksDoNotWrap
             PROVE  Spec => IsChannel
  OBVIOUS
<1>1. Init => CInv /\ Items_!Init
  BY InitIInv, InitRefines DEF CInv
<1>2. CInv /\ [Next]_vars => CInv'
  BY NextKeeps, StutterKeeps, StepRefines DEF CInv
<1>3. CInv /\ [Next]_vars => [Items_!Next]_<<uxLength, Contents, delivered>>
  BY StepRefines DEF ChannelStep
<1> QED
  BY <1>1, <1>2, <1>3, PTL DEF Spec, IsChannel, Items_!Spec, Items_!vars
=============================================================================
