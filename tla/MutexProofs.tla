---------------------------- MODULE MutexProofs ----------------------------
(***************************************************************************)
(* Theorems about Mutex, for any tasks with any priorities, any mutexes,   *)
(* and any depth of recursion: the counts are right, no inherited priority *)
(* stays, no waiter is forgotten, and the holder inherits.                 *)
(***************************************************************************)
EXTENDS Mutex, EventListTheorems

\* A task that counts a recursive take or give holds that mutex.
CallsOK ==
  \A t \in Tasks :
    pc[t] \in {"count", "give"}
      => xMutexHolder[xSemaphore[t]] = t /\ xSemaphore[t] \in RecursiveMutexes

\* A task sleeps on the mutex it takes, and once.
ListsOK ==
  \A m \in Mutexes :
    /\ OnceEach(xTasksWaitingToReceive[m])
    /\ \A t \in WaitersFor(m) : pc[t] = "try" /\ xSemaphore[t] = m

IInv ==
  /\ TypeOK /\ CallsOK /\ ListsOK
  /\ HeldCountMatches /\ CountedWhileHeld /\ NoInheritanceLeft /\ NoWaiterIsForgotten

-----------------------------------------------------------------------------
(* Facts about states.                                                     *)

Held(t) == {m \in Mutexes : xMutexHolder[m] = t}

\* The count of a holder is one or more.
LEMMA HolderCounts ==
  ASSUME TypeOK, HeldCountMatches, NEW t \in Tasks
  PROVE  /\ IsFiniteSet(Held(t)) /\ Cardinality(Held(t)) = uxMutexesHeld[t]
         /\ uxMutexesHeld[t] \in Nat
         /\ uxMutexesHeld[t] = 0 <=> Held(t) = {}
         /\ \A m \in Mutexes : xMutexHolder[m] = t => uxMutexesHeld[t] >= 1
<1>1. IsFiniteSet(Held(t))
  BY MutexAssumption, FS_Subset DEF Held
<1>2. Cardinality(Held(t)) = uxMutexesHeld[t]
  BY DEF HeldCountMatches, Held
<1>3. uxMutexesHeld[t] \in Nat
  BY <1>1, <1>2, FS_CardinalityType
<1>4. uxMutexesHeld[t] = 0 <=> Held(t) = {}
  BY <1>1, <1>2, FS_EmptySet
<1>5. \A m \in Mutexes : xMutexHolder[m] = t => m \in Held(t)
  BY DEF Held
<1> QED
  BY <1>1, <1>2, <1>3, <1>4, <1>5

\* As many as there are mutexes, at most.
LEMMA HeldBound ==
  ASSUME NEW t \in Tasks, NEW f
  PROVE  Cardinality({m \in Mutexes : f[m] = t}) \in 0 .. Cardinality(Mutexes)
<1>1. {m \in Mutexes : f[m] = t} \in SUBSET Mutexes
  OBVIOUS
<1>2. /\ IsFiniteSet({m \in Mutexes : f[m] = t})
      /\ Cardinality({m \in Mutexes : f[m] = t}) <= Cardinality(Mutexes)
  BY <1>1, MutexAssumption, FS_Subset
<1>3. /\ Cardinality({m \in Mutexes : f[m] = t}) \in Nat
      /\ Cardinality(Mutexes) \in Nat
  BY <1>2, MutexAssumption, FS_CardinalityType
<1> QED
  BY <1>2, <1>3

\* A task is on the list of the mutex it takes, or on none.
LEMMA BlockedOnOne ==
  ASSUME ListsOK, NEW t \in Tasks
  PROVE  /\ Blocked(t) => pc[t] = "try"
         /\ \A m \in Mutexes : Blocked(t) /\ xSemaphore[t] = m => t \in WaitersFor(m)
         /\ \A m \in Mutexes : t \in WaitersFor(m) => Blocked(t) /\ xSemaphore[t] = m
  BY DEF ListsOK, Blocked

\* The sizes follow a mutex that is taken, or given back.
IsMoved(f, g, m, u) == \A n \in Mutexes : g[n] = IF n = m THEN u ELSE f[n]

LEMMA HeldTaken ==
  ASSUME NEW f, NEW g, NEW m \in Mutexes, NEW t \in Tasks, f[m] = NoTask,
         IsMoved(f, g, m, t)
  PROVE  /\ Cardinality({n \in Mutexes : g[n] = t}) = Cardinality({n \in Mutexes : f[n] = t}) + 1
         /\ \A u \in Tasks : u # t => {n \in Mutexes : g[n] = u} = {n \in Mutexes : f[n] = u}
<1> DEFINE S == {n \in Mutexes : f[n] = t}
<1>1. IsFiniteSet(S)
  BY MutexAssumption, FS_Subset
<1>2. {n \in Mutexes : g[n] = t} = S \cup {m} /\ m \notin S
  BY MutexAssumption DEF IsMoved
<1>3. \A u \in Tasks : u # t => {n \in Mutexes : g[n] = u} = {n \in Mutexes : f[n] = u}
  BY MutexAssumption DEF IsMoved
<1>4. Cardinality(S \cup {m}) = Cardinality(S) + 1
  BY <1>1, <1>2, FS_AddElement
<1> QED
  BY <1>2, <1>3, <1>4

LEMMA HeldGiven ==
  ASSUME NEW f, NEW g, NEW m \in Mutexes, NEW t \in Tasks, f[m] = t,
         IsMoved(f, g, m, NoTask)
  PROVE  /\ Cardinality({n \in Mutexes : g[n] = t}) = Cardinality({n \in Mutexes : f[n] = t}) - 1
         /\ \A u \in Tasks : u # t => {n \in Mutexes : g[n] = u} = {n \in Mutexes : f[n] = u}
<1> DEFINE S == {n \in Mutexes : f[n] = t}
<1>1. IsFiniteSet(S)
  BY MutexAssumption, FS_Subset
<1>2. {n \in Mutexes : g[n] = t} = S \ {m} /\ m \in S
  BY MutexAssumption DEF IsMoved
<1>3. \A u \in Tasks : u # t => {n \in Mutexes : g[n] = u} = {n \in Mutexes : f[n] = u}
  BY MutexAssumption DEF IsMoved
<1>4. Cardinality(S \ {m}) = Cardinality(S) - 1
  BY <1>1, <1>2, FS_RemoveElement
<1> QED
  BY <1>2, <1>3, <1>4

\* A step that leaves the lists alone, and the tasks that are to try the mutexes
\* that are free after it.
LEMMA ForgottenSame ==
  ASSUME NoWaiterIsForgotten, UNCHANGED xTasksWaitingToReceive,
         \A n \in Mutexes :
           xMutexHolder'[n] = NoTask
             => /\ xMutexHolder[n] = NoTask
                /\ \A u \in Tasks : Awake(u, n) /\ pc[u] = "try"
                                      => pc'[u] = pc[u] /\ xSemaphore'[u] = xSemaphore[u]
  PROVE  NoWaiterIsForgotten'
<1>1. \A u \in Tasks : Blocked(u)' <=> Blocked(u)
  BY DEF Blocked, WaitersFor
<1>2. ASSUME NEW n \in Mutexes, xMutexHolder'[n] = NoTask, xTasksWaitingToReceive'[n] # <<>>
      PROVE  \E u \in Tasks : Awake(u, n)' /\ pc'[u] = "try"
  <2>1. PICK u \in Tasks : Awake(u, n) /\ pc[u] = "try"
    BY <1>2 DEF NoWaiterIsForgotten
  <2>2. pc'[u] = pc[u] /\ xSemaphore'[u] = xSemaphore[u]
    BY <1>2, <2>1
  <2>3. Awake(u, n)'
    BY <1>1, <2>1, <2>2 DEF Awake
  <2> QED
    BY <2>1, <2>2, <2>3
<1> QED
  BY <1>2 DEF NoWaiterIsForgotten

\* A step of a task that is awake, which leaves the lists alone.
LEMMA ListsSame ==
  ASSUME TypeOK, ListsOK, UNCHANGED xTasksWaitingToReceive, NEW t \in Tasks, ~Blocked(t),
         \A u \in Tasks : u # t => pc'[u] = pc[u] /\ xSemaphore'[u] = xSemaphore[u]
  PROVE  ListsOK'
<1>1. ASSUME NEW n \in Mutexes, NEW u \in WaitersFor(n)
      PROVE  pc'[u] = "try" /\ xSemaphore'[u] = n
  <2>1. u \in Tasks
    BY <1>1, ListType DEF WaitersFor, TypeOK
  <2>2. u # t
    BY <1>1 DEF Blocked
  <2>3. pc[u] = "try" /\ xSemaphore[u] = n
    BY <1>1 DEF ListsOK
  <2> QED
    BY <2>1, <2>2, <2>3
<1> QED
  BY <1>1 DEF ListsOK, WaitersFor

-----------------------------------------------------------------------------
(* Every step keeps the invariant.                                          *)

LEMMA TakeKeeps ==
  ASSUME IInv, NEW t \in Tasks, xQueueSemaphoreTake(t)
  PROVE  IInv'
<1>1. PICK take \in TakesOf(t) :
        LET m == take[1] IN
        /\ NoteNesting(t, m) \/ UNCHANGED disturbed
        /\ \/ /\ ~prvIsQueueEmpty(m)
              /\ xMutexHolder' = [xMutexHolder EXCEPT ![m] = t]
              /\ uxMutexesHeld' = [uxMutexesHeld EXCEPT ![t] = @ + 1]
              /\ xSemaphore' = [xSemaphore EXCEPT ![t] = m]
              /\ Return(t, IF m \in RecursiveMutexes THEN "count" ELSE "idle")
           \/ /\ prvIsQueueEmpty(m)
              /\ Return(t, "idle")
              /\ UNCHANGED <<xMutexHolder, uxMutexesHeld, xSemaphore>>
           \/ /\ prvIsQueueEmpty(m)
              /\ xSemaphore' = [xSemaphore EXCEPT ![t] = m]
              /\ xTicksToWait' = [xTicksToWait EXCEPT ![t] = take[2]]
              /\ GoTo(t, "suspend")
              /\ UNCHANGED <<xMutexHolder, uxMutexesHeld, xInheritanceOccurred, expired>>
  BY DEF xQueueSemaphoreTake
<1> DEFINE m == take[1]
<1>2. m \in Mutexes /\ take[2] \in Waits /\ (pc[t] = "try" => m = xSemaphore[t])
  BY MutexAssumption DEF IInv, TypeOK, TakesOf
<1>3. /\ pc[t] \in {"idle", "try"} /\ ~Blocked(t)
      /\ UNCHANGED <<uxRecursiveCallCount, xTasksWaitingToReceive, uxPriority,
                     uxBasePriority, xItemPriority>>
  BY DEF xQueueSemaphoreTake, Runs, prioVars
<1>4. disturbed' \subseteq Mutexes
  BY <1>1, <1>2 DEF NoteNesting, UsedBy, IInv, TypeOK
<1> HIDE DEF m
<1>5. CASE /\ ~prvIsQueueEmpty(m)
           /\ xMutexHolder' = [xMutexHolder EXCEPT ![m] = t]
           /\ uxMutexesHeld' = [uxMutexesHeld EXCEPT ![t] = @ + 1]
           /\ xSemaphore' = [xSemaphore EXCEPT ![t] = m]
           /\ Return(t, IF m \in RecursiveMutexes THEN "count" ELSE "idle")
  <2>1. /\ xMutexHolder[m] = NoTask
        /\ \A n \in Mutexes : xMutexHolder'[n] = IF n = m THEN t ELSE xMutexHolder[n]
    BY <1>2, <1>5 DEF prvIsQueueEmpty, IInv, TypeOK
  <2>2. HeldCountMatches'
    <3>1. /\ Cardinality({n \in Mutexes : xMutexHolder'[n] = t})
               = Cardinality({n \in Mutexes : xMutexHolder[n] = t}) + 1
          /\ \A u \in Tasks : u # t => {n \in Mutexes : xMutexHolder'[n] = u}
                                         = {n \in Mutexes : xMutexHolder[n] = u}
      <4>1. IsMoved(xMutexHolder, xMutexHolder', m, t)
        BY <2>1 DEF IsMoved
      <4> QED
        BY <1>2, <2>1, <4>1, HeldTaken
    <3>2. \A u \in Tasks : uxMutexesHeld'[u] = IF u = t THEN uxMutexesHeld[u] + 1 ELSE uxMutexesHeld[u]
      BY <1>5 DEF IInv, TypeOK
    <3> QED
      BY <3>1, <3>2 DEF IInv, HeldCountMatches
  <2>3. uxMutexesHeld' \in [Tasks -> 0 .. Cardinality(Mutexes)]
    <3>1. \A u \in Tasks : uxMutexesHeld'[u] \in 0 .. Cardinality(Mutexes)
      <4>1. \A u \in Tasks : Cardinality({n \in Mutexes : xMutexHolder'[n] = u})
                               \in 0 .. Cardinality(Mutexes)
        BY HeldBound, Zenon
      <4> QED
        BY <2>2, <4>1, Zenon DEF HeldCountMatches
    <3> QED
      BY <1>5, <3>1 DEF IInv, TypeOK
  <2>4. TypeOK'
    BY <1>2, <1>3, <1>4, <1>5, <2>3, MutexAssumption DEF IInv, TypeOK, Return, GoTo, Waits, Places
  <2>5. CallsOK'
    BY <1>2, <1>3, <1>5, <2>1, MutexAssumption DEF IInv, TypeOK, CallsOK, Return, GoTo
  <2>6. ListsOK'
    BY <1>3, <1>5, BlockedOnOne DEF IInv, TypeOK, ListsOK, WaitersFor, Return, GoTo
  <2>7. CountedWhileHeld'
    BY <1>2, <1>3, <1>5, <2>1, MutexAssumption DEF IInv, TypeOK, CountedWhileHeld, Return, GoTo
  <2>8. NoInheritanceLeft'
    BY <1>3, <1>5, <2>3 DEF IInv, TypeOK, NoInheritanceLeft
  <2>9. NoWaiterIsForgotten'
    <3>1. \A u \in Tasks : (u # t => pc'[u] = pc[u] /\ xSemaphore'[u] = xSemaphore[u])
      BY <1>5 DEF IInv, TypeOK, Return, GoTo
    <3>2. xMutexHolder'[m] # NoTask /\ \A n \in Mutexes : n # m => xMutexHolder'[n] = xMutexHolder[n]
      BY <1>2, <2>1, MutexAssumption
    <3>3. \A u \in Tasks, n \in Mutexes :
            Awake(u, n) /\ pc[u] = "try" => u # t \/ n = m
      BY <1>2 DEF Awake
    <3> QED
      BY <1>3, <3>1, <3>2, <3>3, ForgottenSame DEF IInv
  <2> QED
    BY <2>2, <2>4, <2>5, <2>6, <2>7, <2>8, <2>9 DEF IInv
<1>7. CASE /\ prvIsQueueEmpty(m)
           /\ Return(t, "idle")
           /\ UNCHANGED <<xMutexHolder, uxMutexesHeld, xSemaphore>>
  <2>1. TypeOK'
    BY <1>2, <1>3, <1>4, <1>7 DEF IInv, TypeOK, Return, GoTo, Places, Waits
  <2>2. CallsOK'
    BY <1>7 DEF IInv, TypeOK, CallsOK, Return, GoTo
  <2>3. \A u \in Tasks : (u # t => pc'[u] = pc[u] /\ xSemaphore'[u] = xSemaphore[u])
    BY <1>7 DEF IInv, TypeOK, Return, GoTo
  <2>4. ListsOK'
    BY <1>3, <2>3, ListsSame DEF IInv
  <2>5. CountedWhileHeld'
    BY <1>3, <1>7 DEF IInv, TypeOK, CountedWhileHeld, Return, GoTo
  <2>6. HeldCountMatches' /\ NoInheritanceLeft'
    BY <1>3, <1>7 DEF IInv, HeldCountMatches, NoInheritanceLeft
  <2>7. NoWaiterIsForgotten'
    <3>1. xMutexHolder' = xMutexHolder /\ xMutexHolder'[m] # NoTask
      BY <1>7 DEF prvIsQueueEmpty
    <3>2. \A u \in Tasks, n \in Mutexes :
            Awake(u, n) /\ pc[u] = "try" => u # t \/ n = m
      BY <1>2 DEF Awake
    <3> QED
      BY <1>3, <2>3, <3>1, <3>2, ForgottenSame DEF IInv
  <2> QED
    BY <2>1, <2>2, <2>4, <2>5, <2>6, <2>7 DEF IInv
<1>6. CASE /\ prvIsQueueEmpty(m)
           /\ xSemaphore' = [xSemaphore EXCEPT ![t] = m]
           /\ xTicksToWait' = [xTicksToWait EXCEPT ![t] = take[2]]
           /\ GoTo(t, "suspend")
           /\ UNCHANGED <<xMutexHolder, uxMutexesHeld, xInheritanceOccurred, expired>>
  <2>1. TypeOK'
    BY <1>2, <1>3, <1>4, <1>6 DEF IInv, TypeOK, GoTo, Places
  <2>2. CallsOK'
    BY <1>6 DEF IInv, TypeOK, CallsOK, GoTo
  <2>3. ListsOK'
    BY <1>3, <1>6, BlockedOnOne DEF IInv, TypeOK, ListsOK, WaitersFor, GoTo
  <2>4. CountedWhileHeld'
    BY <1>3, <1>6 DEF IInv, TypeOK, CountedWhileHeld, GoTo
  <2>5. HeldCountMatches' /\ NoInheritanceLeft'
    BY <1>3, <1>6 DEF IInv, HeldCountMatches, NoInheritanceLeft
  <2>6. NoWaiterIsForgotten'
    <3>1. \A u \in Tasks : (u # t => pc'[u] = pc[u] /\ xSemaphore'[u] = xSemaphore[u])
      BY <1>6 DEF IInv, TypeOK, GoTo
    <3>2. xMutexHolder' = xMutexHolder /\ xMutexHolder'[m] # NoTask
      BY <1>6 DEF prvIsQueueEmpty
    <3>3. \A u \in Tasks, n \in Mutexes :
            Awake(u, n) /\ pc[u] = "try" => u # t \/ n = m
      BY <1>2 DEF Awake
    <3> QED
      BY <1>3, <3>1, <3>2, <3>3, ForgottenSame DEF IInv
  <2> QED
    BY <2>1, <2>2, <2>3, <2>4, <2>5, <2>6 DEF IInv
<1> QED
  BY <1>1, <1>5, <1>6, <1>7 DEF m
\* The holder is raised, if there is one to raise.
LEMMA InheritEffect ==
  ASSUME TypeOK, NEW h \in Tasks, NEW t \in Tasks, xTaskPriorityInherit(h, t)
  PROVE  /\ uxPriority' \in [Tasks -> Priorities] /\ xItemPriority' \in [Tasks -> Priorities]
         /\ xInheritanceOccurred' \in [Tasks -> BOOLEAN]
         /\ \A u \in Tasks : u # h => uxPriority'[u] = uxPriority[u]
                                      /\ xItemPriority'[u] = xItemPriority[u]
         /\ uxPriority'[h] >= uxPriority[h] /\ uxPriority'[h] >= uxPriority[t]
         /\ \/ uxPriority'[h] = uxPriority[h] /\ xItemPriority'[h] = xItemPriority[h]
            \/ uxPriority'[h] = xItemPriority'[h]
<1>1. /\ uxPriority \in [Tasks -> Priorities] /\ xItemPriority \in [Tasks -> Priorities]
      /\ uxPriority[h] \in Int /\ uxPriority[t] \in Int /\ uxPriority[t] \in Priorities
      /\ xInheritanceOccurred \in [Tasks -> BOOLEAN]
  BY MutexAssumption DEF TypeOK, Priorities
<1>2. xInheritanceOccurred' \in [Tasks -> BOOLEAN]
  BY <1>1 DEF xTaskPriorityInherit
<1>3. CASE uxPriority[h] < uxPriority[t]
  <2>1. /\ uxPriority' = [uxPriority EXCEPT ![h] = uxPriority[t]]
        /\ xItemPriority' = [xItemPriority EXCEPT ![h] = uxPriority[t]]
    BY <1>3 DEF xTaskPriorityInherit
  <2>2. uxPriority' \in [Tasks -> Priorities] /\ xItemPriority' \in [Tasks -> Priorities]
    BY <1>1, <2>1
  <2>3. /\ uxPriority'[h] = uxPriority[t] /\ xItemPriority'[h] = uxPriority[t]
        /\ \A u \in Tasks : u # h => uxPriority'[u] = uxPriority[u]
                                     /\ xItemPriority'[u] = xItemPriority[u]
    BY <1>1, <2>1
  <2> QED
    BY <1>1, <1>2, <1>3, <2>2, <2>3
<1>4. CASE ~(uxPriority[h] < uxPriority[t])
  <2>1. uxPriority' = uxPriority /\ xItemPriority' = xItemPriority
    BY <1>4 DEF xTaskPriorityInherit
  <2> QED
    BY <1>1, <1>2, <1>4, <2>1
<1> QED
  BY <1>3, <1>4

LEMMA BlockKeeps ==
  ASSUME IInv, NEW t \in Tasks, BlockOnMutex(t)
  PROVE  IInv'
<1> DEFINE m == xSemaphore[t]
<1>1. /\ pc[t] = "suspend" /\ ~Blocked(t) /\ m \in Mutexes
      /\ UNCHANGED <<xMutexHolder, uxRecursiveCallCount, uxBasePriority, uxMutexesHeld,
                     xSemaphore, expired, disturbed>>
      /\ xTicksToWait' \in [Tasks -> Waits]
      /\ GoTo(t, IF t \in expired THEN "recheck" ELSE "try")
  BY DEF BlockOnMutex, Runs, mutexVars, IInv, TypeOK, Waits
<1>2. \/ /\ t \notin expired /\ prvIsQueueEmpty(m)
         /\ xTaskPriorityInherit(xMutexHolder[m], t) /\ PlaceOnEventList(t, m)
      \/ UNCHANGED <<uxPriority, xItemPriority, xInheritanceOccurred, xTasksWaitingToReceive>>
  BY DEF BlockOnMutex
<1> HIDE DEF m
<1>3. pc' \in [Tasks -> Places] /\ \A u \in Tasks : u # t => pc'[u] = pc[u]
  BY <1>1 DEF IInv, TypeOK, GoTo, Places
<1>4. CallsOK' /\ HeldCountMatches' /\ CountedWhileHeld'
  <2>1. CallsOK'
    BY <1>1 DEF IInv, TypeOK, CallsOK, GoTo
  <2>2. HeldCountMatches'
    BY <1>1 DEF IInv, HeldCountMatches
  <2>3. CountedWhileHeld'
    BY <1>1 DEF IInv, TypeOK, CountedWhileHeld, GoTo
  <2> QED
    BY <2>1, <2>2, <2>3
<1>5. CASE /\ t \notin expired /\ prvIsQueueEmpty(m)
           /\ xTaskPriorityInherit(xMutexHolder[m], t) /\ PlaceOnEventList(t, m)
  <2> DEFINE h == xMutexHolder[m]
             new == vListInsert(xTasksWaitingToReceive[m], t, xItemPriority)
  <2>1. h \in Tasks
    BY <1>1, <1>5 DEF prvIsQueueEmpty, IInv, TypeOK
  <2>2. /\ xTasksWaitingToReceive[m] \in Seq(Tasks) /\ OnceEach(xTasksWaitingToReceive[m])
        /\ t \notin Waiters(xTasksWaitingToReceive[m])
    BY <1>1, BlockedOnOne DEF IInv, TypeOK, ListsOK, WaitersFor
  <2>3. /\ new \in Seq(Tasks) /\ OnceEach(new)
        /\ Waiters(new) = Waiters(xTasksWaitingToReceive[m]) \cup {t}
    BY <2>2, InsertWaits
  <2>4. xTasksWaitingToReceive' = [xTasksWaitingToReceive EXCEPT ![m] = new]
    BY <1>5 DEF PlaceOnEventList
  <2>5. /\ uxPriority' \in [Tasks -> Priorities] /\ xItemPriority' \in [Tasks -> Priorities]
        /\ xInheritanceOccurred' \in [Tasks -> BOOLEAN]
        /\ \A u \in Tasks : u # h => uxPriority'[u] = uxPriority[u]
    BY <1>5, <2>1, InheritEffect DEF IInv
  <2> HIDE DEF h, new
  <2>6. TypeOK'
    BY <1>1, <1>3, <2>3, <2>4, <2>5 DEF IInv, TypeOK
  <2>7. pc'[t] = "try" /\ xSemaphore'[t] = m
    BY <1>1, <1>5 DEF IInv, TypeOK, GoTo, m
  <2>8. ListsOK'
    <3>1. ASSUME NEW n \in Mutexes
          PROVE  /\ OnceEach(xTasksWaitingToReceive'[n])
                 /\ Waiters(xTasksWaitingToReceive'[n])
                      = IF n = m THEN WaitersFor(n) \cup {t} ELSE WaitersFor(n)
      BY <1>1, <2>3, <2>4 DEF IInv, TypeOK, ListsOK, WaitersFor
    <3>2. WaitersFor(m) \subseteq Tasks
      BY <2>2, ListType DEF WaitersFor
    <3>3. ASSUME NEW n \in Mutexes, NEW u \in WaitersFor(n)
          PROVE  u \in Tasks /\ u # t /\ pc'[u] = "try" /\ xSemaphore'[u] = n
      <4>1. u \in Tasks
        BY <1>1, <3>3, ListType DEF WaitersFor, IInv, TypeOK
      <4>2. pc[u] = "try" /\ xSemaphore[u] = n
        BY <3>3 DEF IInv, ListsOK
      <4> QED
        BY <1>1, <1>3, <4>1, <4>2
    <3>4. ASSUME NEW n \in Mutexes, NEW u \in Waiters(xTasksWaitingToReceive'[n])
          PROVE  pc'[u] = "try" /\ xSemaphore'[u] = n
      <4>1. CASE u \in WaitersFor(n)
        BY <3>3, <4>1
      <4>2. CASE n = m /\ u = t
        BY <2>7, <4>2
      <4> QED
        BY <3>1, <3>4, <4>1, <4>2
    <3>5. \A n \in Mutexes : OnceEach(xTasksWaitingToReceive'[n])
      BY <3>1
    <3> QED
      BY <3>4, <3>5, Zenon DEF ListsOK, WaitersFor
  <2>9. NoInheritanceLeft'
    <3>1. uxMutexesHeld[h] >= 1
      BY <1>1, <2>1, HolderCounts DEF h, IInv
    <3> QED
      BY <1>1, <2>5, <3>1 DEF IInv, NoInheritanceLeft
  <2>10. NoWaiterIsForgotten'
    <3>1. ASSUME NEW n \in Mutexes, xMutexHolder'[n] = NoTask, xTasksWaitingToReceive'[n] # <<>>
          PROVE  \E u \in Tasks : Awake(u, n)' /\ pc'[u] = "try"
      <4>1. n # m /\ xMutexHolder[n] = NoTask
        BY <1>1, <1>5, <3>1 DEF prvIsQueueEmpty
      <4>2. xTasksWaitingToReceive'[n] = xTasksWaitingToReceive[n]
        BY <2>4, <4>1 DEF IInv, TypeOK
      <4>3. PICK u \in Tasks : Awake(u, n) /\ pc[u] = "try"
        BY <3>1, <4>1, <4>2 DEF IInv, NoWaiterIsForgotten
      <4>4. u # t /\ pc'[u] = "try" /\ xSemaphore'[u] = n
        BY <1>1, <1>3, <4>3 DEF Awake
      <4>5. \A k \in Mutexes : u \notin Waiters(xTasksWaitingToReceive'[k])
        BY <2>3, <2>4, <4>3, <4>4 DEF IInv, TypeOK, Awake, Blocked, WaitersFor
      <4> QED
        BY <4>4, <4>5 DEF Awake, Blocked, WaitersFor
    <3> QED
      BY <3>1 DEF NoWaiterIsForgotten
  <2> QED
    BY <1>4, <2>6, <2>8, <2>9, <2>10 DEF IInv
<1>6. CASE UNCHANGED <<uxPriority, xItemPriority, xInheritanceOccurred, xTasksWaitingToReceive>>
  <2>1. TypeOK'
    BY <1>1, <1>3, <1>6 DEF IInv, TypeOK
  <2>2. ListsOK' /\ NoWaiterIsForgotten'
    <3>1. ListsOK'
      BY <1>1, <1>3, <1>6, ListsSame DEF IInv
    <3>2. NoWaiterIsForgotten'
      BY <1>1, <1>3, <1>6, ForgottenSame DEF IInv
    <3> QED
      BY <3>1, <3>2
  <2>3. NoInheritanceLeft'
    BY <1>1, <1>6 DEF IInv, NoInheritanceLeft
  <2> QED
    BY <1>4, <2>1, <2>2, <2>3 DEF IInv
<1> QED
  BY <1>2, <1>5, <1>6
LEMMA RecheckKeeps ==
  ASSUME IInv, NEW t \in Tasks, RecheckEmpty(t)
  PROVE  IInv'
<1>1. /\ pc[t] = "recheck" /\ ~Blocked(t)
      /\ UNCHANGED <<xMutexHolder, uxRecursiveCallCount, xTasksWaitingToReceive, uxPriority,
                     uxBasePriority, xItemPriority, uxMutexesHeld, xSemaphore>>
  BY DEF RecheckEmpty, Runs, mutexVars, prioVars
<1>2. PICK place \in {"try", "disinherit", "idle"} : GoTo(t, place)
  BY DEF RecheckEmpty, Return
<1>3. pc' \in [Tasks -> Places] /\ pc'[t] = place /\ \A u \in Tasks : u # t => pc'[u] = pc[u]
  BY <1>2 DEF IInv, TypeOK, GoTo, Places
<1>4. /\ xTicksToWait' \in [Tasks -> Waits] /\ xInheritanceOccurred' \in [Tasks -> BOOLEAN]
      /\ expired' \subseteq Tasks /\ disturbed' \subseteq Mutexes
  BY DEF RecheckEmpty, Return, Waiting, NoteOvertaken, IInv, TypeOK, Waits
<1>5. TypeOK'
  BY <1>1, <1>3, <1>4 DEF IInv, TypeOK
<1>6. CallsOK'
  BY <1>1, <1>3 DEF IInv, CallsOK
<1>7. ListsOK' /\ NoWaiterIsForgotten'
  <2>1. ListsOK'
    BY <1>1, <1>3, ListsSame DEF IInv
  <2>2. NoWaiterIsForgotten'
    BY <1>1, <1>3, ForgottenSame DEF IInv
  <2> QED
    BY <2>1, <2>2
<1>8. CountedWhileHeld'
  BY <1>1, <1>3, MutexAssumption DEF IInv, TypeOK, CountedWhileHeld
<1>9. HeldCountMatches' /\ NoInheritanceLeft'
  BY <1>1 DEF IInv, HeldCountMatches, NoInheritanceLeft
<1> QED
  BY <1>5, <1>6, <1>7, <1>8, <1>9 DEF IInv

\* The holder falls, if at all, to its base priority or that of the first waiter.
LEMMA TimeoutEffect ==
  ASSUME TypeOK, NEW h \in Tasks \cup {NoTask}, NEW waiting \in Priorities,
         vTaskPriorityDisinheritAfterTimeout(h, waiting)
  PROVE  /\ uxPriority' \in [Tasks -> Priorities] /\ xItemPriority' \in [Tasks -> Priorities]
         /\ \A u \in Tasks : u # h \/ uxMutexesHeld[u] # 1
                               => uxPriority'[u] = uxPriority[u] /\ xItemPriority'[u] = xItemPriority[u]
         /\ h \in Tasks
              => \/ uxPriority'[h] = uxPriority[h] /\ xItemPriority'[h] = xItemPriority[h]
                 \/ uxPriority'[h] = xItemPriority'[h]
         /\ h \in Tasks /\ uxMutexesHeld[h] = 1 => uxPriority'[h] >= waiting
<1> DEFINE use == Greater(uxBasePriority[h], waiting)
<1>1. CASE h # NoTask /\ uxPriority[h] # use /\ uxMutexesHeld[h] = 1
  <2>1. h \in Tasks /\ use \in Priorities /\ use >= waiting
    BY <1>1, MutexAssumption DEF TypeOK, Greater, Priorities
  <2>2. /\ uxPriority' = [uxPriority EXCEPT ![h] = use]
        /\ xItemPriority' = [xItemPriority EXCEPT ![h] = use]
    BY <1>1 DEF vTaskPriorityDisinheritAfterTimeout
  <2> HIDE DEF use
  <2>3. uxPriority' \in [Tasks -> Priorities] /\ xItemPriority' \in [Tasks -> Priorities]
    BY <2>1, <2>2 DEF TypeOK
  <2>4. /\ uxPriority'[h] = use /\ xItemPriority'[h] = use
        /\ \A u \in Tasks : u # h => uxPriority'[u] = uxPriority[u]
                                     /\ xItemPriority'[u] = xItemPriority[u]
    BY <2>1, <2>2 DEF TypeOK
  <2> QED
    BY <1>1, <2>1, <2>3, <2>4
<1>2. CASE ~(h # NoTask /\ uxPriority[h] # use /\ uxMutexesHeld[h] = 1)
  <2>1. uxPriority' = uxPriority /\ xItemPriority' = xItemPriority
    BY <1>2 DEF vTaskPriorityDisinheritAfterTimeout
  <2>2. h \in Tasks /\ uxMutexesHeld[h] = 1 => uxPriority[h] = use /\ use >= waiting
    BY <1>2, MutexAssumption DEF TypeOK, Greater, Priorities
  <2> HIDE DEF use
  <2> QED
    BY <2>1, <2>2 DEF TypeOK
<1> QED
  BY <1>1, <1>2

LEMMA HeadType ==
  ASSUME TypeOK, NEW m \in Mutexes
  PROVE  /\ prvGetDisinheritPriorityAfterTimeout(m) \in Priorities
         /\ xTasksWaitingToReceive[m] # <<>> => Head(xTasksWaitingToReceive[m]) \in Tasks
<1>1. xTasksWaitingToReceive[m] \in Seq(Tasks)
  BY DEF TypeOK
<1>2. 0 \in Priorities
  BY MutexAssumption DEF Priorities
<1>3. xTasksWaitingToReceive[m] # <<>> => Head(xTasksWaitingToReceive[m]) \in Tasks
  BY <1>1
<1> QED
  BY <1>2, <1>3 DEF TypeOK, prvGetDisinheritPriorityAfterTimeout

LEMMA DisinheritKeeps ==
  ASSUME IInv, NEW t \in Tasks, DisinheritAfterTimeout(t)
  PROVE  IInv'
<1> DEFINE m == xSemaphore[t]
           h == xMutexHolder[m]
<1>1. /\ pc[t] = "disinherit" /\ ~Blocked(t) /\ m \in Mutexes
      /\ UNCHANGED <<xMutexHolder, uxRecursiveCallCount, xTasksWaitingToReceive,
                     uxBasePriority, uxMutexesHeld, xSemaphore, disturbed>>
      /\ Return(t, "idle")
  BY DEF DisinheritAfterTimeout, Runs, mutexVars, IInv, TypeOK
<1>2. /\ uxPriority' \in [Tasks -> Priorities] /\ xItemPriority' \in [Tasks -> Priorities]
      /\ \A u \in Tasks : u # h \/ uxMutexesHeld[u] # 1 => uxPriority'[u] = uxPriority[u]
  <2>1. prvGetDisinheritPriorityAfterTimeout(m) \in Priorities
    BY <1>1, HeadType DEF IInv
  <2>2. h \in Tasks \cup {NoTask}
    BY <1>1 DEF IInv, TypeOK
  <2>3. vTaskPriorityDisinheritAfterTimeout(h, prvGetDisinheritPriorityAfterTimeout(m))
    BY DEF DisinheritAfterTimeout
  <2> HIDE DEF h, m
  <2> QED
    BY <2>1, <2>2, <2>3, TimeoutEffect DEF IInv
<1> HIDE DEF m, h
<1>3. /\ pc' \in [Tasks -> Places] /\ pc'[t] = "idle" /\ \A u \in Tasks : u # t => pc'[u] = pc[u]
      /\ xTicksToWait' \in [Tasks -> Waits] /\ xInheritanceOccurred' \in [Tasks -> BOOLEAN]
      /\ expired' \subseteq Tasks
  BY <1>1 DEF IInv, TypeOK, Return, GoTo, Places, Waits
<1>4. TypeOK'
  BY <1>1, <1>2, <1>3 DEF IInv, TypeOK
<1>5. CallsOK'
  BY <1>1, <1>3 DEF IInv, CallsOK
<1>6. ListsOK' /\ NoWaiterIsForgotten'
  <2>1. ListsOK'
    BY <1>1, <1>3, ListsSame DEF IInv
  <2>2. NoWaiterIsForgotten'
    BY <1>1, <1>3, ForgottenSame DEF IInv
  <2> QED
    BY <2>1, <2>2
<1>7. CountedWhileHeld'
  BY <1>1, <1>3, MutexAssumption DEF IInv, TypeOK, CountedWhileHeld
<1>8. HeldCountMatches' /\ NoInheritanceLeft'
  BY <1>1, <1>2 DEF IInv, HeldCountMatches, NoInheritanceLeft
<1> QED
  BY <1>4, <1>5, <1>6, <1>7, <1>8 DEF IInv

\* The lists after a step that takes t off them.
LEMMA TickKeeps ==
  ASSUME IInv, NEW t \in Tasks, xTaskIncrementTick(t)
  PROVE  IInv'
<1>1. /\ expired' = expired \cup {t}
      /\ UNCHANGED <<xMutexHolder, uxRecursiveCallCount, uxPriority, uxBasePriority,
                     xItemPriority, uxMutexesHeld, pc, xSemaphore, xTicksToWait,
                     xInheritanceOccurred, disturbed>>
  BY DEF xTaskIncrementTick, mutexVars, prioVars
<1>2. /\ xTasksWaitingToReceive' \in [Mutexes -> Seq(Tasks)]
      /\ \A n \in Mutexes : /\ OnceEach(xTasksWaitingToReceive'[n])
                            /\ Waiters(xTasksWaitingToReceive'[n]) = WaitersFor(n) \ {t}
  <2>1. xTasksWaitingToReceive' = [n \in Mutexes |-> uxListRemove(xTasksWaitingToReceive[n], t)]
    BY DEF xTaskIncrementTick
  <2>2. ASSUME NEW n \in Mutexes
        PROVE  LET new == uxListRemove(xTasksWaitingToReceive[n], t) IN
               new \in Seq(Tasks) /\ OnceEach(new) /\ Waiters(new) = WaitersFor(n) \ {t}
    BY RemoveWaits DEF IInv, TypeOK, ListsOK, WaitersFor
  <2> QED
    BY <2>1, <2>2
<1>3. TypeOK'
  BY <1>1, <1>2 DEF IInv, TypeOK
<1>4. CallsOK' /\ CountedWhileHeld'
  BY <1>1 DEF IInv, CallsOK, CountedWhileHeld
<1>5. HeldCountMatches' /\ NoInheritanceLeft'
  BY <1>1 DEF IInv, HeldCountMatches, NoInheritanceLeft
<1>6. ListsOK'
  <2>1. \A n \in Mutexes : \A u \in WaitersFor(n)' : pc'[u] = "try" /\ xSemaphore'[u] = n
    BY <1>1, <1>2 DEF IInv, ListsOK, WaitersFor
  <2> QED
    BY <1>2, <2>1, Zenon DEF ListsOK
<1>7. NoWaiterIsForgotten'
  <2>1. ASSUME NEW n \in Mutexes, xMutexHolder'[n] = NoTask, xTasksWaitingToReceive'[n] # <<>>
        PROVE  \E u \in Tasks : Awake(u, n)' /\ pc'[u] = "try"
    <3>1. xTasksWaitingToReceive[n] # <<>>
      <4>1. /\ xTasksWaitingToReceive[n] \in Seq(Tasks)
            /\ xTasksWaitingToReceive'[n] \in Seq(Tasks)
        BY <1>2 DEF IInv, TypeOK
      <4>2. Waiters(xTasksWaitingToReceive'[n]) # {}
        BY <2>1, <4>1, ListType
      <4>3. Waiters(xTasksWaitingToReceive[n]) # {}
        BY <1>2, <4>2 DEF WaitersFor
      <4> QED
        BY <4>1, <4>3, ListType
    <3>2. PICK u \in Tasks : Awake(u, n) /\ pc[u] = "try"
      BY <1>1, <2>1, <3>1 DEF IInv, NoWaiterIsForgotten
    <3>3. \A k \in Mutexes : u \notin Waiters(xTasksWaitingToReceive'[k])
      BY <1>2, <3>2 DEF Awake, Blocked
    <3> QED
      BY <1>1, <3>2, <3>3 DEF Awake, Blocked, WaitersFor
  <2> QED
    BY <2>1 DEF NoWaiterIsForgotten
<1> QED
  BY <1>3, <1>4, <1>5, <1>6, <1>7 DEF IInv
\* The recursive count is in range, since a holder that is not about to count
\* has a count.
LEMMA CountKeeps ==
  ASSUME IInv, NEW t \in Tasks, xQueueTakeMutexRecursive(t)
  PROVE  IInv'
<1>1. PICK m \in RecursiveMutexes :
        /\ xMutexHolder[m] = t /\ ~Blocked(t)
        /\ \/ pc[t] = "count" /\ m = xSemaphore[t]
           \/ pc[t] = "idle" /\ uxRecursiveCallCount[m] < MaxDepth
        /\ uxRecursiveCallCount' = [uxRecursiveCallCount EXCEPT ![m] = @ + 1]
  BY DEF xQueueTakeMutexRecursive, Runs
<1>2. /\ m \in Mutexes /\ uxRecursiveCallCount[m] \in 0 .. MaxDepth /\ MaxDepth \in Nat \ {0}
      /\ GoTo(t, "idle")
      /\ UNCHANGED <<xMutexHolder, xTasksWaitingToReceive, uxPriority, uxBasePriority,
                     xItemPriority, uxMutexesHeld, xSemaphore, xTicksToWait,
                     xInheritanceOccurred, expired, disturbed>>
  BY MutexAssumption DEF xQueueTakeMutexRecursive, prioVars, IInv, TypeOK
<1>3. pc' \in [Tasks -> Places] /\ pc'[t] = "idle" /\ \A u \in Tasks : u # t => pc'[u] = pc[u]
  BY <1>2 DEF IInv, TypeOK, GoTo, Places
<1>4. pc[t] = "count" /\ m = xSemaphore[t] => uxRecursiveCallCount[m] = 0
  BY <1>1, <1>2 DEF IInv, CountedWhileHeld
<1>5. /\ uxRecursiveCallCount' \in [Mutexes -> 0 .. MaxDepth]
      /\ uxRecursiveCallCount'[m] # 0
      /\ \A n \in Mutexes : n # m => uxRecursiveCallCount'[n] = uxRecursiveCallCount[n]
  BY <1>1, <1>2, <1>4 DEF IInv, TypeOK
<1>6. TypeOK'
  BY <1>2, <1>3, <1>5 DEF IInv, TypeOK
<1>7. CallsOK'
  BY <1>2, <1>3 DEF IInv, CallsOK
<1>8. ListsOK' /\ NoWaiterIsForgotten'
  <2>1. pc[t] # "try"
    BY <1>1
  <2>2. ListsOK'
    BY <1>1, <1>2, <1>3, ListsSame DEF IInv
  <2>3. NoWaiterIsForgotten'
    BY <1>2, <1>3, <2>1, ForgottenSame DEF IInv
  <2> QED
    BY <2>2, <2>3
<1>9. CountedWhileHeld'
  <2>1. ASSUME NEW n \in RecursiveMutexes, n # m
        PROVE  /\ pc'[xMutexHolder[n]] \in {"count", "give"} /\ xSemaphore[xMutexHolder[n]] = n
                    /\ xMutexHolder[n] # NoTask
                 <=> /\ pc[xMutexHolder[n]] \in {"count", "give"} /\ xSemaphore[xMutexHolder[n]] = n
                     /\ xMutexHolder[n] # NoTask
    <3>1. xMutexHolder[n] \in Tasks \cup {NoTask}
      BY MutexAssumption DEF IInv, TypeOK
    <3>2. CASE xMutexHolder[n] = t
      BY <1>1, <1>3, <2>1, <3>2
    <3> QED
      BY <1>3, <3>1, <3>2
  <2> QED
    BY <1>1, <1>2, <1>3, <1>5, <2>1, MutexAssumption DEF IInv, CountedWhileHeld
<1>10. HeldCountMatches' /\ NoInheritanceLeft'
  BY <1>2 DEF IInv, HeldCountMatches, NoInheritanceLeft
<1> QED
  BY <1>6, <1>7, <1>8, <1>9, <1>10 DEF IInv

LEMMA GiveRecursiveKeeps ==
  ASSUME IInv, NEW t \in Tasks, xQueueGiveMutexRecursive(t)
  PROVE  IInv'
<1>1. PICK m \in RecursiveMutexes :
        /\ xMutexHolder[m] = t
        /\ uxRecursiveCallCount' = [uxRecursiveCallCount EXCEPT ![m] = @ - 1]
        /\ IF uxRecursiveCallCount[m] = 1
           THEN GoTo(t, "give") /\ xSemaphore' = [xSemaphore EXCEPT ![t] = m]
           ELSE UNCHANGED <<pc, xSemaphore>>
  BY DEF xQueueGiveMutexRecursive
<1>2. /\ m \in Mutexes /\ uxRecursiveCallCount[m] \in 0 .. MaxDepth /\ MaxDepth \in Nat \ {0}
      /\ pc[t] = "idle" /\ ~Blocked(t)
      /\ UNCHANGED <<xMutexHolder, xTasksWaitingToReceive, uxPriority, uxBasePriority,
                     xItemPriority, uxMutexesHeld, xTicksToWait,
                     xInheritanceOccurred, expired, disturbed>>
  BY MutexAssumption DEF xQueueGiveMutexRecursive, Runs, prioVars, IInv, TypeOK
<1>3. /\ pc' \in [Tasks -> Places] /\ xSemaphore' \in [Tasks -> Mutexes]
      /\ \A u \in Tasks : u # t => pc'[u] = pc[u] /\ xSemaphore'[u] = xSemaphore[u]
      /\ \/ uxRecursiveCallCount[m] = 1 /\ pc'[t] = "give" /\ xSemaphore'[t] = m
         \/ uxRecursiveCallCount[m] # 1 /\ pc'[t] = "idle"
  BY <1>1, <1>2 DEF IInv, TypeOK, GoTo, Places
<1>4. uxRecursiveCallCount[m] # 0
  BY <1>1, <1>2, MutexAssumption DEF IInv, CountedWhileHeld
<1>5. /\ uxRecursiveCallCount' \in [Mutexes -> 0 .. MaxDepth]
      /\ uxRecursiveCallCount'[m] # 0 <=> uxRecursiveCallCount[m] # 1
      /\ \A n \in Mutexes : n # m => uxRecursiveCallCount'[n] = uxRecursiveCallCount[n]
  BY <1>1, <1>2, <1>4 DEF IInv, TypeOK
<1>6. TypeOK'
  BY <1>2, <1>3, <1>5 DEF IInv, TypeOK
<1>7. CallsOK'
  BY <1>1, <1>2, <1>3 DEF IInv, CallsOK
<1>8. ListsOK' /\ NoWaiterIsForgotten'
  <2>1. ListsOK'
    BY <1>2, <1>3, ListsSame DEF IInv
  <2>2. NoWaiterIsForgotten'
    BY <1>2, <1>3, ForgottenSame DEF IInv
  <2> QED
    BY <2>1, <2>2
<1>9. CountedWhileHeld'
  <2>1. ASSUME NEW n \in RecursiveMutexes
        PROVE  uxRecursiveCallCount'[n] # 0
                 <=> /\ xMutexHolder'[n] # NoTask
                     /\ ~(/\ pc'[xMutexHolder'[n]] \in {"count", "give"}
                          /\ xSemaphore'[xMutexHolder'[n]] = n)
    <3>1. xMutexHolder'[n] = xMutexHolder[n] /\ xMutexHolder[n] \in Tasks \cup {NoTask} /\ n \in Mutexes
      BY <1>2, MutexAssumption DEF IInv, TypeOK
    <3>2. CASE n = m
      BY <1>1, <1>3, <1>5, <3>1, <3>2, MutexAssumption
    <3>3. CASE n # m
      <4>1. uxRecursiveCallCount[n] # 0
              <=> /\ xMutexHolder[n] # NoTask
                  /\ ~(/\ pc[xMutexHolder[n]] \in {"count", "give"}
                       /\ xSemaphore[xMutexHolder[n]] = n)
        BY DEF IInv, CountedWhileHeld
      <4>2. CASE xMutexHolder[n] = t
        BY <1>2, <1>3, <1>5, <3>1, <3>3, <4>1, <4>2
      <4>3. CASE xMutexHolder[n] # t
        BY <1>3, <1>5, <3>1, <3>3, <4>1, <4>3
      <4> QED
        BY <4>2, <4>3
    <3> QED
      BY <3>2, <3>3
  <2> QED
    BY <2>1 DEF CountedWhileHeld
<1>10. HeldCountMatches' /\ NoInheritanceLeft'
  BY <1>2 DEF IInv, HeldCountMatches, NoInheritanceLeft
<1> QED
  BY <1>6, <1>7, <1>8, <1>9, <1>10 DEF IInv

LEMMA SetKeeps ==
  ASSUME IInv, NEW t \in Tasks, NEW p \in Priorities, vTaskPrioritySet(t, p)
  PROVE  IInv'
<1>1. UNCHANGED <<xMutexHolder, uxRecursiveCallCount, xTasksWaitingToReceive, uxMutexesHeld,
                  pc, xSemaphore, xTicksToWait, xInheritanceOccurred, expired>>
  BY DEF vTaskPrioritySet, mutexVars, takeVars
<1>2. /\ uxPriority' \in [Tasks -> Priorities] /\ uxBasePriority' \in [Tasks -> Priorities]
      /\ xItemPriority' \in [Tasks -> Priorities] /\ disturbed' \subseteq Mutexes
      /\ \A u \in Tasks : uxPriority[u] = uxBasePriority[u] => uxPriority'[u] = uxBasePriority'[u]
  BY DEF vTaskPrioritySet, UsedBy, IInv, TypeOK
<1>3. TypeOK'
  BY <1>1, <1>2 DEF IInv, TypeOK
<1>4. CallsOK' /\ CountedWhileHeld' /\ HeldCountMatches' /\ NoInheritanceLeft'
  <2>1. CallsOK' /\ CountedWhileHeld'
    BY <1>1 DEF IInv, CallsOK, CountedWhileHeld
  <2>2. HeldCountMatches' /\ NoInheritanceLeft'
    BY <1>1, <1>2 DEF IInv, HeldCountMatches, NoInheritanceLeft
  <2> QED
    BY <2>1, <2>2
<1>5. ListsOK'
  BY <1>1 DEF IInv, ListsOK, WaitersFor
<1>6. NoWaiterIsForgotten'
  BY <1>1, ForgottenSame DEF IInv
<1> QED
  BY <1>3, <1>4, <1>5, <1>6 DEF IInv

\* The count falls by one, and the last mutex given back takes the inherited
\* priority with it.
LEMMA DisinheritEffect ==
  ASSUME TypeOK, NEW t \in Tasks, xTaskPriorityDisinherit(t)
  PROVE  /\ uxPriority' \in [Tasks -> Priorities] /\ xItemPriority' \in [Tasks -> Priorities]
         /\ \A u \in Tasks : u # t => /\ uxPriority'[u] = uxPriority[u]
                                      /\ xItemPriority'[u] = xItemPriority[u]
                                      /\ uxMutexesHeld'[u] = uxMutexesHeld[u]
         /\ uxMutexesHeld'[t] = uxMutexesHeld[t] - 1
         /\ DOMAIN uxMutexesHeld' = Tasks /\ uxMutexesHeld' = [u \in Tasks |-> uxMutexesHeld'[u]]
         /\ uxMutexesHeld[t] = 1 => uxPriority'[t] = uxBasePriority[t]
         /\ \/ uxPriority'[t] = uxPriority[t] /\ xItemPriority'[t] = xItemPriority[t]
            \/ uxPriority'[t] = xItemPriority'[t]
<1>1. uxMutexesHeld' = [uxMutexesHeld EXCEPT ![t] = @ - 1]
  BY DEF xTaskPriorityDisinherit
<1>2. /\ \A u \in Tasks : u # t => uxMutexesHeld'[u] = uxMutexesHeld[u]
      /\ uxMutexesHeld'[t] = uxMutexesHeld[t] - 1
      /\ DOMAIN uxMutexesHeld' = Tasks /\ uxMutexesHeld' = [u \in Tasks |-> uxMutexesHeld'[u]]
  BY <1>1 DEF TypeOK
<1>3. CASE uxMutexesHeld[t] = 1 /\ uxPriority[t] # uxBasePriority[t]
  <2>1. /\ uxPriority' = [uxPriority EXCEPT ![t] = uxBasePriority[t]]
        /\ xItemPriority' = [xItemPriority EXCEPT ![t] = uxBasePriority[t]]
    BY <1>3 DEF xTaskPriorityDisinherit
  <2> QED
    BY <1>2, <2>1 DEF TypeOK
<1>4. CASE ~(uxMutexesHeld[t] = 1 /\ uxPriority[t] # uxBasePriority[t])
  <2>1. uxPriority' = uxPriority /\ xItemPriority' = xItemPriority
    BY <1>4 DEF xTaskPriorityDisinherit
  <2> QED
    BY <1>2, <1>4, <2>1 DEF TypeOK
<1> QED
  BY <1>3, <1>4
\* Which mutex a send gives back, and who is woken.
Gives(t, m) ==
  /\ xMutexHolder[m] = t /\ ~Blocked(t)
  /\ \/ pc[t] = "idle" /\ m \notin RecursiveMutexes
     \/ pc[t] = "give" /\ m = xSemaphore[t]
  /\ xMutexHolder' = [xMutexHolder EXCEPT ![m] = NoTask]
  /\ xTasksWaitingToReceive' =
       [xTasksWaitingToReceive EXCEPT ![m] = IF @ = <<>> THEN @ ELSE AfterFirst(@, 1)]

LEMMA GivesOne ==
  ASSUME NEW t \in Tasks, xQueueGenericSend(t)
  PROVE  \E m \in Mutexes : Gives(t, m)
  BY DEF xQueueGenericSend, Gives, Runs

\* The lists after it.
LEMMA GiveEffect ==
  ASSUME IInv, NEW t \in Tasks, NEW m \in Mutexes, Gives(t, m)
  PROVE  LET list == xTasksWaitingToReceive[m] IN
         /\ xTasksWaitingToReceive' \in [Mutexes -> Seq(Tasks)]
         /\ \A n \in Mutexes : n # m => xTasksWaitingToReceive'[n] = xTasksWaitingToReceive[n]
         /\ OnceEach(xTasksWaitingToReceive'[m])
         /\ \/ list = <<>> /\ xTasksWaitingToReceive'[m] = <<>>
            \/ /\ list # <<>> /\ list[1] \in WaitersFor(m) /\ list[1] \in Tasks
               /\ xTasksWaitingToReceive'[m] = AfterFirst(list, 1)
               /\ Waiters(xTasksWaitingToReceive'[m]) = WaitersFor(m) \ {list[1]}
<1> DEFINE list == xTasksWaitingToReceive[m]
<1>1. list \in Seq(Tasks) /\ OnceEach(list)
  BY DEF IInv, TypeOK, ListsOK
<1>2. CASE list = <<>>
  <2>1. xTasksWaitingToReceive' = [xTasksWaitingToReceive EXCEPT ![m] = list]
    BY <1>2 DEF Gives
  <2>2. xTasksWaitingToReceive' = xTasksWaitingToReceive
    BY <2>1 DEF IInv, TypeOK
  <2> QED
    BY <1>1, <1>2, <2>2 DEF IInv, TypeOK
<1>3. CASE list # <<>>
  <2>1. xTasksWaitingToReceive' = [xTasksWaitingToReceive EXCEPT ![m] = AfterFirst(list, 1)]
    BY <1>3 DEF Gives
  <2>2. /\ 1 \in 0 .. Len(list) /\ FirstOf(list, 1) = {list[1]}
    <3>1. Len(list) \in Nat /\ Len(list) # 0
      BY <1>1, <1>3, ListType
    <3> QED
      BY <3>1 DEF FirstOf
  <2>3. /\ AfterFirst(list, 1) \in Seq(Tasks) /\ OnceEach(AfterFirst(list, 1))
        /\ Waiters(AfterFirst(list, 1)) = Waiters(list) \ FirstOf(list, 1)
        /\ FirstOf(list, 1) \subseteq Waiters(list)
    BY <1>1, <2>2, AfterFirstWaits
  <2>4. Waiters(list) \subseteq Tasks
    BY <1>1, ListType
  <2>5. /\ list[1] \in WaitersFor(m) /\ list[1] \in Tasks
        /\ Waiters(AfterFirst(list, 1)) = WaitersFor(m) \ {list[1]}
    BY <2>2, <2>3, <2>4, Zenon DEF WaitersFor
  <2>6. /\ xTasksWaitingToReceive' \in [Mutexes -> Seq(Tasks)]
        /\ xTasksWaitingToReceive'[m] = AfterFirst(list, 1)
        /\ \A n \in Mutexes : n # m => xTasksWaitingToReceive'[n] = xTasksWaitingToReceive[n]
    BY <2>1, <2>3 DEF IInv, TypeOK
  <2> QED
    BY <1>3, <2>3, <2>5, <2>6
<1> QED
  BY <1>2, <1>3

LEMMA SendKeeps ==
  ASSUME IInv, NEW t \in Tasks, xQueueGenericSend(t)
  PROVE  IInv'
<1>1. PICK m \in Mutexes : Gives(t, m)
  BY GivesOne
<1>2. /\ xTaskPriorityDisinherit(t) /\ GoTo(t, "idle") /\ pc[t] \in {"idle", "give"}
      /\ UNCHANGED <<uxRecursiveCallCount, uxBasePriority, xSemaphore, xTicksToWait,
                     xInheritanceOccurred, expired, disturbed>>
  BY <1>1 DEF xQueueGenericSend, Gives
<1>3. pc' \in [Tasks -> Places] /\ pc'[t] = "idle" /\ \A u \in Tasks : u # t => pc'[u] = pc[u]
  BY <1>2 DEF IInv, TypeOK, GoTo, Places
<1>4. /\ uxPriority' \in [Tasks -> Priorities] /\ xItemPriority' \in [Tasks -> Priorities]
      /\ \A u \in Tasks : u # t => /\ uxPriority'[u] = uxPriority[u]
                                   /\ uxMutexesHeld'[u] = uxMutexesHeld[u]
      /\ uxMutexesHeld'[t] = uxMutexesHeld[t] - 1
      /\ uxMutexesHeld' = [u \in Tasks |-> uxMutexesHeld'[u]]
      /\ uxMutexesHeld[t] = 1 => uxPriority'[t] = uxBasePriority[t]
  BY <1>2, DisinheritEffect DEF IInv
<1>5. /\ xMutexHolder[m] = t /\ xMutexHolder' \in [Mutexes -> Tasks \cup {NoTask}]
      /\ \A n \in Mutexes : xMutexHolder'[n] = IF n = m THEN NoTask ELSE xMutexHolder[n]
  BY <1>1 DEF Gives, IInv, TypeOK
<1>6. HeldCountMatches'
  <2>1. /\ Cardinality({n \in Mutexes : xMutexHolder'[n] = t})
             = Cardinality({n \in Mutexes : xMutexHolder[n] = t}) - 1
        /\ \A u \in Tasks : u # t => {n \in Mutexes : xMutexHolder'[n] = u}
                                       = {n \in Mutexes : xMutexHolder[n] = u}
    <3>1. xMutexHolder[m] = t
      BY <1>5
    <3>2. IsMoved(xMutexHolder, xMutexHolder', m, NoTask)
      BY <1>5 DEF IsMoved
    <3> QED
      BY <3>1, <3>2, HeldGiven
  <2> QED
    BY <1>4, <2>1 DEF IInv, HeldCountMatches
<1>7. uxMutexesHeld' \in [Tasks -> 0 .. Cardinality(Mutexes)]
  <2>1. \A u \in Tasks : Cardinality({n \in Mutexes : xMutexHolder'[n] = u})
                           \in 0 .. Cardinality(Mutexes)
    BY HeldBound, Zenon
  <2>2. \A u \in Tasks : uxMutexesHeld'[u] \in 0 .. Cardinality(Mutexes)
    BY <1>6, <2>1, Zenon DEF HeldCountMatches
  <2> QED
    BY <1>4, <2>2
<1> DEFINE list == xTasksWaitingToReceive[m]
<1>8. /\ xTasksWaitingToReceive' \in [Mutexes -> Seq(Tasks)]
      /\ \A n \in Mutexes : n # m => xTasksWaitingToReceive'[n] = xTasksWaitingToReceive[n]
      /\ OnceEach(xTasksWaitingToReceive'[m])
      /\ \/ list = <<>> /\ xTasksWaitingToReceive'[m] = <<>>
         \/ /\ list # <<>> /\ list[1] \in WaitersFor(m) /\ list[1] \in Tasks
            /\ Waiters(xTasksWaitingToReceive'[m]) = WaitersFor(m) \ {list[1]}
  BY <1>1, GiveEffect
<1> HIDE DEF list
<1>9. TypeOK'
  BY <1>2, <1>3, <1>4, <1>5, <1>7, <1>8 DEF IInv, TypeOK
<1>10. CallsOK'
  <2>1. ASSUME NEW u \in Tasks, pc'[u] \in {"count", "give"}
        PROVE  xMutexHolder'[xSemaphore'[u]] = u /\ xSemaphore'[u] \in RecursiveMutexes
    <3>1. u # t /\ pc'[u] = pc[u] /\ xSemaphore'[u] = xSemaphore[u]
      BY <1>2, <1>3, <2>1
    <3>2. xMutexHolder[xSemaphore[u]] = u /\ xSemaphore[u] \in RecursiveMutexes
      BY <2>1, <3>1 DEF IInv, CallsOK
    <3> QED
      BY <1>5, <3>1, <3>2, MutexAssumption
  <2> QED
    BY <2>1 DEF CallsOK
<1>11. CountedWhileHeld'
  <2>1. m \in RecursiveMutexes => uxRecursiveCallCount[m] = 0
    BY <1>1 DEF Gives, IInv, CountedWhileHeld
  <2>2. ASSUME NEW n \in RecursiveMutexes, n # m
        PROVE  uxRecursiveCallCount'[n] # 0
                 <=> /\ xMutexHolder'[n] # NoTask
                     /\ ~(/\ pc'[xMutexHolder'[n]] \in {"count", "give"}
                          /\ xSemaphore'[xMutexHolder'[n]] = n)
    <3>1. xMutexHolder'[n] = xMutexHolder[n] /\ xMutexHolder[n] \in Tasks \cup {NoTask} /\ n \in Mutexes
      BY <1>5, <2>2, MutexAssumption DEF IInv, TypeOK
    <3>2. uxRecursiveCallCount[n] # 0
            <=> /\ xMutexHolder[n] # NoTask
                /\ ~(/\ pc[xMutexHolder[n]] \in {"count", "give"}
                     /\ xSemaphore[xMutexHolder[n]] = n)
      BY DEF IInv, CountedWhileHeld
    <3>3. CASE xMutexHolder[n] = t
      <4>1. ~(pc[t] \in {"count", "give"} /\ xSemaphore[t] = n)
        BY <1>1, <2>2 DEF Gives
      <4> QED
        BY <1>2, <1>3, <3>1, <3>2, <3>3, <4>1
    <3>4. CASE xMutexHolder[n] # t
      BY <1>2, <1>3, <3>1, <3>2, <3>4
    <3> QED
      BY <3>3, <3>4
  <2> QED
    BY <1>2, <1>5, <2>1, <2>2 DEF CountedWhileHeld
<1>12. NoInheritanceLeft'
  <2>1. uxMutexesHeld[t] \in Int
    BY DEF IInv, TypeOK
  <2> QED
    BY <1>2, <1>4, <2>1 DEF IInv, NoInheritanceLeft
<1>13. \A n \in Mutexes : Waiters(xTasksWaitingToReceive'[n]) \subseteq WaitersFor(n)
  <2>1. Waiters(<<>>) = {}
    BY EmptyList
  <2> QED
    BY <1>8, <2>1 DEF WaitersFor
<1>14. ListsOK'
  <2>1. ASSUME NEW n \in Mutexes, NEW u \in Waiters(xTasksWaitingToReceive'[n])
        PROVE  pc'[u] = "try" /\ xSemaphore'[u] = n
    <3>1. u \in WaitersFor(n) /\ u \in Tasks
      BY <1>13, <2>1, ListType DEF WaitersFor, IInv, TypeOK
    <3>2. pc[u] = "try" /\ xSemaphore[u] = n
      BY <3>1 DEF IInv, ListsOK
    <3> QED
      BY <1>2, <1>3, <3>1, <3>2
  <2>2. \A n \in Mutexes : OnceEach(xTasksWaitingToReceive'[n])
    BY <1>8 DEF IInv, ListsOK
  <2> QED
    BY <2>1, <2>2, Zenon DEF ListsOK, WaitersFor
<1>15. NoWaiterIsForgotten'
  <2>1. ASSUME NEW n \in Mutexes, xMutexHolder'[n] = NoTask, xTasksWaitingToReceive'[n] # <<>>
        PROVE  \E u \in Tasks : Awake(u, n)' /\ pc'[u] = "try"
    <3>1. CASE n = m
      <4>1. /\ list[1] \in WaitersFor(m) /\ list[1] \in Tasks
            /\ Waiters(xTasksWaitingToReceive'[m]) = WaitersFor(m) \ {list[1]}
        BY <1>8, <2>1, <3>1
      <4>2. pc[list[1]] = "try" /\ xSemaphore[list[1]] = m
        BY <4>1 DEF IInv, ListsOK
      <4>3. pc'[list[1]] = "try" /\ xSemaphore'[list[1]] = m
        BY <1>2, <1>3, <4>1, <4>2
      <4>4. \A k \in Mutexes : list[1] \notin Waiters(xTasksWaitingToReceive'[k])
        <5>1. ASSUME NEW k \in Mutexes, list[1] \in Waiters(xTasksWaitingToReceive'[k])
              PROVE  FALSE
          <6>1. list[1] \in WaitersFor(k)
            BY <1>13, <5>1
          <6>2. k = m
            BY <4>2, <6>1 DEF IInv, ListsOK
          <6> QED
            BY <4>1, <5>1, <6>2
        <5> QED
          BY <5>1
      <4> QED
        BY <3>1, <4>1, <4>3, <4>4 DEF Awake, Blocked, WaitersFor
    <3>2. CASE n # m
      <4>1. PICK u \in Tasks : Awake(u, n) /\ pc[u] = "try"
        BY <1>5, <1>8, <2>1, <3>2 DEF IInv, NoWaiterIsForgotten
      <4>2. \A k \in Mutexes : u \notin Waiters(xTasksWaitingToReceive'[k])
        BY <1>13, <4>1 DEF Awake, Blocked
      <4>3. pc'[u] = "try" /\ xSemaphore'[u] = n
        BY <1>2, <1>3, <4>1 DEF Awake
      <4> QED
        BY <4>2, <4>3 DEF Awake, Blocked, WaitersFor
    <3> QED
      BY <3>1, <3>2
  <2> QED
    BY <2>1 DEF NoWaiterIsForgotten
<1> QED
  BY <1>6, <1>9, <1>10, <1>11, <1>12, <1>14, <1>15 DEF IInv

-----------------------------------------------------------------------------
(* The theorems.                                                            *)

LEMMA InitEstablishes ==
  ASSUME Init
  PROVE  IInv
<1>1. TypeOK
  <2>1. 0 \in 0 .. MaxDepth
    BY MutexAssumption
  <2>2. 0 \in 0 .. Cardinality(Mutexes)
    BY MutexAssumption, FS_CardinalityType
  <2>3. <<>> \in Seq(Tasks)
    OBVIOUS
  <2>4. (CHOOSE m \in Mutexes : TRUE) \in Mutexes
    BY MutexAssumption
  <2> QED
    BY <2>1, <2>2, <2>3, <2>4, MutexAssumption
       DEF Init, prvInitialiseMutex, TypeOK, Places, Waits
<1>2. \A m \in Mutexes : WaitersFor(m) = {} /\ OnceEach(xTasksWaitingToReceive[m])
  BY EmptyList DEF Init, prvInitialiseMutex, WaitersFor
<1>3. CallsOK /\ ListsOK
  BY <1>2 DEF Init, CallsOK, ListsOK
<1>4. HeldCountMatches
  <2>1. \A t \in Tasks : {m \in Mutexes : xMutexHolder[m] = t} = {}
    BY MutexAssumption DEF Init, prvInitialiseMutex
  <2>2. \A t \in Tasks : Cardinality({m \in Mutexes : xMutexHolder[m] = t}) = 0
    BY <2>1, FS_EmptySet
  <2> QED
    BY <2>2 DEF Init, HeldCountMatches
<1>5. CountedWhileHeld /\ NoInheritanceLeft /\ NoWaiterIsForgotten
  BY MutexAssumption
     DEF Init, prvInitialiseMutex, CountedWhileHeld, NoInheritanceLeft, NoWaiterIsForgotten
<1> QED
  BY <1>1, <1>3, <1>4, <1>5 DEF IInv

LEMMA StepKeeps ==
  ASSUME IInv, [Next]_vars
  PROVE  IInv'
<1>1. ASSUME NEW t \in Tasks, TaskStep(t)
      PROVE  IInv'
  <2>1. CASE xQueueSemaphoreTake(t)
    BY <2>1, TakeKeeps
  <2>2. CASE BlockOnMutex(t)
    BY <2>2, BlockKeeps
  <2>3. CASE RecheckEmpty(t)
    BY <2>3, RecheckKeeps
  <2>4. CASE DisinheritAfterTimeout(t)
    BY <2>4, DisinheritKeeps
  <2>5. CASE xTaskIncrementTick(t)
    BY <2>5, TickKeeps
  <2>6. CASE xQueueTakeMutexRecursive(t)
    BY <2>6, CountKeeps
  <2>7. CASE xQueueGenericSend(t)
    BY <2>7, SendKeeps
  <2>8. CASE xQueueGiveMutexRecursive(t)
    BY <2>8, GiveRecursiveKeeps
  <2>9. CASE \E p \in Priorities : vTaskPrioritySet(t, p)
    BY <2>9, SetKeeps
  <2> QED
    BY <1>1, <2>1, <2>2, <2>3, <2>4, <2>5, <2>6, <2>7, <2>8, <2>9 DEF TaskStep
<1>2. CASE UNCHANGED vars
  <2>1. TypeOK' /\ CallsOK' /\ CountedWhileHeld'
    BY <1>2 DEF vars, mutexVars, prioVars, takeVars, IInv, TypeOK, CallsOK, CountedWhileHeld
  <2>2. ListsOK' /\ HeldCountMatches' /\ NoInheritanceLeft'
    BY <1>2 DEF vars, mutexVars, prioVars, takeVars, IInv, ListsOK, WaitersFor,
                HeldCountMatches, NoInheritanceLeft
  <2>3. NoWaiterIsForgotten'
    BY <1>2, ForgottenSame DEF vars, mutexVars, takeVars, IInv
  <2> QED
    BY <2>1, <2>2, <2>3 DEF IInv
<1> QED
  BY <1>1, <1>2 DEF Next

\* The invariant holds in every state.
THEOREM Invariant == Spec => []IInv
<1>1. Init => IInv
  BY InitEstablishes
<1>2. IInv /\ [Next]_vars => IInv'
  BY StepKeeps
<1> QED
  BY <1>1, <1>2, PTL DEF Spec

\* All variables keep their types, so that no count of mutexes or of recursive
\* takes goes below zero or beyond its bound.
THEOREM TypeCorrect == Spec => []TypeOK
<1>1. IInv => TypeOK
  BY DEF IInv
<1> QED
  BY <1>1, Invariant, PTL

\* The count of mutexes held in a task is the number of those it holds.
THEOREM HeldCountCorrect == Spec => []HeldCountMatches
<1>1. IInv => HeldCountMatches
  BY DEF IInv
<1> QED
  BY <1>1, Invariant, PTL

\* A recursive mutex has a count exactly while it is held.
THEOREM RecursionCorrect == Spec => []CountedWhileHeld
<1>1. IInv => CountedWhileHeld
  BY DEF IInv
<1> QED
  BY <1>1, Invariant, PTL

\* A task that holds no mutex runs at its own priority.
THEOREM DisinheritanceCorrect == Spec => []NoInheritanceLeft
<1>1. IInv => NoInheritanceLeft
  BY DEF IInv
<1> QED
  BY <1>1, Invariant, PTL

\* A free mutex with tasks asleep on it has one awake that will try it.
THEOREM WakeUpCorrect == Spec => []NoWaiterIsForgotten
<1>1. IInv => NoWaiterIsForgotten
  BY DEF IInv
<1> QED
  BY <1>1, Invariant, PTL
-----------------------------------------------------------------------------
(* The holder inherits.                                                     *)

Taking == {"try", "suspend", "recheck", "disinherit"}
Takes(t, m) == pc[t] \in Taking /\ xSemaphore[t] = m
LastLook(t) == pc[t] = "try" /\ xTicksToWait[t] = "no"
AwakeIn(t, m) == Takes(t, m) /\ ~LastLook(t) /\ t \notin WaitersFor(m)

\* Who is about to sleep, or sleeps, has time left to wait.
TicksOK ==
  \A t \in Tasks : pc[t] = "suspend" \/ Blocked(t) => xTicksToWait[t] # "no"

\* The item of a task says the priority it has, or would have without mutexes.
ItemsOK == \A t \in Tasks : xItemPriority[t] \in {uxPriority[t], uxBasePriority[t]}

\* A mutex that is used on its own: nobody waits for it that holds a mutex, its
\* holder holds no other, its waiters stand in order.
UsedAlone(m) ==
  /\ \A t \in Tasks : Takes(t, m) => uxMutexesHeld[t] = 0
  /\ xMutexHolder[m] # NoTask => uxMutexesHeld[xMutexHolder[m]] = 1
  /\ IsOrdered(xTasksWaitingToReceive[m], xItemPriority)

\* While it is free, one that will try it is as urgent as any that sleep.
WokenIsUrgent(m) ==
  xMutexHolder[m] = NoTask
    => \A t \in WaitersFor(m) :
         \E u \in Tasks : AwakeIn(u, m) /\ pc[u] = "try" /\ uxPriority[u] >= uxPriority[t]

HolderIsUrgent(m) ==
  xMutexHolder[m] # NoTask
    => \A t \in WaitersFor(m) :
         \/ uxPriority[xMutexHolder[m]] >= uxPriority[t]
         \/ \E u \in Tasks : AwakeIn(u, m) /\ uxPriority[u] >= uxPriority[t]

UrgentOK(m) == UsedAlone(m) /\ WokenIsUrgent(m) /\ HolderIsUrgent(m)

UInv == IInv /\ TicksOK /\ ItemsOK /\ \A m \in Mutexes \ disturbed : UrgentOK(m)

\* What each step does to a mutex that keeps its holder, or stays free: who comes
\* to sleep on it, or leaves, is no more urgent than the holder; the holder
\* falls to the waiters that stay, at most.
Covered(t, m) == xMutexHolder[m] # NoTask /\ uxPriority'[xMutexHolder[m]] >= uxPriority[t]

GoesOn(m) ==
  /\ xMutexHolder'[m] = xMutexHolder[m]
  /\ IsOrdered(xTasksWaitingToReceive'[m], xItemPriority')
  /\ \A t \in Tasks : /\ Takes(t, m)' => uxMutexesHeld'[t] = 0
                      /\ Takes(t, m) => uxPriority'[t] = uxPriority[t]
  /\ \A t \in Waiters(xTasksWaitingToReceive'[m]) :
       Takes(t, m) /\ (t \in WaitersFor(m) \/ Covered(t, m))
  /\ \A t \in Tasks : AwakeIn(t, m) /\ xMutexHolder[m] # NoTask
                        => AwakeIn(t, m)' \/ Covered(t, m)
  /\ \A t \in Tasks : AwakeIn(t, m) /\ pc[t] = "try" /\ xMutexHolder[m] = NoTask
                        => AwakeIn(t, m)' /\ pc'[t] = "try"
  /\ xMutexHolder[m] # NoTask
       => /\ uxMutexesHeld'[xMutexHolder[m]] = uxMutexesHeld[xMutexHolder[m]]
          /\ \/ uxPriority'[xMutexHolder[m]] >= uxPriority[xMutexHolder[m]]
             \/ \A t \in Waiters(xTasksWaitingToReceive'[m]) : Covered(t, m)

LEMMA UrgentGoesOn ==
  ASSUME IInv, IInv', NEW m \in Mutexes, UrgentOK(m), GoesOn(m)
  PROVE  UrgentOK(m)'
<1>1. /\ \A t \in Tasks : uxPriority[t] \in Int /\ uxPriority'[t] \in Int
      /\ xMutexHolder[m] \in Tasks \cup {NoTask}
      /\ Waiters(xTasksWaitingToReceive'[m]) \subseteq Tasks
  <2>1. \A t \in Tasks : uxPriority[t] \in Int /\ uxPriority'[t] \in Int
    BY MutexAssumption DEF IInv, TypeOK, Priorities
  <2>2. xMutexHolder[m] \in Tasks \cup {NoTask}
    BY DEF IInv, TypeOK
  <2>3. xTasksWaitingToReceive'[m] \in Seq(Tasks)
    BY DEF IInv, TypeOK
  <2>4. Waiters(xTasksWaitingToReceive'[m]) \subseteq Tasks
    BY <2>3, ListType
  <2> QED
    BY <2>1, <2>2, <2>4
<1>2. UsedAlone(m)'
  <2>1. \A t \in Tasks : Takes(t, m)' => uxMutexesHeld'[t] = 0
    BY DEF GoesOn
  <2>2. xMutexHolder'[m] # NoTask => uxMutexesHeld'[xMutexHolder'[m]] = 1
    BY DEF GoesOn, UrgentOK, UsedAlone
  <2>3. IsOrdered(xTasksWaitingToReceive'[m], xItemPriority')
    BY DEF GoesOn
  <2>4. IsOrdered(xTasksWaitingToReceive[m], xItemPriority)'
    BY <2>3 DEF IsOrdered
  <2> QED
    BY <2>1, <2>2, <2>4, Zenon DEF UsedAlone
<1>3. WokenIsUrgent(m)'
  <2>1. ASSUME xMutexHolder'[m] = NoTask, NEW t \in Waiters(xTasksWaitingToReceive'[m])
        PROVE  \E u \in Tasks : AwakeIn(u, m)' /\ pc'[u] = "try" /\ uxPriority'[u] >= uxPriority'[t]
    <3>1. xMutexHolder[m] = NoTask
      BY <2>1 DEF GoesOn
    <3>2. t \in WaitersFor(m) /\ Takes(t, m)
      BY <2>1, <3>1 DEF GoesOn, Covered
    <3>3. PICK u \in Tasks : AwakeIn(u, m) /\ pc[u] = "try" /\ uxPriority[u] >= uxPriority[t]
      BY <3>1, <3>2 DEF UrgentOK, WokenIsUrgent
    <3>4. AwakeIn(u, m)' /\ pc'[u] = "try"
      BY <3>1, <3>3 DEF GoesOn
    <3>5. uxPriority'[u] = uxPriority[u] /\ uxPriority'[t] = uxPriority[t]
      BY <1>1, <2>1, <3>2, <3>3 DEF GoesOn, AwakeIn
    <3> QED
      BY <3>3, <3>4, <3>5
  <2> QED
    BY <2>1, Zenon DEF WokenIsUrgent, WaitersFor
<1>4. HolderIsUrgent(m)'
  <2> DEFINE h == xMutexHolder[m]
  <2>1. ASSUME xMutexHolder'[m] # NoTask, NEW t \in Waiters(xTasksWaitingToReceive'[m])
        PROVE  \/ uxPriority'[xMutexHolder'[m]] >= uxPriority'[t]
               \/ \E u \in Tasks : AwakeIn(u, m)' /\ uxPriority'[u] >= uxPriority'[t]
    <3>1. h # NoTask /\ h \in Tasks /\ xMutexHolder'[m] = h
      BY <1>1, <2>1 DEF GoesOn
    <3>2. Takes(t, m) /\ t \in Tasks /\ uxPriority'[t] = uxPriority[t]
      BY <1>1, <2>1 DEF GoesOn
    <3>3. CASE Covered(t, m)
      BY <3>1, <3>2, <3>3 DEF Covered
    <3>4. CASE ~Covered(t, m)
      <4>1. t \in WaitersFor(m) /\ uxPriority'[h] >= uxPriority[h]
        BY <2>1, <3>1, <3>4 DEF GoesOn
      <4>2. CASE uxPriority[h] >= uxPriority[t]
        BY <1>1, <3>1, <3>2, <4>1, <4>2
      <4>3. CASE \E u \in Tasks : AwakeIn(u, m) /\ uxPriority[u] >= uxPriority[t]
        <5>1. PICK u \in Tasks : AwakeIn(u, m) /\ uxPriority[u] >= uxPriority[t]
          BY <4>3
        <5>2. uxPriority'[u] = uxPriority[u]
          BY <5>1 DEF GoesOn, AwakeIn
        <5>3. CASE AwakeIn(u, m)'
          BY <3>2, <5>1, <5>2, <5>3
        <5>4. CASE Covered(u, m)
          <6>1. uxPriority'[h] >= uxPriority[u]
            BY <5>4 DEF Covered
          <6> QED
            BY <1>1, <3>1, <3>2, <5>1, <6>1
        <5> QED
          BY <3>1, <5>1, <5>3, <5>4 DEF GoesOn
      <4> QED
        BY <3>1, <4>1, <4>2, <4>3 DEF UrgentOK, HolderIsUrgent
    <3> QED
      BY <3>3, <3>4
  <2> QED
    BY <2>1, Zenon DEF HolderIsUrgent, WaitersFor
<1> QED
  BY <1>2, <1>3, <1>4 DEF UrgentOK
\* Who waits for a mutex that is used on its own inherits nothing, and its holder
\* holds no other.
LEMMA AloneFacts ==
  ASSUME UInv, NEW m \in Mutexes \ disturbed
  PROVE  /\ UrgentOK(m)
         /\ \A t \in WaitersFor(m) : t \in Tasks /\ pc[t] = "try" /\ Takes(t, m)
         /\ \A t \in Tasks : Takes(t, m)
              => /\ uxMutexesHeld[t] = 0 /\ xItemPriority[t] = uxPriority[t]
                 /\ \A n \in Mutexes : xMutexHolder[n] # t
         /\ xMutexHolder[m] # NoTask
              => /\ xMutexHolder[m] \in Tasks /\ uxMutexesHeld[xMutexHolder[m]] = 1
                 /\ \A n \in Mutexes : xMutexHolder[n] = xMutexHolder[m] => n = m
<1>1. UrgentOK(m) /\ IInv /\ ItemsOK
  BY DEF UInv
<1>2. ASSUME NEW t \in WaitersFor(m)
      PROVE  t \in Tasks /\ pc[t] = "try" /\ Takes(t, m)
  <2>1. xTasksWaitingToReceive[m] \in Seq(Tasks)
    BY <1>1 DEF IInv, TypeOK
  <2>2. t \in Tasks
    BY <1>2, <2>1, ListType DEF WaitersFor
  <2> QED
    BY <1>1, <1>2, <2>2 DEF IInv, ListsOK, Takes, Taking
<1>3. ASSUME NEW t \in Tasks, Takes(t, m)
      PROVE  /\ uxMutexesHeld[t] = 0 /\ xItemPriority[t] = uxPriority[t]
             /\ \A n \in Mutexes : xMutexHolder[n] # t
  <2>1. uxMutexesHeld[t] = 0
    BY <1>1, <1>3 DEF UrgentOK, UsedAlone
  <2>2. xItemPriority[t] = uxPriority[t]
    BY <1>1, <2>1 DEF IInv, NoInheritanceLeft, ItemsOK
  <2>3. \A n \in Mutexes : xMutexHolder[n] # t
    BY <1>1, <2>1, HolderCounts DEF IInv
  <2> QED
    BY <2>1, <2>2, <2>3
<1>4. ASSUME xMutexHolder[m] # NoTask
      PROVE  /\ xMutexHolder[m] \in Tasks /\ uxMutexesHeld[xMutexHolder[m]] = 1
             /\ \A n \in Mutexes : xMutexHolder[n] = xMutexHolder[m] => n = m
  <2> DEFINE h == xMutexHolder[m]
  <2>1. h \in Tasks /\ uxMutexesHeld[h] = 1
    BY <1>1, <1>4 DEF IInv, TypeOK, UrgentOK, UsedAlone
  <2>2. IsFiniteSet(Held(h)) /\ Cardinality(Held(h)) = 1
    BY <1>1, <2>1, HolderCounts DEF IInv
  <2>3. ASSUME NEW n \in Mutexes, xMutexHolder[n] = h
        PROVE  n = m
    <3>1. {m, n} \in SUBSET Held(h)
      BY <2>3 DEF Held
    <3>2. m \in Held(h) /\ IsFiniteSet(Held(h) \ {m}) /\ Cardinality(Held(h) \ {m}) = 0
      <4>1. m \in Held(h)
        BY <3>1
      <4> HIDE DEF h
      <4> QED
        BY <2>2, <4>1, FS_RemoveElement
    <3>3. Held(h) \ {m} = {}
      BY <3>2, FS_EmptySet
    <3> QED
      BY <3>1, <3>3
  <2> QED
    BY <2>1, <2>3
<1> QED
  BY <1>1, <1>2, <1>3, <1>4

\* A step about another mutex.
Untouched(m) ==
  /\ xMutexHolder'[m] = xMutexHolder[m]
  /\ xTasksWaitingToReceive'[m] = xTasksWaitingToReceive[m]
  /\ \A t \in Tasks : Takes(t, m) => pc'[t] = pc[t] /\ xTicksToWait'[t] = xTicksToWait[t]
  /\ \A t \in Tasks : Takes(t, m) <=> Takes(t, m)'
  /\ \A t \in Tasks : Takes(t, m) \/ t = xMutexHolder[m]
       => /\ uxMutexesHeld'[t] = uxMutexesHeld[t] /\ uxPriority'[t] = uxPriority[t]
          /\ xItemPriority'[t] = xItemPriority[t]

LEMMA UntouchedGoesOn ==
  ASSUME UInv, NEW m \in Mutexes \ disturbed, Untouched(m)
  PROVE  GoesOn(m)
<1>1. /\ \A t \in Tasks : uxPriority[t] \in Int
      /\ xMutexHolder[m] \in Tasks \cup {NoTask}
  BY MutexAssumption DEF UInv, IInv, TypeOK, Priorities
<1>2. \A t \in WaitersFor(m) : t \in Tasks /\ Takes(t, m)
  BY AloneFacts
<1>3. Waiters(xTasksWaitingToReceive'[m]) = WaitersFor(m) /\ WaitersFor(m)' = WaitersFor(m)
  BY DEF Untouched, WaitersFor
<1>4. IsOrdered(xTasksWaitingToReceive'[m], xItemPriority')
  <2>1. IsOrdered(xTasksWaitingToReceive[m], xItemPriority)
    BY AloneFacts DEF UrgentOK, UsedAlone
  <2>2. \A t \in Waiters(xTasksWaitingToReceive[m]) : xItemPriority'[t] = xItemPriority[t]
    BY <1>2 DEF Untouched, WaitersFor
  <2>3. IsOrdered(xTasksWaitingToReceive[m], xItemPriority')
    BY <2>1, <2>2, OrderSame
  <2> QED
    BY <2>3 DEF Untouched
<1>5. \A t \in Tasks : /\ Takes(t, m)' => uxMutexesHeld'[t] = 0
                       /\ Takes(t, m) => uxPriority'[t] = uxPriority[t]
  BY AloneFacts DEF Untouched
<1>6. \A t \in Tasks : AwakeIn(t, m) => AwakeIn(t, m)' /\ pc'[t] = pc[t]
  BY <1>3 DEF Untouched, AwakeIn, LastLook
<1>7. xMutexHolder[m] # NoTask
        => /\ uxMutexesHeld'[xMutexHolder[m]] = uxMutexesHeld[xMutexHolder[m]]
           /\ uxPriority'[xMutexHolder[m]] >= uxPriority[xMutexHolder[m]]
  BY <1>1 DEF Untouched
<1>8. xMutexHolder'[m] = xMutexHolder[m]
  BY DEF Untouched
<1> QED
  BY <1>2, <1>3, <1>4, <1>5, <1>6, <1>7, <1>8 DEF GoesOn

\* A step of one task, which sends nobody to sleep but that task.
LEMMA TicksKept ==
  ASSUME TicksOK, NEW t \in Tasks,
         \A u \in Tasks : u # t => pc'[u] = pc[u] /\ xTicksToWait'[u] = xTicksToWait[u],
         \A m \in Mutexes, u \in Tasks :
           u \in Waiters(xTasksWaitingToReceive'[m]) => u = t \/ u \in WaitersFor(m),
         pc'[t] = "suspend" \/ Blocked(t)' => xTicksToWait'[t] # "no"
  PROVE  TicksOK'
<1>1. ASSUME NEW u \in Tasks, u # t, Blocked(u)'
      PROVE  Blocked(u)
  <2>1. PICK m \in Mutexes : u \in Waiters(xTasksWaitingToReceive'[m])
    BY <1>1 DEF Blocked, WaitersFor
  <2> QED
    BY <1>1, <2>1 DEF Blocked
<1>2. ASSUME NEW u \in Tasks, pc'[u] = "suspend" \/ Blocked(u)'
      PROVE  xTicksToWait'[u] # "no"
  <2>1. CASE u = t
    BY <1>2, <2>1
  <2>2. CASE u # t
    BY <1>1, <1>2, <2>2 DEF TicksOK
  <2> QED
    BY <2>1, <2>2
<1> QED
  BY <1>2 DEF TicksOK

LEMMA TicksStep ==
  ASSUME IInv, TicksOK, NEW t \in Tasks, TaskStep(t)
  PROVE  TicksOK'
<1> USE DEF IInv, TypeOK
<1>1. CASE xQueueSemaphoreTake(t)
  <2>1. ~Blocked(t) /\ UNCHANGED xTasksWaitingToReceive
    BY <1>1 DEF xQueueSemaphoreTake, Runs
  <2>2. /\ \A u \in Tasks : u # t => pc'[u] = pc[u] /\ xTicksToWait'[u] = xTicksToWait[u]
        /\ pc'[t] = "suspend" => xTicksToWait'[t] # "no"
    BY <1>1 DEF xQueueSemaphoreTake, Return, GoTo
  <2>3. ~Blocked(t)'
    BY <2>1 DEF Blocked, WaitersFor
  <2> QED
    BY <2>1, <2>2, <2>3, TicksKept DEF WaitersFor
<1>2. CASE BlockOnMutex(t)
  <2>1. /\ pc[t] = "suspend" /\ ~Blocked(t) /\ xSemaphore[t] \in Mutexes
        /\ \A u \in Tasks : u # t => pc'[u] = pc[u] /\ xTicksToWait'[u] = xTicksToWait[u]
        /\ pc'[t] # "suspend" /\ xTicksToWait[t] # "no"
    BY <1>2 DEF BlockOnMutex, Runs, GoTo, TicksOK
  <2>2. CASE UNCHANGED xTasksWaitingToReceive
    <3>1. ~Blocked(t)'
      BY <2>1, <2>2 DEF Blocked, WaitersFor
    <3> QED
      BY <2>1, <2>2, <3>1, TicksKept DEF WaitersFor
  <2>3. CASE t \notin expired /\ PlaceOnEventList(t, xSemaphore[t])
    <3> DEFINE list == xTasksWaitingToReceive[xSemaphore[t]]
               new == vListInsert(list, t, xItemPriority)
    <3>1. list \in Seq(Tasks) /\ OnceEach(list) /\ t \notin Waiters(list)
      BY <2>1, BlockedOnOne DEF ListsOK, WaitersFor
    <3>2. Waiters(new) = Waiters(list) \cup {t}
      BY <3>1, InsertWaits
    <3>3. xTasksWaitingToReceive' = [xTasksWaitingToReceive EXCEPT ![xSemaphore[t]] = new]
      BY <2>3 DEF PlaceOnEventList
    <3> HIDE DEF new
    <3>4. \A m \in Mutexes, u \in Tasks :
            u \in Waiters(xTasksWaitingToReceive'[m]) => u = t \/ u \in WaitersFor(m)
      BY <2>1, <3>2, <3>3 DEF WaitersFor
    <3>5. xTicksToWait'[t] # "no"
      BY <1>2, <2>1, <2>3 DEF BlockOnMutex
    <3> QED
      BY <2>1, <3>4, <3>5, TicksKept
  <2> QED
    BY <1>2, <2>2, <2>3 DEF BlockOnMutex
<1>3. CASE RecheckEmpty(t) \/ DisinheritAfterTimeout(t)
  <2>1. /\ ~Blocked(t) /\ UNCHANGED xTasksWaitingToReceive
        /\ \A u \in Tasks : u # t => pc'[u] = pc[u] /\ xTicksToWait'[u] = xTicksToWait[u]
        /\ pc'[t] # "suspend"
    BY <1>3 DEF RecheckEmpty, DisinheritAfterTimeout, Runs, Return, Waiting, GoTo
  <2>2. ~Blocked(t)'
    BY <2>1 DEF Blocked, WaitersFor
  <2> QED
    BY <2>1, <2>2, TicksKept DEF WaitersFor
<1>4. CASE xTaskIncrementTick(t)
  <2>1. UNCHANGED <<pc, xTicksToWait>>
    BY <1>4 DEF xTaskIncrementTick
  <2>2. \A m \in Mutexes : Waiters(xTasksWaitingToReceive'[m]) \subseteq WaitersFor(m)
    <3>1. ASSUME NEW m \in Mutexes
          PROVE  Waiters(xTasksWaitingToReceive'[m]) \subseteq WaitersFor(m)
      <4>1. xTasksWaitingToReceive[m] \in Seq(Tasks) /\ OnceEach(xTasksWaitingToReceive[m])
        BY DEF ListsOK
      <4>2. xTasksWaitingToReceive'[m] = uxListRemove(xTasksWaitingToReceive[m], t)
        BY <1>4 DEF xTaskIncrementTick
      <4> QED
        BY <4>1, <4>2, RemoveWaits DEF WaitersFor
    <3> QED
      BY <3>1
  <2>3. Blocked(t)' => Blocked(t)
    BY <2>2 DEF Blocked, WaitersFor
  <2> QED
    BY <2>1, <2>2, <2>3, TicksKept DEF TicksOK
<1>5. CASE xQueueTakeMutexRecursive(t) \/ xQueueGiveMutexRecursive(t)
           \/ \E p \in Priorities : vTaskPrioritySet(t, p)
  <2>1. /\ UNCHANGED <<xTasksWaitingToReceive, xTicksToWait>>
        /\ \A u \in Tasks : u # t => pc'[u] = pc[u]
        /\ pc'[t] = "suspend" => pc[t] = "suspend"
    BY <1>5 DEF xQueueTakeMutexRecursive, xQueueGiveMutexRecursive, vTaskPrioritySet, GoTo,
       takeVars
  <2>2. Blocked(t)' => Blocked(t)
    BY <2>1 DEF Blocked, WaitersFor
  <2> QED
    BY <2>1, <2>2, TicksKept DEF TicksOK, WaitersFor
<1>6. CASE xQueueGenericSend(t)
  <2>1. /\ UNCHANGED xTicksToWait /\ pc'[t] = "idle"
        /\ \A u \in Tasks : u # t => pc'[u] = pc[u]
    BY <1>6 DEF xQueueGenericSend, GoTo
  <2>2. PICK k \in Mutexes : Gives(t, k)
    BY <1>6, GivesOne
  <2>3. \A m \in Mutexes : Waiters(xTasksWaitingToReceive'[m]) \subseteq WaitersFor(m)
    <3>1. ASSUME NEW m \in Mutexes, m # k
          PROVE  Waiters(xTasksWaitingToReceive'[m]) \subseteq WaitersFor(m)
      BY <2>2, <3>1, GiveEffect DEF WaitersFor
    <3>2. Waiters(xTasksWaitingToReceive'[k]) \subseteq WaitersFor(k)
      BY <2>2, GiveEffect, EmptyList DEF WaitersFor
    <3> QED
      BY <3>1, <3>2
  <2>4. Blocked(t)' => Blocked(t)
    BY <2>3 DEF Blocked, WaitersFor
  <2> QED
    BY <2>1, <2>3, <2>4, TicksKept DEF TicksOK
<1> QED
  BY <1>1, <1>2, <1>3, <1>4, <1>5, <1>6 DEF TaskStep

\* Steps that change none of what the order depends on.
LEMMA UrgentSame ==
  ASSUME UInv, IInv', TicksOK', UNCHANGED <<uxPriority, uxBasePriority, xItemPriority>>,
         \A m \in Mutexes : m \notin disturbed'
           => m \notin disturbed /\ (UrgentOK(m)' \/ GoesOn(m) \/ Untouched(m))
  PROVE  UInv'
<1>1. ItemsOK'
  BY DEF UInv, ItemsOK
<1>2. ASSUME NEW m \in Mutexes, m \notin disturbed'
      PROVE  UrgentOK(m)'
  BY <1>2, UrgentGoesOn, UntouchedGoesOn DEF UInv
<1> QED
  BY <1>1, <1>2 DEF UInv

\* A take that finds the mutex free, or may wait; and one that fails.
Tries(t, k) ==
  /\ pc[t] \in {"idle", "try"} /\ ~Blocked(t)
  /\ NoteNesting(t, k) /\ (pc[t] = "try" => k = xSemaphore[t])
  /\ xSemaphore' = [xSemaphore EXCEPT ![t] = k]
  /\ \A u \in Tasks : u # t => xTicksToWait'[u] = xTicksToWait[u]
  /\ \/ /\ ~prvIsQueueEmpty(k)
        /\ xMutexHolder' = [xMutexHolder EXCEPT ![k] = t]
        /\ uxMutexesHeld' = [uxMutexesHeld EXCEPT ![t] = @ + 1]
        /\ GoTo(t, IF k \in RecursiveMutexes THEN "count" ELSE "idle")
     \/ /\ prvIsQueueEmpty(k)
        /\ GoTo(t, "suspend")
        /\ UNCHANGED <<xMutexHolder, uxMutexesHeld>>
  /\ UNCHANGED <<xTasksWaitingToReceive, uxPriority, uxBasePriority, xItemPriority>>

Fails(t) ==
  /\ pc[t] = "try" => xTicksToWait[t] = "no"
  /\ GoTo(t, "idle")
  /\ \A u \in Tasks : u # t => xTicksToWait'[u] = xTicksToWait[u]
  /\ UNCHANGED <<xMutexHolder, xTasksWaitingToReceive, uxPriority, uxBasePriority,
                 xItemPriority, uxMutexesHeld, xSemaphore, disturbed>>

LEMMA TakeIs ==
  ASSUME IInv, NEW t \in Tasks, xQueueSemaphoreTake(t)
  PROVE  (\E k \in Mutexes : Tries(t, k)) \/ (pc[t] \in {"idle", "try"} /\ Fails(t))
<1>1. PICK take \in TakesOf(t) :
        LET m == take[1] IN
        \/ /\ ~prvIsQueueEmpty(m)
           /\ xMutexHolder' = [xMutexHolder EXCEPT ![m] = t]
           /\ uxMutexesHeld' = [uxMutexesHeld EXCEPT ![t] = @ + 1]
           /\ xSemaphore' = [xSemaphore EXCEPT ![t] = m]
           /\ Return(t, IF m \in RecursiveMutexes THEN "count" ELSE "idle")
           /\ NoteNesting(t, m)
        \/ /\ prvIsQueueEmpty(m) /\ take[2] = "no"
           /\ Return(t, "idle")
           /\ UNCHANGED <<xMutexHolder, uxMutexesHeld, xSemaphore, disturbed>>
        \/ /\ prvIsQueueEmpty(m) /\ take[2] # "no"
           /\ xSemaphore' = [xSemaphore EXCEPT ![t] = m]
           /\ xTicksToWait' = [xTicksToWait EXCEPT ![t] = take[2]]
           /\ GoTo(t, "suspend")
           /\ NoteNesting(t, m)
           /\ UNCHANGED <<xMutexHolder, uxMutexesHeld, xInheritanceOccurred, expired>>
  BY DEF xQueueSemaphoreTake
<1> DEFINE k == take[1]
<1>2. /\ k \in Mutexes
      /\ pc[t] = "try" => k = xSemaphore[t] /\ take[2] = xTicksToWait[t]
  BY DEF IInv, TypeOK, TakesOf
<1>3. /\ pc[t] \in {"idle", "try"} /\ ~Blocked(t)
      /\ UNCHANGED <<xTasksWaitingToReceive, uxPriority, uxBasePriority, xItemPriority>>
  BY DEF xQueueSemaphoreTake, Runs, prioVars
<1>4. \A u \in Tasks : u # t => xTicksToWait'[u] = xTicksToWait[u]
  BY <1>1 DEF Return, IInv, TypeOK
<1>5. \/ Tries(t, k)
      \/ Fails(t)
  BY <1>1, <1>2, <1>3, <1>4 DEF Tries, Fails, Return
<1> QED
  BY <1>2, <1>3, <1>5

\* Its last look over, a task leaves and owes the others nothing.
LEMMA UrgentFail ==
  ASSUME UInv, IInv', TicksOK', NEW t \in Tasks, pc[t] \in {"idle", "try"}, Fails(t)
  PROVE  UInv'
<1>1. \A u \in Tasks : u # t => pc'[u] = pc[u] /\ xTicksToWait'[u] = xTicksToWait[u]
  BY DEF Fails, GoTo, UInv, IInv, TypeOK
<1>2. pc'[t] = "idle"
  BY DEF Fails, GoTo, UInv, IInv, TypeOK
<1>3. ASSUME NEW m \in Mutexes \ disturbed
      PROVE  GoesOn(m)
  <2>1. WaitersFor(m)' = WaitersFor(m) /\ Waiters(xTasksWaitingToReceive'[m]) = WaitersFor(m)
    BY DEF Fails, WaitersFor
  <2>2. ~AwakeIn(t, m)
    BY DEF Fails, AwakeIn, LastLook, Takes, Taking
  <2>3. \A u \in Tasks : u # t /\ AwakeIn(u, m) => AwakeIn(u, m)' /\ pc'[u] = pc[u]
    BY <1>1, <2>1 DEF Fails, AwakeIn, LastLook, Takes
  <2>4. \A u \in Tasks : Takes(u, m)' => Takes(u, m)
    BY <1>1, <1>2 DEF Fails, Takes, Taking
  <2>5. /\ \A u \in Tasks : Takes(u, m) => uxMutexesHeld[u] = 0
        /\ \A u \in WaitersFor(m) : Takes(u, m)
    BY <1>3, AloneFacts
  <2>6. IsOrdered(xTasksWaitingToReceive'[m], xItemPriority')
    BY <1>3, AloneFacts DEF Fails, UrgentOK, UsedAlone
  <2>7. xMutexHolder[m] # NoTask => uxPriority[xMutexHolder[m]] \in Int
    BY MutexAssumption DEF UInv, IInv, TypeOK, Priorities
  <2> QED
    BY <2>1, <2>2, <2>3, <2>4, <2>5, <2>6, <2>7 DEF Fails, GoesOn
<1> QED
  BY <1>3, UrgentSame DEF Fails

LEMMA UrgentTry ==
  ASSUME UInv, IInv', TicksOK', NEW t \in Tasks, NEW k \in Mutexes, Tries(t, k)
  PROVE  UInv'
<1>1. /\ NoteNesting(t, k) /\ (pc[t] = "try" => k = xSemaphore[t])
      /\ xSemaphore' = [xSemaphore EXCEPT ![t] = k]
      /\ \/ /\ ~prvIsQueueEmpty(k)
            /\ xMutexHolder' = [xMutexHolder EXCEPT ![k] = t]
            /\ uxMutexesHeld' = [uxMutexesHeld EXCEPT ![t] = @ + 1]
            /\ GoTo(t, IF k \in RecursiveMutexes THEN "count" ELSE "idle")
         \/ /\ prvIsQueueEmpty(k)
            /\ GoTo(t, "suspend")
            /\ UNCHANGED <<xMutexHolder, uxMutexesHeld>>
  BY DEF Tries
<1>2. /\ pc[t] \in {"idle", "try"} /\ ~Blocked(t)
      /\ UNCHANGED <<xTasksWaitingToReceive, uxPriority, uxBasePriority, xItemPriority>>
  BY DEF Tries
<1>3. /\ \A u \in Tasks : u # t => pc'[u] = pc[u] /\ xSemaphore'[u] = xSemaphore[u]
      /\ \A u \in Tasks : u # t => xTicksToWait'[u] = xTicksToWait[u]
      /\ xSemaphore'[t] = k
  BY <1>1 DEF Tries, GoTo, UInv, IInv, TypeOK
<1>4. ASSUME NEW m \in Mutexes, m \notin disturbed'
      PROVE  m \notin disturbed /\ (UrgentOK(m)' \/ GoesOn(m) \/ Untouched(m))
  <2>1. /\ m \notin disturbed
        /\ uxMutexesHeld[t] # 0 => m # k /\ m \notin UsedBy(t)
    BY <1>1, <1>4 DEF NoteNesting
  <2>2. CASE m # k
    <3>1. xMutexHolder'[m] = xMutexHolder[m]
      BY <1>1, <2>2 DEF UInv, IInv, TypeOK
    <3>2. ~Takes(t, m) /\ ~Takes(t, m)'
      BY <1>1, <1>2, <1>3, <2>2 DEF Takes, Taking
    <3>3. xMutexHolder[m] # t \/ UNCHANGED uxMutexesHeld
      <4>1. xMutexHolder[m] = t => uxMutexesHeld[t] # 0 /\ m \in UsedBy(t)
        BY HolderCounts DEF UInv, IInv, UsedBy
      <4> QED
        BY <2>1, <4>1
    <3>4. \A u \in Tasks : u # t => uxMutexesHeld'[u] = uxMutexesHeld[u]
      BY <1>1 DEF UInv, IInv, TypeOK
    <3>5. Untouched(m)
      BY <1>2, <1>3, <3>1, <3>2, <3>3, <3>4 DEF Untouched, Takes
    <3> QED
      BY <2>1, <3>5
  <2>3. CASE m = k /\ prvIsQueueEmpty(k)
    <3>1. /\ UNCHANGED <<xMutexHolder, uxMutexesHeld>> /\ pc'[t] = "suspend"
          /\ uxMutexesHeld[t] = 0 /\ xMutexHolder[m] # NoTask
      BY <1>1, <2>1, <2>3 DEF prvIsQueueEmpty, GoTo, UInv, IInv, TypeOK
    <3>2. IsOrdered(xTasksWaitingToReceive'[m], xItemPriority')
      BY <1>2, <2>1, AloneFacts DEF UrgentOK, UsedAlone
    <3>3. WaitersFor(m)' = WaitersFor(m) /\ Waiters(xTasksWaitingToReceive'[m]) = WaitersFor(m)
      BY <1>2 DEF WaitersFor
    <3>4. t \notin WaitersFor(m)
      BY <1>2 DEF Blocked
    <3>5. \A u \in Tasks : AwakeIn(u, m) => AwakeIn(u, m)'
      <4>1. AwakeIn(t, m)'
        BY <1>3, <2>3, <3>1, <3>3, <3>4 DEF AwakeIn, LastLook, Takes, Taking
      <4>2. \A u \in Tasks : u # t /\ AwakeIn(u, m) => AwakeIn(u, m)'
        BY <1>3, <3>3 DEF AwakeIn, LastLook, Takes
      <4> QED
        BY <4>1, <4>2
    <3>6. \A u \in Tasks : Takes(u, m)' => uxMutexesHeld'[u] = 0
      BY <1>3, <2>1, <3>1, AloneFacts DEF Takes
    <3>7. xMutexHolder[m] \in Tasks /\ uxPriority[xMutexHolder[m]] \in Int
      BY <3>1, MutexAssumption DEF UInv, IInv, TypeOK, Priorities
    <3>8. \A u \in WaitersFor(m) : Takes(u, m)
      BY <2>1, AloneFacts
    <3>9. GoesOn(m)
      BY <1>2, <3>1, <3>2, <3>3, <3>5, <3>6, <3>7, <3>8 DEF GoesOn
    <3> QED
      BY <2>1, <3>9
  <2>4. CASE m = k /\ ~prvIsQueueEmpty(k)
    <3>1. /\ xMutexHolder[m] = NoTask /\ xMutexHolder'[m] = t
          /\ uxMutexesHeld[t] = 0 /\ uxMutexesHeld'[t] = 1
          /\ \A u \in Tasks : u # t => uxMutexesHeld'[u] = uxMutexesHeld[u]
          /\ pc'[t] \in {"count", "idle"}
      BY <1>1, <2>1, <2>4 DEF prvIsQueueEmpty, GoTo, UInv, IInv, TypeOK
    <3>2. UrgentOK(m)
      BY <2>1, AloneFacts
    <3>3. UsedAlone(m)'
      <4>1. \A u \in Tasks : Takes(u, m)' => uxMutexesHeld'[u] = 0
        BY <1>3, <3>1, <3>2 DEF Takes, Taking, UrgentOK, UsedAlone
      <4>2. IsOrdered(xTasksWaitingToReceive[m], xItemPriority)'
        BY <1>2, <3>2 DEF UrgentOK, UsedAlone, IsOrdered
      <4> QED
        BY <3>1, <4>1, <4>2 DEF UsedAlone
    <3>4. WokenIsUrgent(m)'
      BY <3>1, MutexAssumption DEF WokenIsUrgent
    <3>5. HolderIsUrgent(m)'
      <4>1. ASSUME NEW w \in Waiters(xTasksWaitingToReceive'[m])
            PROVE  \/ uxPriority'[t] >= uxPriority'[w]
                   \/ \E u \in Tasks : AwakeIn(u, m)' /\ uxPriority'[u] >= uxPriority'[w]
        <5>1. w \in WaitersFor(m)
          BY <1>2, <4>1 DEF WaitersFor
        <5>2. PICK u \in Tasks : AwakeIn(u, m) /\ uxPriority[u] >= uxPriority[w]
          BY <3>1, <3>2, <5>1 DEF UrgentOK, WokenIsUrgent
        <5>3. CASE u = t
          BY <1>2, <5>2, <5>3
        <5>4. CASE u # t
          <6>1. AwakeIn(u, m)'
            BY <1>2, <1>3, <5>2, <5>4 DEF AwakeIn, LastLook, Takes, WaitersFor
          <6> QED
            BY <1>2, <5>2, <6>1
        <5> QED
          BY <5>3, <5>4
      <4> QED
        BY <3>1, <4>1, Zenon DEF HolderIsUrgent, WaitersFor
    <3> QED
      BY <2>1, <3>3, <3>4, <3>5 DEF UrgentOK
  <2> QED
    BY <2>2, <2>3, <2>4
<1> QED
  BY <1>2, <1>4, UrgentSame

LEMMA UrgentTake ==
  ASSUME UInv, IInv', TicksOK', NEW t \in Tasks, xQueueSemaphoreTake(t)
  PROVE  UInv'
<1>1. IInv
  BY DEF UInv
<1>2. (\E k \in Mutexes : Tries(t, k)) \/ (pc[t] \in {"idle", "try"} /\ Fails(t))
  BY <1>1, TakeIs
<1> QED
  BY <1>2, UrgentTry, UrgentFail

\* The holder has the priority of the task that goes to sleep, or had a higher one.
LEMMA UrgentBlock ==
  ASSUME UInv, IInv', TicksOK', NEW t \in Tasks, BlockOnMutex(t)
  PROVE  UInv'
<1>0. PICK k \in Mutexes : k = xSemaphore[t]
  BY DEF UInv, IInv, TypeOK
<1>1. /\ pc[t] = "suspend" /\ ~Blocked(t) /\ k \in Mutexes
      /\ UNCHANGED <<xMutexHolder, uxBasePriority, uxMutexesHeld, xSemaphore, disturbed>>
      /\ GoTo(t, IF t \in expired THEN "recheck" ELSE "try")
  BY <1>0 DEF BlockOnMutex, Runs, mutexVars, UInv, IInv, TypeOK
<1>2. \/ /\ t \notin expired /\ prvIsQueueEmpty(k)
         /\ xTaskPriorityInherit(xMutexHolder[k], t) /\ PlaceOnEventList(t, k)
      \/ UNCHANGED <<uxPriority, xItemPriority, xInheritanceOccurred, xTasksWaitingToReceive>>
  BY <1>0 DEF BlockOnMutex
<1>3. /\ pc'[t] \in {"recheck", "try"} /\ (t \notin expired => pc'[t] = "try")
      /\ \A u \in Tasks : u # t => pc'[u] = pc[u] /\ xTicksToWait'[u] = xTicksToWait[u]
      /\ ~LastLook(t)'
  <2>1. xTicksToWait[t] # "no"
    BY <1>1 DEF UInv, TicksOK
  <2> QED
    BY <1>1, <2>1 DEF BlockOnMutex, LastLook, GoTo, UInv, IInv, TypeOK
<1>4. \A u \in Tasks, m \in Mutexes : Takes(u, m) <=> Takes(u, m)'
  BY <1>1, <1>3 DEF Takes, Taking
<1>5. CASE UNCHANGED <<uxPriority, xItemPriority, xInheritanceOccurred, xTasksWaitingToReceive>>
  <2>1. ASSUME NEW m \in Mutexes \ disturbed
        PROVE  GoesOn(m)
    <3>1. WaitersFor(m)' = WaitersFor(m) /\ Waiters(xTasksWaitingToReceive'[m]) = WaitersFor(m)
      BY <1>5 DEF WaitersFor
    <3>2. \A u \in Tasks : /\ AwakeIn(u, m) => AwakeIn(u, m)'
                           /\ pc[u] = "try" => pc'[u] = "try"
      BY <1>1, <1>3, <1>4, <3>1 DEF AwakeIn, LastLook
    <3>3. xMutexHolder[m] # NoTask => uxPriority[xMutexHolder[m]] \in Int
      BY MutexAssumption DEF UInv, IInv, TypeOK, Priorities
    <3>4. IsOrdered(xTasksWaitingToReceive'[m], xItemPriority')
      BY <1>5, <2>1, AloneFacts DEF UrgentOK, UsedAlone
    <3>5. /\ \A u \in Tasks : Takes(u, m) => uxMutexesHeld[u] = 0
          /\ \A u \in WaitersFor(m) : Takes(u, m)
      BY <2>1, AloneFacts
    <3> QED
      BY <1>1, <1>4, <1>5, <3>1, <3>2, <3>3, <3>4, <3>5 DEF GoesOn
  <2> QED
    BY <1>1, <1>5, <2>1, UrgentSame
<1>6. CASE /\ t \notin expired /\ prvIsQueueEmpty(k)
           /\ xTaskPriorityInherit(xMutexHolder[k], t) /\ PlaceOnEventList(t, k)
  <2> DEFINE h == xMutexHolder[k]
  <2>1. h \in Tasks
    BY <1>1, <1>6 DEF prvIsQueueEmpty, UInv, IInv, TypeOK
  <2>2. /\ \A u \in Tasks : u # h => uxPriority'[u] = uxPriority[u]
                                     /\ xItemPriority'[u] = xItemPriority[u]
        /\ uxPriority'[h] >= uxPriority[h] /\ uxPriority'[h] >= uxPriority[t]
        /\ \/ uxPriority'[h] = uxPriority[h] /\ xItemPriority'[h] = xItemPriority[h]
           \/ uxPriority'[h] = xItemPriority'[h]
    BY <1>6, <2>1, InheritEffect DEF UInv, IInv
  <2>3. xTasksWaitingToReceive' = [xTasksWaitingToReceive EXCEPT
                                     ![k] = vListInsert(xTasksWaitingToReceive[k], t, xItemPriority)]
    BY <1>6 DEF PlaceOnEventList
  <2> HIDE DEF h
  <2>4. ItemsOK'
    <3>1. ASSUME NEW u \in Tasks
          PROVE  xItemPriority'[u] \in {uxPriority'[u], uxBasePriority'[u]}
      BY <1>1, <2>2 DEF UInv, ItemsOK
    <3> QED
      BY <3>1 DEF ItemsOK
  <2>5. ASSUME NEW m \in Mutexes \ disturbed, m # k
        PROVE  UrgentOK(m)'
    <3>1. xTasksWaitingToReceive'[m] = xTasksWaitingToReceive[m]
      BY <2>3, <2>5 DEF UInv, IInv, TypeOK
    <3>2. xMutexHolder[m] # h
      BY <1>1, <2>1, <2>5, AloneFacts, MutexAssumption DEF h
    <3>3. ~Takes(h, m)
      BY <1>1, <2>1, <2>5, AloneFacts DEF h
    <3>4. ~Takes(t, m)
      BY <1>0, <2>5 DEF Takes
    <3>5. Untouched(m)
      BY <1>1, <1>3, <1>4, <2>2, <3>1, <3>2, <3>3, <3>4 DEF Untouched
    <3>6. GoesOn(m)
      BY <2>5, <3>5, UntouchedGoesOn
    <3> QED
      BY <2>5, <3>6, UrgentGoesOn DEF UInv
  <2>6. ASSUME k \notin disturbed
        PROVE  UrgentOK(k)'
    <3> DEFINE list == xTasksWaitingToReceive[k]
               new == vListInsert(list, t, xItemPriority)
    <3>1. list \in Seq(Tasks) /\ OnceEach(list) /\ t \notin Waiters(list)
      BY <1>1 DEF UInv, IInv, TypeOK, ListsOK, Blocked, WaitersFor
    <3>2. Waiters(new) = Waiters(list) \cup {t}
      BY <3>1, InsertWaits
    <3>3. IsOrdered(list, xItemPriority)
      BY <1>1, <2>6, AloneFacts DEF UrgentOK, UsedAlone
    <3>4. IsOrdered(new, xItemPriority)
      <4>1. \A s \in Tasks : xItemPriority[s] \in Int
        BY MutexAssumption DEF UInv, IInv, TypeOK, Priorities
      <4> QED
        BY <3>1, <3>3, <4>1, InsertOrdered
    <3>5. xTasksWaitingToReceive'[k] = new
      BY <1>1, <2>3 DEF UInv, IInv, TypeOK
    <3> HIDE DEF new, list
    <3>6. Takes(t, k)
      BY <1>0, <1>1 DEF Takes, Taking
    <3>7. \A u \in Tasks : Takes(u, k) => u # h
      BY <1>1, <2>6, AloneFacts DEF h
    <3>8. \A u \in WaitersFor(k) \cup {t} : u \in Tasks /\ Takes(u, k)
      BY <1>1, <2>6, <3>6, AloneFacts
    <3>9. Waiters(xTasksWaitingToReceive'[k]) = WaitersFor(k) \cup {t}
      BY <3>2, <3>5 DEF WaitersFor, list
    <3>10. IsOrdered(xTasksWaitingToReceive'[k], xItemPriority')
      <4>1. \A u \in Waiters(new) : xItemPriority'[u] = xItemPriority[u]
        BY <2>2, <3>5, <3>7, <3>8, <3>9
      <4> QED
        BY <3>4, <3>5, <4>1, OrderSame
    <3>11. Covered(t, k) /\ xMutexHolder[k] # NoTask
      BY <2>1, <2>2, MutexAssumption DEF Covered, h
    <3>12. \A u \in Tasks : AwakeIn(u, k) /\ u # t => AwakeIn(u, k)' /\ pc'[u] = pc[u]
      BY <1>3, <1>4, <1>1, <3>9 DEF AwakeIn, LastLook, WaitersFor
    <3>13. /\ \A u \in Tasks : Takes(u, k)' => uxMutexesHeld'[u] = 0
           /\ \A u \in Tasks : Takes(u, k) => uxPriority'[u] = uxPriority[u]
      BY <1>1, <1>4, <2>2, <2>6, <3>7, AloneFacts
    <3>14. GoesOn(k)
      <4>1. xMutexHolder'[k] = xMutexHolder[k]
        BY <1>1
      <4>2. \A u \in Waiters(xTasksWaitingToReceive'[k]) :
              Takes(u, k) /\ (u \in WaitersFor(k) \/ Covered(u, k))
        BY <3>8, <3>9, <3>11
      <4>3. \A u \in Tasks : AwakeIn(u, k) => AwakeIn(u, k)' \/ Covered(u, k)
        BY <3>11, <3>12
      <4>4. /\ uxMutexesHeld'[xMutexHolder[k]] = uxMutexesHeld[xMutexHolder[k]]
            /\ uxPriority'[xMutexHolder[k]] >= uxPriority[xMutexHolder[k]]
        BY <1>1, <2>2 DEF h
      <4> QED
        BY <3>10, <3>11, <3>13, <4>1, <4>2, <4>3, <4>4 DEF GoesOn
    <3> QED
      BY <1>1, <2>6, <3>14, UrgentGoesOn DEF UInv
  <2> QED
    BY <1>1, <2>4, <2>5, <2>6 DEF UInv
<1> QED
  BY <1>2, <1>5, <1>6

LEMMA UrgentRecheck ==
  ASSUME UInv, IInv', TicksOK', NEW t \in Tasks, RecheckEmpty(t)
  PROVE  UInv'
<1>0. PICK k \in Mutexes : k = xSemaphore[t]
  BY DEF UInv, IInv, TypeOK
<1>1. /\ pc[t] = "recheck" /\ k \in Mutexes
      /\ UNCHANGED <<xMutexHolder, xTasksWaitingToReceive, uxPriority,
                     uxBasePriority, xItemPriority, uxMutexesHeld, xSemaphore>>
  BY <1>0 DEF RecheckEmpty, Runs, mutexVars, prioVars, UInv, IInv, TypeOK
<1>2. \/ GoTo(t, "try") /\ UNCHANGED <<disturbed, xTicksToWait>> /\ ~prvIsQueueEmpty(k)
      \/ GoTo(t, "disinherit") /\ UNCHANGED disturbed
      \/ /\ GoTo(t, "idle") /\ NoteOvertaken(t, k) /\ prvIsQueueEmpty(k)
  BY <1>0 DEF RecheckEmpty, Return, Waiting
<1>3. \A u \in Tasks : u # t => pc'[u] = pc[u] /\ xTicksToWait'[u] = xTicksToWait[u]
  BY <1>2 DEF RecheckEmpty, Return, Waiting, GoTo, UInv, IInv, TypeOK
<1>4. ASSUME NEW m \in Mutexes, m \notin disturbed'
      PROVE  m \notin disturbed /\ GoesOn(m)
  <2>1. m \notin disturbed
    BY <1>2, <1>4 DEF NoteOvertaken
  <2>2. WaitersFor(m)' = WaitersFor(m) /\ Waiters(xTasksWaitingToReceive'[m]) = WaitersFor(m)
    BY <1>1 DEF WaitersFor
  <2>3. \A u \in Tasks : u # t /\ AwakeIn(u, m) => AwakeIn(u, m)' /\ pc'[u] = pc[u]
    BY <1>1, <1>3, <2>2 DEF AwakeIn, LastLook, Takes
  <2>4. AwakeIn(t, m) /\ xMutexHolder[m] # NoTask => AwakeIn(t, m)' \/ Covered(t, m)
    <3>1. CASE GoTo(t, "disinherit")
      BY <1>1, <2>2, <3>1 DEF GoTo, AwakeIn, LastLook, Takes, Taking, UInv, IInv, TypeOK
    <3>3. CASE ~prvIsQueueEmpty(k)
      BY <1>0, <3>3 DEF prvIsQueueEmpty, AwakeIn, Takes
    <3>2. CASE NoteOvertaken(t, k) /\ prvIsQueueEmpty(k)
      <4>1. ASSUME m = k
            PROVE  Covered(t, m)
        <5>1. ~(uxPriority[xMutexHolder[k]] < uxPriority[t]) /\ xMutexHolder[k] # NoTask
          BY <1>4, <3>2, <4>1 DEF NoteOvertaken, prvIsQueueEmpty
        <5>2. uxPriority[xMutexHolder[k]] \in Int /\ uxPriority[t] \in Int
          BY <1>1, <5>1, MutexAssumption DEF UInv, IInv, TypeOK, Priorities
        <5> QED
          BY <1>1, <4>1, <5>1, <5>2 DEF Covered
      <4> QED
        BY <1>0, <4>1 DEF AwakeIn, Takes
    <3> QED
      BY <1>2, <3>1, <3>2, <3>3
  <2>5. \A u \in Tasks : Takes(u, m)' => uxMutexesHeld'[u] = 0
    <3>1. \A u \in Tasks : Takes(u, m)' => Takes(u, m)
      BY <1>1, <1>3 DEF Takes, Taking
    <3> QED
      BY <1>1, <2>1, <3>1, AloneFacts
  <2>6. xMutexHolder[m] # NoTask => uxPriority[xMutexHolder[m]] \in Int
    BY MutexAssumption DEF UInv, IInv, TypeOK, Priorities
  <2>7. IsOrdered(xTasksWaitingToReceive'[m], xItemPriority') /\ \A u \in WaitersFor(m) : Takes(u, m)
    BY <1>1, <2>1, AloneFacts DEF UrgentOK, UsedAlone
  <2>8. GoesOn(m)
    BY <1>1, <2>2, <2>3, <2>4, <2>5, <2>6, <2>7 DEF GoesOn
  <2> QED
    BY <2>1, <2>8
<1> QED
  BY <1>1, <1>4, UrgentSame
\* A holder of this mutex alone does not fall below the first waiter, which is as
\* urgent as any.
LEMMA UrgentDisinherit ==
  ASSUME UInv, IInv', TicksOK', NEW t \in Tasks, DisinheritAfterTimeout(t)
  PROVE  UInv'
<1>0. PICK k \in Mutexes : k = xSemaphore[t]
  BY DEF UInv, IInv, TypeOK
<1>1. /\ pc[t] = "disinherit"
      /\ UNCHANGED <<xMutexHolder, xTasksWaitingToReceive, uxBasePriority, uxMutexesHeld,
                     xSemaphore, disturbed>>
      /\ GoTo(t, "idle")
  BY DEF DisinheritAfterTimeout, Runs, mutexVars, Return
<1>2. /\ pc'[t] = "idle"
      /\ \A u \in Tasks : u # t => pc'[u] = pc[u] /\ xTicksToWait'[u] = xTicksToWait[u]
  BY <1>1 DEF DisinheritAfterTimeout, Return, GoTo, UInv, IInv, TypeOK
<1> DEFINE h == xMutexHolder[k]
           waiting == prvGetDisinheritPriorityAfterTimeout(k)
<1>3. /\ \A u \in Tasks : u # h \/ uxMutexesHeld[u] # 1
           => uxPriority'[u] = uxPriority[u] /\ xItemPriority'[u] = xItemPriority[u]
      /\ h \in Tasks
           => \/ uxPriority'[h] = uxPriority[h] /\ xItemPriority'[h] = xItemPriority[h]
              \/ uxPriority'[h] = xItemPriority'[h]
      /\ h \in Tasks /\ uxMutexesHeld[h] = 1 => uxPriority'[h] >= waiting
  <2>1. waiting \in Priorities
    BY HeadType DEF UInv, IInv
  <2>2. h \in Tasks \cup {NoTask}
    BY DEF UInv, IInv, TypeOK
  <2>3. vTaskPriorityDisinheritAfterTimeout(h, waiting)
    BY <1>0 DEF DisinheritAfterTimeout
  <2> HIDE DEF h, waiting
  <2> QED
    BY <2>1, <2>2, <2>3, TimeoutEffect DEF UInv, IInv
<1>4. ItemsOK'
  <2>1. ASSUME NEW u \in Tasks
        PROVE  xItemPriority'[u] \in {uxPriority'[u], uxBasePriority'[u]}
    BY <1>1, <1>3 DEF UInv, ItemsOK
  <2> QED
    BY <2>1 DEF ItemsOK
<1>5. ASSUME NEW m \in Mutexes \ disturbed, m # k
      PROVE  UrgentOK(m)'
  <2>1. ~Takes(t, m)
    BY <1>0, <1>5 DEF Takes
  <2>2. xMutexHolder[m] # h \/ h = NoTask
    BY <1>5, AloneFacts
  <2>3. \A u \in Tasks : Takes(u, m) => u # h
    BY <1>5, AloneFacts
  <2>4. \A u \in Tasks : Takes(u, m) <=> Takes(u, m)'
    BY <1>1, <1>2, <2>1 DEF Takes, Taking
  <2>5. Untouched(m)
    BY <1>1, <1>2, <1>3, <2>1, <2>2, <2>3, <2>4, MutexAssumption DEF Untouched
  <2>6. GoesOn(m)
    BY <1>5, <2>5, UntouchedGoesOn
  <2> QED
    BY <1>5, <2>6, UrgentGoesOn DEF UInv
<1>6. ASSUME k \notin disturbed
      PROVE  UrgentOK(k)'
  <2> DEFINE list == xTasksWaitingToReceive[k]
  <2>1. WaitersFor(k)' = WaitersFor(k) /\ Waiters(xTasksWaitingToReceive'[k]) = WaitersFor(k)
    BY <1>1 DEF WaitersFor
  <2>2. /\ \A u \in Tasks : Takes(u, k) => uxPriority'[u] = uxPriority[u]
        /\ \A u \in Tasks : Takes(u, k) => uxMutexesHeld'[u] = 0
        /\ \A u \in Tasks : Takes(u, k) => xItemPriority'[u] = xItemPriority[u]
        /\ \A u \in Tasks : Takes(u, k)' => Takes(u, k)
    <3>1. \A u \in Tasks : Takes(u, k)' => Takes(u, k)
      BY <1>1, <1>2 DEF Takes, Taking
    <3>2. \A u \in Tasks : Takes(u, k) => uxMutexesHeld[u] = 0
      BY <1>6, AloneFacts
    <3> QED
      BY <1>1, <1>3, <3>1, <3>2
  <2>3. /\ IsOrdered(list, xItemPriority)
        /\ \A u \in WaitersFor(k) : u \in Tasks /\ Takes(u, k) /\ pc[u] = "try"
                                    /\ xItemPriority[u] = uxPriority[u]
    BY <1>6, AloneFacts DEF UrgentOK, UsedAlone
  <2>4. IsOrdered(xTasksWaitingToReceive'[k], xItemPriority')
    <3>1. \A u \in Waiters(list) : xItemPriority'[u] = xItemPriority[u]
      BY <2>2, <2>3 DEF WaitersFor
    <3> QED
      BY <1>1, <2>3, <3>1, OrderSame
  <2>5. ASSUME h # NoTask, NEW u \in WaitersFor(k)
        PROVE  uxPriority'[h] >= uxPriority[u]
    <3>1. h \in Tasks /\ uxMutexesHeld[h] = 1
      BY <1>6, <2>5, AloneFacts
    <3>2. list \in Seq(Tasks) /\ list # <<>>
      <4>1. list \in Seq(Tasks)
        BY DEF UInv, IInv, TypeOK
      <4> QED
        BY <2>5, <4>1, ListType DEF WaitersFor
    <3>3. \A s \in Tasks : xItemPriority[s] \in Int /\ uxPriority'[s] \in Int
      BY MutexAssumption DEF UInv, IInv, TypeOK, Priorities
    <3>4. /\ xItemPriority[Head(list)] >= xItemPriority[u] /\ Head(list) \in Tasks
      <4>1. Head(list) = list[1] /\ \A s \in Waiters(list) : xItemPriority[list[1]] >= xItemPriority[s]
        BY <2>3, <3>2, <3>3, FirstIsUrgent
      <4>2. Head(list) \in Tasks
        BY <3>2
      <4> QED
        BY <2>5, <4>1, <4>2 DEF WaitersFor
    <3>5. waiting = xItemPriority[Head(list)]
      BY <3>2 DEF prvGetDisinheritPriorityAfterTimeout
    <3>6. u \in Tasks /\ xItemPriority[u] = uxPriority[u]
      BY <2>3, <2>5
    <3>7. uxPriority'[h] >= waiting
      BY <1>3, <3>1
    <3> HIDE DEF h, waiting, list
    <3> QED
      BY <3>1, <3>3, <3>4, <3>5, <3>6, <3>7
  <2>6. \A u \in Tasks : u # t /\ AwakeIn(u, k) => AwakeIn(u, k)' /\ pc'[u] = pc[u]
    BY <1>1, <1>2, <2>1 DEF AwakeIn, LastLook, Takes
  <2>7. UsedAlone(k)'
    <3>1. \A u \in Tasks : Takes(u, k)' => uxMutexesHeld'[u] = 0
      BY <2>2
    <3>2. xMutexHolder'[k] # NoTask => uxMutexesHeld'[xMutexHolder'[k]] = 1
      BY <1>1, <1>6, AloneFacts
    <3>3. IsOrdered(xTasksWaitingToReceive[k], xItemPriority)'
      BY <2>4 DEF IsOrdered
    <3> QED
      BY <3>1, <3>2, <3>3, Zenon DEF UsedAlone
  <2>8. WokenIsUrgent(k)'
    <3>1. ASSUME xMutexHolder'[k] = NoTask, NEW w \in WaitersFor(k)
          PROVE  \E u \in Tasks : AwakeIn(u, k)' /\ pc'[u] = "try" /\ uxPriority'[u] >= uxPriority'[w]
      <4>1. PICK u \in Tasks : AwakeIn(u, k) /\ pc[u] = "try" /\ uxPriority[u] >= uxPriority[w]
        BY <1>1, <1>6, <3>1, AloneFacts DEF UrgentOK, WokenIsUrgent
      <4>2. AwakeIn(u, k)' /\ pc'[u] = "try"
        BY <1>1, <2>6, <4>1
      <4>3. uxPriority'[u] = uxPriority[u] /\ uxPriority'[w] = uxPriority[w]
        BY <2>2, <2>3, <3>1, <4>1 DEF AwakeIn
      <4> QED
        BY <4>1, <4>2, <4>3
    <3> QED
      BY <2>1, <3>1 DEF WokenIsUrgent
  <2>9. HolderIsUrgent(k)'
    <3>1. ASSUME xMutexHolder'[k] # NoTask, NEW w \in WaitersFor(k)
          PROVE  uxPriority'[xMutexHolder'[k]] >= uxPriority'[w]
      BY <1>1, <2>2, <2>3, <2>5, <3>1
    <3> QED
      BY <2>1, <3>1 DEF HolderIsUrgent
  <2> QED
    BY <2>7, <2>8, <2>9 DEF UrgentOK
<1> QED
  BY <1>1, <1>4, <1>5, <1>6 DEF UInv

\* Who is taken off a list is awake, and lends its priority until it leaves.
LEMMA UrgentTick ==
  ASSUME UInv, IInv', TicksOK', NEW t \in Tasks, xTaskIncrementTick(t)
  PROVE  UInv'
<1>1. UNCHANGED <<xMutexHolder, uxPriority, uxBasePriority, xItemPriority, uxMutexesHeld,
                  pc, xSemaphore, xTicksToWait, disturbed>>
  BY DEF xTaskIncrementTick, mutexVars, prioVars
<1>2. ASSUME NEW m \in Mutexes \ disturbed
      PROVE  GoesOn(m)
  <2>1. xTasksWaitingToReceive[m] \in Seq(Tasks) /\ OnceEach(xTasksWaitingToReceive[m])
    BY DEF UInv, IInv, TypeOK, ListsOK
  <2>2. xTasksWaitingToReceive'[m] = uxListRemove(xTasksWaitingToReceive[m], t)
    BY DEF xTaskIncrementTick
  <2>3. Waiters(xTasksWaitingToReceive'[m]) = WaitersFor(m) \ {t} /\ WaitersFor(m)' = WaitersFor(m) \ {t}
    BY <2>1, <2>2, RemoveWaits DEF WaitersFor
  <2>4. IsOrdered(xTasksWaitingToReceive'[m], xItemPriority')
    <3>1. IsOrdered(xTasksWaitingToReceive[m], xItemPriority)
      BY <1>2, AloneFacts DEF UrgentOK, UsedAlone
    <3> QED
      BY <1>1, <2>1, <2>2, <3>1, RemoveOrdered
  <2>5. \A u \in Tasks : AwakeIn(u, m) => AwakeIn(u, m)'
    BY <1>1, <2>3 DEF AwakeIn, LastLook, Takes
  <2>6. \A u \in Tasks : Takes(u, m)' => uxMutexesHeld'[u] = 0
    BY <1>1, <1>2, AloneFacts DEF Takes
  <2>7. xMutexHolder[m] # NoTask => uxPriority[xMutexHolder[m]] \in Int
    BY MutexAssumption DEF UInv, IInv, TypeOK, Priorities
  <2>8. \A u \in WaitersFor(m) : Takes(u, m)
    BY <1>2, AloneFacts
  <2> QED
    BY <1>1, <2>3, <2>4, <2>5, <2>6, <2>7, <2>8 DEF GoesOn
<1> QED
  BY <1>1, <1>2, UrgentSame

\* Recursive calls of a holder touch no priority.
LEMMA UrgentRecursive ==
  ASSUME UInv, IInv', TicksOK', NEW t \in Tasks,
         xQueueTakeMutexRecursive(t) \/ xQueueGiveMutexRecursive(t)
  PROVE  UInv'
<1>1. /\ UNCHANGED <<xMutexHolder, xTasksWaitingToReceive, uxPriority, uxBasePriority,
                     xItemPriority, uxMutexesHeld, disturbed, xTicksToWait>>
      /\ pc[t] \notin Taking /\ pc'[t] \notin Taking
      /\ \A u \in Tasks : u # t => pc'[u] = pc[u] /\ xSemaphore'[u] = xSemaphore[u]
  <2>1. CASE xQueueTakeMutexRecursive(t)
    BY <2>1 DEF xQueueTakeMutexRecursive, Runs, GoTo, prioVars, Taking, UInv, IInv, TypeOK
  <2>2. CASE xQueueGiveMutexRecursive(t)
    BY <2>2 DEF xQueueGiveMutexRecursive, Runs, GoTo, prioVars, Taking, UInv, IInv, TypeOK
  <2> QED
    BY <2>1, <2>2
<1>2. \A m \in Mutexes : Untouched(m)
  BY <1>1 DEF Untouched, Takes
<1> QED
  BY <1>1, <1>2, UrgentSame

\* Only mutexes the task does not use go on undisturbed.
LEMMA UrgentSet ==
  ASSUME UInv, IInv', TicksOK', NEW t \in Tasks, NEW p \in Priorities, vTaskPrioritySet(t, p)
  PROVE  UInv'
<1>1. /\ UNCHANGED <<xMutexHolder, xTasksWaitingToReceive, uxMutexesHeld, pc, xSemaphore,
                     xTicksToWait>>
      /\ disturbed' = disturbed \cup UsedBy(t)
  BY DEF vTaskPrioritySet, mutexVars, takeVars
<1>2. /\ \A u \in Tasks : u # t => /\ uxPriority'[u] = uxPriority[u]
                                   /\ xItemPriority'[u] = xItemPriority[u]
                                   /\ uxBasePriority'[u] = uxBasePriority[u]
      /\ xItemPriority'[t] = p /\ uxBasePriority'[t] = p
  BY DEF vTaskPrioritySet, UInv, IInv, TypeOK
<1>3. ItemsOK'
  <2>1. ASSUME NEW u \in Tasks
        PROVE  xItemPriority'[u] \in {uxPriority'[u], uxBasePriority'[u]}
    BY <1>2 DEF UInv, ItemsOK
  <2> QED
    BY <2>1 DEF ItemsOK
<1>4. ASSUME NEW m \in Mutexes, m \notin disturbed'
      PROVE  UrgentOK(m)'
  <2>1. m \notin disturbed /\ xMutexHolder[m] # t /\ ~Takes(t, m)
    BY <1>1, <1>4 DEF UsedBy, Takes, Taking
  <2>2. Untouched(m)
    BY <1>1, <1>2, <2>1 DEF Untouched, Takes
  <2>3. GoesOn(m)
    BY <2>1, <2>2, UntouchedGoesOn
  <2> QED
    BY <2>1, <2>3, UrgentGoesOn DEF UInv
<1> QED
  BY <1>3, <1>4 DEF UInv
\* The task that is woken was the first, and as urgent as any.
LEMMA UrgentSend ==
  ASSUME UInv, IInv', TicksOK', NEW t \in Tasks, xQueueGenericSend(t)
  PROVE  UInv'
<1>1. PICK k \in Mutexes : Gives(t, k)
  BY GivesOne
<1>2. /\ xTaskPriorityDisinherit(t) /\ GoTo(t, "idle")
      /\ UNCHANGED <<uxBasePriority, xSemaphore, xTicksToWait, disturbed>>
  BY DEF xQueueGenericSend
<1>3. pc[t] \notin Taking /\ pc'[t] = "idle" /\ \A u \in Tasks : u # t => pc'[u] = pc[u]
  BY <1>1, <1>2 DEF Gives, Taking, GoTo, UInv, IInv, TypeOK
<1>4. /\ \A u \in Tasks : u # t => /\ uxPriority'[u] = uxPriority[u]
                                   /\ xItemPriority'[u] = xItemPriority[u]
                                   /\ uxMutexesHeld'[u] = uxMutexesHeld[u]
      /\ \/ uxPriority'[t] = uxPriority[t] /\ xItemPriority'[t] = xItemPriority[t]
         \/ uxPriority'[t] = xItemPriority'[t]
  BY <1>2, DisinheritEffect DEF UInv, IInv
<1>5. /\ xMutexHolder[k] = t
      /\ \A n \in Mutexes : xMutexHolder'[n] = IF n = k THEN NoTask ELSE xMutexHolder[n]
  BY <1>1 DEF Gives, UInv, IInv, TypeOK
<1> DEFINE list == xTasksWaitingToReceive[k]
<1>6. /\ \A n \in Mutexes : n # k => xTasksWaitingToReceive'[n] = xTasksWaitingToReceive[n]
      /\ \/ list = <<>> /\ xTasksWaitingToReceive'[k] = <<>>
         \/ /\ list # <<>> /\ list[1] \in WaitersFor(k) /\ list[1] \in Tasks
            /\ xTasksWaitingToReceive'[k] = AfterFirst(list, 1)
            /\ Waiters(xTasksWaitingToReceive'[k]) = WaitersFor(k) \ {list[1]}
  BY <1>1, GiveEffect DEF UInv
<1>7. ItemsOK'
  <2>1. ASSUME NEW u \in Tasks
        PROVE  xItemPriority'[u] \in {uxPriority'[u], uxBasePriority'[u]}
    BY <1>2, <1>4 DEF UInv, ItemsOK
  <2> QED
    BY <2>1 DEF ItemsOK
<1>8. \A u \in Tasks, m \in Mutexes : Takes(u, m) <=> Takes(u, m)'
  BY <1>2, <1>3 DEF Takes, Taking
<1>9. \A u \in Tasks, m \in Mutexes : Takes(u, m) => u # t
  BY <1>3 DEF Takes
<1>10. ASSUME NEW m \in Mutexes \ disturbed, m # k
       PROVE  UrgentOK(m)'
  <2>1. xMutexHolder[m] # t
    BY <1>5, <1>10, AloneFacts, MutexAssumption
  <2>2. Untouched(m)
    BY <1>2, <1>3, <1>4, <1>5, <1>6, <1>8, <1>9, <1>10, <2>1 DEF Untouched
  <2>3. GoesOn(m)
    BY <1>10, <2>2, UntouchedGoesOn
  <2> QED
    BY <1>10, <2>3, UrgentGoesOn DEF UInv
<1>11. ASSUME k \notin disturbed
       PROVE  UrgentOK(k)'
  <2>1. /\ IsOrdered(list, xItemPriority)
        /\ \A u \in WaitersFor(k) : u \in Tasks /\ Takes(u, k) /\ pc[u] = "try"
                                    /\ xItemPriority[u] = uxPriority[u]
        /\ \A u \in Tasks : Takes(u, k) => uxMutexesHeld[u] = 0
    BY <1>11, AloneFacts DEF UrgentOK, UsedAlone
  <2>2. list \in Seq(Tasks) /\ \A u \in Tasks : xItemPriority[u] \in Int
    BY MutexAssumption DEF UInv, IInv, TypeOK, Priorities
  <2>3. list # <<>>
          => /\ \A u \in Waiters(list) : xItemPriority[list[1]] >= xItemPriority[u]
             /\ IsOrdered(AfterFirst(list, 1), xItemPriority)
    BY <2>1, <2>2, FirstIsUrgent
  <2>4. Waiters(xTasksWaitingToReceive'[k]) \subseteq WaitersFor(k)
    <3>1. Waiters(<<>>) = {}
      BY EmptyList
    <3> QED
      BY <1>6, <3>1
  <2>5. UsedAlone(k)'
    <3>1. \A u \in Tasks : Takes(u, k)' => uxMutexesHeld'[u] = 0
      BY <1>4, <1>8, <1>9, <2>1
    <3>2. IsOrdered(xTasksWaitingToReceive'[k], xItemPriority)
      BY <1>6, <2>3, EmptyOrdered
    <3>3. \A u \in Waiters(xTasksWaitingToReceive'[k]) : xItemPriority'[u] = xItemPriority[u]
      BY <1>4, <1>9, <2>1, <2>4
    <3>4. IsOrdered(xTasksWaitingToReceive'[k], xItemPriority')
      BY <3>2, <3>3, OrderSame
    <3>5. IsOrdered(xTasksWaitingToReceive[k], xItemPriority)'
      BY <3>4 DEF IsOrdered
    <3>6. xMutexHolder'[k] = NoTask
      BY <1>5
    <3> QED
      BY <3>1, <3>5, <3>6, Zenon DEF UsedAlone
  <2>6. HolderIsUrgent(k)'
    BY <1>5 DEF HolderIsUrgent
  <2>7. WokenIsUrgent(k)'
    <3>1. ASSUME NEW w \in Waiters(xTasksWaitingToReceive'[k])
          PROVE  \E u \in Tasks : AwakeIn(u, k)' /\ pc'[u] = "try" /\ uxPriority'[u] >= uxPriority'[w]
      <4>1. /\ list # <<>> /\ list[1] \in WaitersFor(k)
            /\ Waiters(xTasksWaitingToReceive'[k]) = WaitersFor(k) \ {list[1]}
        <5>1. Waiters(<<>>) = {}
          BY EmptyList
        <5> QED
          BY <1>6, <3>1, <5>1
      <4>2. w \in WaitersFor(k)
        BY <2>4, <3>1
      <4>3. PICK first \in Tasks : first = list[1]
        BY <1>6, <4>1
      <4>4. xItemPriority[first] >= xItemPriority[w]
        BY <2>3, <4>1, <4>2, <4>3 DEF WaitersFor
      <4>5. /\ first \in WaitersFor(k) /\ Waiters(xTasksWaitingToReceive'[k]) = WaitersFor(k) \ {first}
        BY <4>1, <4>3
      <4>6. /\ first \in Tasks /\ Takes(first, k) /\ pc[first] = "try"
            /\ uxPriority[first] = xItemPriority[first]
            /\ w \in Tasks /\ uxPriority[w] = xItemPriority[w] /\ Takes(w, k)
        BY <2>1, <4>2, <4>5
      <4>7. first # t /\ w # t
        BY <1>9, <4>6
      <4>8. uxPriority'[first] = xItemPriority[first] /\ uxPriority'[w] = xItemPriority[w]
        BY <1>4, <4>6, <4>7
      <4>9. pc'[first] = "try" /\ Takes(first, k)' /\ ~LastLook(first)'
        <5>1. xTicksToWait[first] # "no"
          BY <4>5, <4>6 DEF UInv, TicksOK, Blocked
        <5> QED
          BY <1>2, <1>3, <4>6, <4>7, <5>1 DEF Takes, LastLook
      <4>10. \E u \in Tasks : Takes(u, k)' /\ ~LastLook(u)' /\ u \notin Waiters(xTasksWaitingToReceive'[k])
                             /\ pc'[u] = "try" /\ uxPriority'[u] >= uxPriority'[w]
        BY <4>4, <4>5, <4>6, <4>8, <4>9
      <4> QED
        BY <4>10 DEF AwakeIn, WaitersFor
    <3> QED
      BY <3>1, Zenon DEF WokenIsUrgent, WaitersFor
  <2> QED
    BY <2>5, <2>6, <2>7 DEF UrgentOK
<1> QED
  BY <1>2, <1>7, <1>10, <1>11 DEF UInv

LEMMA UrgentInit ==
  ASSUME Init
  PROVE  UInv
<1>1. IInv
  BY InitEstablishes
<1>2. ItemsOK
  BY DEF Init, ItemsOK
<1>4. TicksOK
  <2>1. \A m \in Mutexes : WaitersFor(m) = {}
    BY EmptyList DEF Init, prvInitialiseMutex, WaitersFor
  <2> QED
    BY <2>1 DEF Init, TicksOK, Blocked
<1>3. ASSUME NEW m \in Mutexes
      PROVE  UrgentOK(m)
  <2>1. xTasksWaitingToReceive[m] = <<>> /\ xMutexHolder[m] = NoTask
    BY DEF Init, prvInitialiseMutex
  <2>2. WaitersFor(m) = {}
    BY <2>1, EmptyList DEF WaitersFor
  <2>3. UsedAlone(m)
    BY <2>1, EmptyOrdered DEF Init, UsedAlone
  <2> QED
    BY <2>2, <2>3 DEF UrgentOK, WokenIsUrgent, HolderIsUrgent
<1> QED
  BY <1>1, <1>2, <1>3, <1>4 DEF UInv

LEMMA UrgentStep ==
  ASSUME UInv, [Next]_vars
  PROVE  UInv'
<1>1. IInv'
  BY StepKeeps DEF UInv
<1>2. ASSUME NEW t \in Tasks, TaskStep(t)
      PROVE  UInv'
  <2>0. TicksOK'
    BY <1>2, TicksStep DEF UInv
  <2>1. CASE xQueueSemaphoreTake(t)
    BY <1>1, <2>0, <2>1, UrgentTake
  <2>2. CASE BlockOnMutex(t)
    BY <1>1, <2>0, <2>2, UrgentBlock
  <2>3. CASE RecheckEmpty(t)
    BY <1>1, <2>0, <2>3, UrgentRecheck
  <2>4. CASE DisinheritAfterTimeout(t)
    BY <1>1, <2>0, <2>4, UrgentDisinherit
  <2>5. CASE xTaskIncrementTick(t)
    BY <1>1, <2>0, <2>5, UrgentTick
  <2>6. CASE xQueueTakeMutexRecursive(t) \/ xQueueGiveMutexRecursive(t)
    BY <1>1, <2>0, <2>6, UrgentRecursive
  <2>7. CASE xQueueGenericSend(t)
    BY <1>1, <2>0, <2>7, UrgentSend
  <2>8. CASE \E p \in Priorities : vTaskPrioritySet(t, p)
    BY <1>1, <2>0, <2>8, UrgentSet
  <2> QED
    BY <1>2, <2>1, <2>2, <2>3, <2>4, <2>5, <2>6, <2>7, <2>8 DEF TaskStep
<1>3. CASE UNCHANGED vars
  <2>1. /\ UNCHANGED <<uxPriority, uxBasePriority, xItemPriority, disturbed>>
        /\ \A m \in Mutexes : Untouched(m)
    BY <1>3 DEF vars, mutexVars, prioVars, takeVars, Untouched, Takes
  <2>2. TicksOK'
    <3>1. \A t \in Tasks : Blocked(t)' => Blocked(t)
      BY <1>3 DEF vars, Blocked, WaitersFor
    <3> QED
      BY <1>3, <3>1 DEF UInv, TicksOK, vars, takeVars
  <2> QED
    BY <1>1, <2>1, <2>2, UrgentSame
<1> QED
  BY <1>2, <1>3 DEF Next

\* The holder of a mutex is at least as urgent as each task asleep on it, or one
\* that urgent is about to lend it its priority, or to take the mutex: for any
\* priorities and number of tasks, as long as the mutex is used on its own.
THEOREM InheritanceCorrect == Spec => []InheritsFromWaiters
<1>1. UInv => InheritsFromWaiters
  <2>1. ASSUME UInv, NEW m \in Mutexes \ disturbed, NEW t \in WaitersFor(m),
               xMutexHolder[m] # NoTask
        PROVE  \/ uxPriority[xMutexHolder[m]] >= uxPriority[t]
               \/ \E u \in Tasks : Lends(u, m) /\ uxPriority[u] >= uxPriority[t]
    <3>1. HolderIsUrgent(m)
      BY <2>1 DEF UInv, UrgentOK
    <3>2. ASSUME NEW u \in Tasks, AwakeIn(u, m)
          PROVE  Lends(u, m)
      <4>1. Takes(u, m) /\ u \notin WaitersFor(m)
        BY <3>2 DEF AwakeIn
      <4>2. ~Blocked(u)
        BY <2>1, <4>1, BlockedOnOne DEF Takes, UInv, IInv
      <4> QED
        BY <3>2, <4>1, <4>2 DEF AwakeIn, LastLook, Takes, Taking, Lends, Awake
    <3> QED
      BY <2>1, <3>1, <3>2 DEF HolderIsUrgent
  <2> QED
    BY <2>1 DEF InheritsFromWaiters
<1>2. Init => UInv
  BY UrgentInit
<1>3. UInv /\ [Next]_vars => UInv'
  BY UrgentStep
<1> QED
  BY <1>1, <1>2, <1>3, PTL DEF Spec
=============================================================================
