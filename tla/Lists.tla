-------------------------------- MODULE Lists --------------------------------
(***************************************************************************)
(* The doubly linked lists of src/src/freertos/list.c as the scheduler     *)
(* uses them: a ready list, from which the cores select tasks, and a       *)
(* delayed list sorted by wake time.  A list is a ring through its end     *)
(* marker, with an index that listGET_OWNER_OF_NEXT_ENTRY moves and        *)
(* vListInsertEnd inserts before.                                          *)
(*                                                                         *)
(* The functions work on a memory m, a record of the fields of all items   *)
(* and lists; a node is an item, or a list that stands for its end marker. *)
(* Each action is one critical section or suspended region, during which   *)
(* no other core changes a list.                                           *)
(***************************************************************************)
EXTENDS Integers, FiniteSets

CONSTANTS
  Items,                       \* the state list items, one of each task
  Cores,
  ReadyList, DelayedList,      \* pxReadyTasksLists[ n ], pxDelayedTaskList
  NoNode,
  MaxWakeTime,                 \* portMAX_DELAY
  Walks                        \* which of the functions that walk lists are called

AllLists == {ReadyList, DelayedList}
Nodes == Items \cup AllLists

ASSUME ListsAssumption ==
  /\ ReadyList # DelayedList
  /\ Items \cap AllLists = {}
  /\ NoNode \notin Nodes
  /\ MaxWakeTime \in Nat
  /\ Walks \subseteq {"xTaskGetHandle", "uxTaskGetSystemState"}

VARIABLES
  mem,                         \* the fields of items and lists
  current                      \* pxCurrentTCBs: an item, or NoNode for a task of
                               \* a lower priority
lvars == <<mem, current>>

Memory ==
  [pxNext : [Nodes -> Nodes \cup {NoNode}],
   pxPrevious : [Nodes -> Nodes \cup {NoNode}],
   pxContainer : [Items -> AllLists \cup {NoNode}],
   xItemValue : [Items -> 0 .. MaxWakeTime],
   pxIndex : [AllLists -> Nodes],
   uxNumberOfItems : [AllLists -> Nat]]

LTypeOK == mem \in Memory /\ current \in [Cores -> Items \cup {NoNode}]

-----------------------------------------------------------------------------
(* list.c and list.h.                                                      *)

\* All lists after vListInitialise, all items after vListInitialiseItem.
vListInitialise ==
  [pxNext |-> [n \in Nodes |-> IF n \in AllLists THEN n ELSE NoNode],
   pxPrevious |-> [n \in Nodes |-> IF n \in AllLists THEN n ELSE NoNode],
   pxContainer |-> [x \in Items |-> NoNode],
   xItemValue |-> [x \in Items |-> 0],
   pxIndex |-> [l \in AllLists |-> l],
   uxNumberOfItems |-> [l \in AllLists |-> 0]]

\* x becomes the node of list l between the neighbours p and n.
Linked(m, l, x, p, n) ==
  [pxNext |-> [m.pxNext EXCEPT ![x] = n, ![p] = x],
   pxPrevious |-> [m.pxPrevious EXCEPT ![x] = p, ![n] = x],
   pxContainer |-> [m.pxContainer EXCEPT ![x] = l],
   xItemValue |-> m.xItemValue,
   pxIndex |-> m.pxIndex,
   uxNumberOfItems |-> [m.uxNumberOfItems EXCEPT ![l] = @ + 1]]

vListInsertEnd(m, l, x) == Linked(m, l, x, m.pxPrevious[m.pxIndex[l]], m.pxIndex[l])

\* The nodes of l in order from node n, as a function on 0 .. uxNumberOfItems.
From(m, l, n) ==
  LET next == m.pxNext
      at[k \in 0 .. m.uxNumberOfItems[l]] ==
        IF k = 0 THEN n ELSE next[at[k - 1]]
  IN  at

InsertsMaxFirst(m, l, x) ==                                    \* mutant
  LET order == From(m, l, l)
      v == m.xItemValue[x]
      n == m.uxNumberOfItems[l]
  IN  IF v = MaxWakeTime THEN l
      ELSE LET k == CHOOSE k \in 0 .. n :
                      /\ k = n \/ m.xItemValue[order[k + 1]] > v
                      /\ \A j \in 1 .. k : m.xItemValue[order[j]] <= v
           IN  order[k]

\* The node after which vListInsert puts x.
InsertsAfter(m, l, x) ==
  LET order == From(m, l, l)
      v == m.xItemValue[x]
      n == m.uxNumberOfItems[l]
  IN  IF v = MaxWakeTime THEN m.pxPrevious[l]
      ELSE LET k == CHOOSE k \in 0 .. n :
                      /\ k = n \/ m.xItemValue[order[k + 1]] > v
                      /\ \A j \in 1 .. k : m.xItemValue[order[j]] <= v
           IN  order[k]

vListInsert(m, l, x) ==
  LET p == InsertsAfter(m, l, x) IN Linked(m, l, x, p, m.pxNext[p])

RemoveForgetsIndex(m, x) ==                                    \* mutant
  LET l == m.pxContainer[x]
      p == m.pxPrevious[x]
      n == m.pxNext[x]
  IN  [pxNext |-> [m.pxNext EXCEPT ![p] = n],
       pxPrevious |-> [m.pxPrevious EXCEPT ![n] = p],
       pxContainer |-> [m.pxContainer EXCEPT ![x] = NoNode],
       xItemValue |-> m.xItemValue,
       pxIndex |-> m.pxIndex,
       uxNumberOfItems |-> [m.uxNumberOfItems EXCEPT ![l] = @ - 1]]

\* The removed item keeps its own links.
uxListRemove(m, x) ==
  LET l == m.pxContainer[x]
      p == m.pxPrevious[x]
      n == m.pxNext[x]
      index == m.pxIndex
  IN  [pxNext |-> [m.pxNext EXCEPT ![p] = n],
       pxPrevious |-> [m.pxPrevious EXCEPT ![n] = p],
       pxContainer |-> [m.pxContainer EXCEPT ![x] = NoNode],
       xItemValue |-> m.xItemValue,
       pxIndex |-> IF index[l] = x THEN [index EXCEPT ![l] = p] ELSE index,
       uxNumberOfItems |-> [m.uxNumberOfItems EXCEPT ![l] = @ - 1]]

\* The index after one listGET_OWNER_OF_NEXT_ENTRY on a list that is not empty.
NextEntry(m, l) ==
  LET n == m.pxNext[m.pxIndex[l]] IN IF n = l THEN m.pxNext[l] ELSE n

\* The index after a walk that stops when it meets the first entry again: it
\* stays on that entry.
WalkedIndex(m, l) ==
  IF m.uxNumberOfItems[l] = 0 THEN m.pxIndex[l] ELSE NextEntry(m, l)

Walked(m, ls) ==
  [m EXCEPT !.pxIndex = [l \in AllLists |->
                           IF l \in ls THEN WalkedIndex(m, l) ELSE m.pxIndex[l]]]

-----------------------------------------------------------------------------
(* The scheduler, tasks.c.                                                 *)

\* The items of the ready list that core c may run: all but those other cores
\* run.
Eligible(c) == {x \in Items : \A d \in Cores \ {c} : current[d] # x}

SelectAndStay(m, c) ==                                         \* mutant
  LET order == From(m, ReadyList, m.pxIndex[ReadyList])
      fit == {k \in DOMAIN order : order[k] \in Eligible(c)}
  IN  IF fit = {}
      THEN mem' = m /\ current' = [current EXCEPT ![c] = NoNode]
      ELSE LET x == order[CHOOSE k \in fit : \A j \in fit : k <= j]
           IN  /\ mem' = m
               /\ current' = [current EXCEPT ![c] = x]

\* The first item core c may run, in order from the index, if there is one;
\* it is moved to the end of the list.
SelectFrom(m, c) ==
  LET order == From(m, ReadyList, m.pxIndex[ReadyList])
      fit == {k \in DOMAIN order : order[k] \in Eligible(c)}
  IN  IF fit = {}
      THEN mem' = m /\ current' = [current EXCEPT ![c] = NoNode]
      ELSE LET x == order[CHOOSE k \in fit : \A j \in fit : k <= j]
           IN  /\ \E removed \in {uxListRemove(m, x)} :
                    mem' = vListInsertEnd(removed, ReadyList, x)
               /\ current' = [current EXCEPT ![c] = x]

\* A core switches, prvSelectHighestPriorityTask: a time slice has ended, or a
\* task became ready.
Select(c) == SelectFrom(mem, c)

\* The task of core c delays until value v, and its core switches.  vTaskDelay
\* blocks it in a suspended region of its own and the core switches at its end;
\* here both are one step.
BlockCurrent(c, v) ==
  LET x == current[c] IN
  /\ x # NoNode
  /\ \E m1 \in {[uxListRemove(mem, x) EXCEPT !.xItemValue[x] = v]} :
     \E m2 \in {vListInsert(m1, DelayedList, x)} : SelectFrom(m2, c)

\* xTaskIncrementTick unblocks the head of the delayed list.
UnblockHead ==
  /\ mem.uxNumberOfItems[DelayedList] > 0
  /\ LET x == mem.pxNext[DelayedList]
     IN  mem' = vListInsertEnd(uxListRemove(mem, x), ReadyList, x)
  /\ UNCHANGED current

\* xTaskAbortDelay, vTaskResume: a task leaves the delayed list out of turn.
Unblock(x) ==
  /\ mem.pxContainer[x] = DelayedList
  /\ mem' = vListInsertEnd(uxListRemove(mem, x), ReadyList, x)
  /\ UNCHANGED current

\* A task is created, prvAddNewTaskToReadyList.
AddItem(x) ==
  /\ mem.pxContainer[x] = NoNode
  /\ \A c \in Cores : current[c] # x
  /\ mem' = vListInsertEnd(mem, ReadyList, x)
  /\ UNCHANGED current

\* vTaskDelete of a task that does not run, whose memory is freed.
DropItem(x) ==
  /\ mem.pxContainer[x] # NoNode
  /\ \A c \in Cores : current[c] # x
  /\ mem' = [uxListRemove(mem, x) EXCEPT
               !.pxNext[x] = NoNode, !.pxPrevious[x] = NoNode, !.xItemValue[x] = 0]
  /\ UNCHANGED current

\* A running task looks for the task of item x by its name.  The ready lists are
\* searched before the delayed lists.
xTaskGetHandle(x) ==
  /\ "xTaskGetHandle" \in Walks
  /\ \E c \in Cores : current[c] # NoNode
  /\ mem' = CASE mem.pxContainer[x] = ReadyList -> [mem EXCEPT !.pxIndex[ReadyList] = x]
              [] mem.pxContainer[x] = DelayedList ->
                   [Walked(mem, {ReadyList}) EXCEPT !.pxIndex[DelayedList] = x]
              [] OTHER -> Walked(mem, AllLists)
  /\ UNCHANGED current

\* With an array that has room for all tasks.
uxTaskGetSystemState ==
  /\ "uxTaskGetSystemState" \in Walks
  /\ \E c \in Cores : current[c] # NoNode
  /\ mem' = Walked(mem, AllLists)
  /\ UNCHANGED current

ListsInit == mem = vListInitialise /\ current = [c \in Cores |-> NoNode]

ListStep ==
  \/ \E c \in Cores : Select(c)
  \/ \E c \in Cores, v \in 0 .. MaxWakeTime : BlockCurrent(c, v)
  \/ UnblockHead
  \/ \E x \in Items : Unblock(x)
  \/ \E x \in Items : AddItem(x)
  \/ \E x \in Items : DropItem(x)

Walk ==
  \/ \E x \in Items : xTaskGetHandle(x)
  \/ uxTaskGetSystemState

ListsNext == ListStep \/ Walk

ListsSpec == ListsInit /\ [][ListsNext]_lvars

\* The tick makes each core switch again and again.
ListsFairness == \A c \in Cores : WF_lvars(Select(c))

-----------------------------------------------------------------------------
(* Properties.                                                             *)

Members(l) == {x \in Items : mem.pxContainer[x] = l}
Ring(l) == Members(l) \cup {l}

\* The two links of each node of a list agree and stay in the list, its index
\* is one of its nodes and its count the number of its items.
LinksMatch ==
  \A l \in AllLists :
    /\ \A n \in Ring(l) :
         /\ mem.pxNext[n] \in Ring(l) /\ mem.pxPrevious[mem.pxNext[n]] = n
         /\ mem.pxPrevious[n] \in Ring(l) /\ mem.pxNext[mem.pxPrevious[n]] = n
    /\ mem.pxIndex[l] \in Ring(l)
    /\ mem.uxNumberOfItems[l] = Cardinality(Members(l))

\* From the end marker of a list its links lead through each of its items, once,
\* and back.
RingIsWhole ==
  \A l \in AllLists :
    LET order == From(mem, l, l)
        n == mem.uxNumberOfItems[l]
    IN  {order[k] : k \in 1 .. n} = Members(l) /\ mem.pxNext[order[n]] = l

\* Whatever tasks and walks do to a list, it stays a ring: no part of it is cut
\* off or hangs in another list, and its index never points outside (list.c).
ListsAreRings == LinksMatch /\ RingIsWhole

\* The tick looks at the head of the delayed list only: no item further on has
\* a smaller value (vListInsert, tasks.c:3528).
DelayedListAscends ==
  LET order == From(mem, DelayedList, DelayedList)
      n == mem.uxNumberOfItems[DelayedList]
  IN  \A j, k \in 1 .. n :
        j <= k => mem.xItemValue[order[j]] <= mem.xItemValue[order[k]]

OnCore(x) == \E c \in Cores : current[c] = x
WaitsForCore(x) == mem.pxContainer[x] = ReadyList /\ ~OnCore(x)

\* As long as no walk has left the index of the ready list on an item, each
\* ready task gets its turn (prvSelectHighestPriorityTask).
EachTakesTurns ==
  [](mem.pxIndex[ReadyList] = ReadyList) => \A x \in Items : []<>~WaitsForCore(x)

\* "TCBs which are stored in ready lists [...] get a share of the CPU"
\* (list.c:130), whatever functions are called.
EachGetsAShare == \A x \in Items : []<>~WaitsForCore(x)

\* The nodes of the ready list in the order of their turns, and the delayed items
\* with their wake times.
TurnsIn(m) ==
  LET order == From(m, ReadyList, m.pxIndex[ReadyList])
  IN  [k \in 1 .. m.uxNumberOfItems[ReadyList] + 1 |-> order[k - 1]]
WakesIn(m) ==
  LET order == From(m, DelayedList, DelayedList)
  IN  [k \in 1 .. m.uxNumberOfItems[DelayedList] |->
         [item |-> order[k], value |-> m.xItemValue[order[k]]]]

Order == INSTANCE TaskOrder WITH turns <- TurnsIn(mem), wakes <- WakesIn(mem),
                                 EndOfList <- ReadyList, NoItem <- NoNode

\* A core gets the first task no other core runs, in the order of the ready list
\* from its index on, and that task goes to the end; a walk may rotate the order.
\* A task that delays wakes behind those that wake no later and before the others,
\* whichever is created, deleted or woken early in between
\* (prvSelectHighestPriorityTask, vListInsert).
ListsKeepOrder == Order!Spec
==============================================================================
