-------------------------------- MODULE Boot --------------------------------
(***************************************************************************)
(* From reset to the running scheduler: main creates tasks, starts the     *)
(* scheduler, which creates the idle tasks, and tasks then create tasks    *)
(* and allocate memory.  The memory comes from heap_1.c, which never gets  *)
(* any back.  Sources: src/src/port/heap_1.c, xTaskCreate and what it      *)
(* calls, vTaskDelete before the start and vTaskStartScheduler in          *)
(* src/src/freertos/tasks.c, the initial stack frame of                    *)
(* src/src/port/port.c, start_freertos in src/src/main.cpp.                *)
(*                                                                         *)
(* Addresses are numbers; a task is known by the address of its TCB.  Once *)
(* the scheduler runs, callers are interleaved; vTaskSuspendAll lets one   *)
(* into pvPortMalloc (module SmpKernel says how).                          *)
(***************************************************************************)
EXTENDS Integers, FiniteSets

CONSTANTS
  configNUM_CORES,
  SizeRange,                   \* the number of values of size_t
  portBYTE_ALIGNMENT,
  ucHeap,                      \* the address of the heap
  configTOTAL_HEAP_SIZE,
  SizeOfTCB, SizeOfStackType,
  configMINIMAL_STACK_SIZE,    \* of the idle tasks, in words
  FrameWords,                  \* the words of a saved context
  StackDepths,                 \* that tasks are created with, in words
  MallocSizes,                 \* asked of pvPortMalloc by others than xTaskCreate
  Callers,                     \* the tasks that allocate once the scheduler runs
  Main,
  MaxBlocks                    \* bounds the blocks given out

CoreIDs == 0 .. configNUM_CORES - 1
Everyone == Callers \cup {Main}
NULL == -1

ASSUME BootAssumption ==
  /\ configNUM_CORES \in Nat \ {0}
  /\ portBYTE_ALIGNMENT \in Nat \ {0}
  /\ ucHeap \in Nat /\ ucHeap % portBYTE_ALIGNMENT = 0
  /\ configTOTAL_HEAP_SIZE \in Nat /\ configTOTAL_HEAP_SIZE > portBYTE_ALIGNMENT
  /\ SizeRange \in Nat /\ ucHeap + configTOTAL_HEAP_SIZE < SizeRange
  /\ SizeRange % portBYTE_ALIGNMENT = 0
  /\ SizeOfTCB \in Nat \ {0} /\ SizeOfStackType \in Nat \ {0} /\ FrameWords \in Nat
  /\ (FrameWords * SizeOfStackType) % portBYTE_ALIGNMENT = 0
  /\ configMINIMAL_STACK_SIZE \in Nat /\ StackDepths \subseteq Nat
  /\ \A d \in StackDepths \cup {configMINIMAL_STACK_SIZE} : d * SizeOfStackType < SizeRange
  /\ SizeOfTCB < SizeRange
  /\ MallocSizes \subseteq 0 .. SizeRange - 1
  /\ Main \notin Callers

VARIABLES
  xNextFreeByte,
  suspender,                   \* who has the scheduler suspended, in a set
  xSchedulerRunning,
  uxCurrentNumberOfTasks,
  readyTasks,                  \* the tasks on the ready lists
  pxCurrentTCBs,
  tcb,                         \* the tasks created: [stack, depth, top, idle, core]
  step, request,               \* the request of each caller, and its locals
  xIdleTaskHandle,
  \* History, never read by the code:
  blocks,                      \* what pvPortMalloc has given out
  deleted                      \* the tasks deleted

heapVars == <<xNextFreeByte, suspender, blocks>>
taskVars == <<uxCurrentNumberOfTasks, readyTasks, pxCurrentTCBs, tcb, deleted>>
startVars == <<xSchedulerRunning, xIdleTaskHandle>>
bvars == <<heapVars, taskVars, startVars, step, request>>

NoRequest == [for |-> "none", idle |-> NULL, depth |-> 0, wanted |-> 0, ret |-> NULL,
              stack |-> NULL]

-----------------------------------------------------------------------------
(* heap_1.c.                                                               *)

\* xWantedSize after rounding up; 0 if that overflows.
Rounded(n) ==
  LET up == (n + (portBYTE_ALIGNMENT - (n % portBYTE_ALIGNMENT))) % SizeRange
  IN  IF n % portBYTE_ALIGNMENT = 0 THEN n ELSE IF up > n THEN up ELSE 0

pucAlignedHeap ==
  (ucHeap + portBYTE_ALIGNMENT) - ((ucHeap + portBYTE_ALIGNMENT) % portBYTE_ALIGNMENT)
configADJUSTED_HEAP_SIZE == configTOTAL_HEAP_SIZE - portBYTE_ALIGNMENT

FitsUnchecked(n) ==                                            \* mutant
  LET next == (xNextFreeByte + n) % SizeRange
  IN  n > 0 /\ next < configADJUSTED_HEAP_SIZE

Fits(n) ==
  LET next == (xNextFreeByte + n) % SizeRange
  IN  n > 0 /\ next < configADJUSTED_HEAP_SIZE /\ next > xNextFreeByte

\* The caller starts to ask for request[u].wanted bytes, rounded, and may use the
\* heap.
pvPortMalloc(u) ==
  /\ step[u] \in {"malloc", "stack", "tcb"}
  /\ suspender = {}
  /\ LET n == Rounded(request[u].wanted)
     IN  request' = [request EXCEPT
                       ![u].wanted = n,
                       ![u].ret = IF Fits(n) THEN pucAlignedHeap + xNextFreeByte ELSE NULL]
  /\ suspender' = {u}
  /\ UNCHANGED <<xNextFreeByte, blocks, taskVars, startVars, step>>

\* The rest of the region: the free memory begins behind the block.
TakeBlock(u) ==
  LET from == request[u].ret
      n == request[u].wanted
  IN
  /\ suspender' = suspender \ {u}
  /\ IF from = NULL THEN UNCHANGED <<xNextFreeByte, blocks>>
     ELSE /\ xNextFreeByte' = xNextFreeByte + n
          /\ blocks' = blocks \cup {[from |-> from, to |-> from + n]}

-----------------------------------------------------------------------------
(* xTaskCreate.                                                            *)

StackBytes(depth) == depth * SizeOfStackType

\* idle is the core whose idle task is made, or NULL.
BeginCreate(u, depth, idle) ==
  /\ step' = [step EXCEPT ![u] = "stack"]
  /\ request' = [request EXCEPT ![u] =
                   [NoRequest EXCEPT !.idle = idle, !.depth = depth,
                                     !.wanted = StackBytes(depth)]]

\* What follows a request that ends: main goes on to the next idle task.
EndRequest(u) ==
  LET idle == request[u].idle IN
  IF idle = NULL
  THEN /\ step' = [step EXCEPT ![u] = "idle"]
       /\ request' = [request EXCEPT ![u] = NoRequest]
  ELSE /\ step' = [step EXCEPT ![u] = "idle_tasks"]
       /\ request' = [request EXCEPT ![u] =
                        [NoRequest EXCEPT !.idle = idle + 1, !.ret = request[u].ret]]

\* A block of memory for something else, a queue for instance.
MallocReturns(u) ==
  /\ step[u] = "malloc" /\ u \in suspender
  /\ TakeBlock(u)
  /\ EndRequest(u)
  /\ UNCHANGED <<taskVars, startVars>>

\* With the stack allocated, or not, in which case the creation fails.
StackReturns(u) ==
  /\ step[u] = "stack" /\ u \in suspender
  /\ TakeBlock(u)
  /\ IF request[u].ret = NULL THEN EndRequest(u)
     ELSE /\ step' = [step EXCEPT ![u] = "tcb"]
          /\ request' = [request EXCEPT ![u].stack = request[u].ret,
                                        ![u].wanted = SizeOfTCB]
  /\ UNCHANGED <<taskVars, startVars>>

\* vPortFreeStack frees nothing: a stack whose TCB is not allocated is lost.
TcbReturns(u) ==
  /\ step[u] = "tcb" /\ u \in suspender
  /\ TakeBlock(u)
  /\ IF request[u].ret = NULL THEN EndRequest(u)
     ELSE step' = [step EXCEPT ![u] = "add"] /\ UNCHANGED request
  /\ UNCHANGED <<taskVars, startVars>>

\* The top of the stack before and after pxPortInitialiseStack has pushed a frame.
TopOfStack(stack, depth) ==
  LET last == stack + (depth - 1) * SizeOfStackType
  IN  last - (last % portBYTE_ALIGNMENT)
pxPortInitialiseStack(top) == top - FrameWords * SizeOfStackType

prvInitialiseNewTask(u, core) ==
  [stack |-> request[u].stack, depth |-> request[u].depth,
   top |-> pxPortInitialiseStack(TopOfStack(request[u].stack, request[u].depth)),
   idle |-> request[u].idle # NULL, core |-> core]

\* The first core without a task, for an idle task before the start.
FreeCores == {c \in CoreIDs : pxCurrentTCBs[c] = NULL}
TakesAllCores(u) ==                                            \* mutant
  IF xSchedulerRunning \/ request[u].idle = NULL THEN {} ELSE FreeCores

TakesCores(u) ==
  IF xSchedulerRunning \/ request[u].idle = NULL THEN {}
  ELSE {c \in FreeCores : \A d \in FreeCores : c <= d}

InitialisesTwice ==                                            \* mutant
  ~xSchedulerRunning /\ uxCurrentNumberOfTasks <= 1

InitialisesLists == ~xSchedulerRunning /\ uxCurrentNumberOfTasks' = 1

\* prvInitialiseNewTask, and the critical section of prvAddNewTaskToReadyList.
\* prvYieldForTask is module SmpKernel's.
prvAddNewTaskToReadyList(u) ==
  LET new == request[u].ret
      cores == TakesCores(u)
      core == IF cores = {} THEN NULL ELSE CHOOSE c \in cores : TRUE
  IN
  /\ step[u] = "add"
  /\ suspender = {}
  /\ uxCurrentNumberOfTasks' = uxCurrentNumberOfTasks + 1
  /\ readyTasks' = (IF InitialisesLists THEN {} ELSE readyTasks) \cup {new}
  /\ pxCurrentTCBs' = [c \in CoreIDs |-> IF c \in cores THEN new ELSE pxCurrentTCBs[c]]
  /\ tcb' = [t \in DOMAIN tcb \cup {new} |->
               IF t = new THEN prvInitialiseNewTask(u, core) ELSE tcb[t]]
  /\ xIdleTaskHandle' = IF request[u].idle = NULL THEN xIdleTaskHandle
                        ELSE [xIdleTaskHandle EXCEPT ![request[u].idle] = new]
  /\ EndRequest(u)
  /\ UNCHANGED <<heapVars, xSchedulerRunning, deleted>>

-----------------------------------------------------------------------------
(* The callers.                                                            *)

MayAct(u) == step[u] = "idle" /\ (u = Main <=> ~xSchedulerRunning)

xTaskCreate(u) ==
  /\ MayAct(u)
  /\ Cardinality(blocks) < MaxBlocks
  /\ \E depth \in StackDepths : BeginCreate(u, depth, NULL)
  /\ UNCHANGED <<heapVars, taskVars, startVars>>

Allocate(u) ==
  /\ MayAct(u)
  /\ Cardinality(blocks) < MaxBlocks
  /\ \E n \in MallocSizes :
       request' = [request EXCEPT ![u] = [NoRequest EXCEPT !.wanted = n]]
  /\ step' = [step EXCEPT ![u] = "malloc"]
  /\ UNCHANGED <<heapVars, taskVars, startVars>>

\* Before the start no task runs: the TCB is deleted at once.  prvDeleteTCB frees
\* nothing.
vTaskDelete(t) ==
  /\ MayAct(Main)
  /\ t \in readyTasks /\ ~tcb[t].idle
  /\ readyTasks' = readyTasks \ {t}
  /\ uxCurrentNumberOfTasks' = uxCurrentNumberOfTasks - 1
  /\ deleted' = deleted \cup {t}
  /\ UNCHANGED <<heapVars, startVars, pxCurrentTCBs, tcb, step, request>>

vTaskStartScheduler ==
  /\ MayAct(Main)
  /\ step' = [step EXCEPT ![Main] = "idle_tasks"]
  /\ request' = [request EXCEPT ![Main] = [NoRequest EXCEPT !.idle = 0]]
  /\ UNCHANGED <<heapVars, taskVars, startVars>>

\* The loop goes on whatever xTaskCreate returned: it returns -1 when it fails,
\* and the loop tests for pdFAIL, which is 0.
prvCreateIdleTasks ==
  /\ step[Main] = "idle_tasks" /\ request[Main].idle < configNUM_CORES
  /\ BeginCreate(Main, configMINIMAL_STACK_SIZE, request[Main].idle)
  /\ UNCHANGED <<heapVars, taskVars, startVars>>

\* xReturn is what the creation of the last idle task returned.  Without it main
\* goes on, and nothing starts.
StartOrReturn ==
  /\ step[Main] = "idle_tasks" /\ request[Main].idle = configNUM_CORES
  /\ xSchedulerRunning' = (request[Main].ret # NULL)
  /\ step' = [step EXCEPT ![Main] = "stopped"]
  /\ UNCHANGED <<heapVars, taskVars, xIdleTaskHandle, request>>

BootInit ==
  /\ xNextFreeByte = 0 /\ suspender = {} /\ blocks = {}
  /\ uxCurrentNumberOfTasks = 0 /\ readyTasks = {} /\ deleted = {}
  /\ pxCurrentTCBs = [c \in CoreIDs |-> NULL]
  /\ tcb = [t \in {} |-> NoRequest]
  /\ xSchedulerRunning = FALSE
  /\ xIdleTaskHandle = [c \in CoreIDs |-> NULL]
  /\ step = [u \in Everyone |-> "idle"]
  /\ request = [u \in Everyone |-> NoRequest]

BootNext ==
  \/ \E u \in Everyone : pvPortMalloc(u)
  \/ \E u \in Everyone : MallocReturns(u)
  \/ \E u \in Everyone : StackReturns(u)
  \/ \E u \in Everyone : TcbReturns(u)
  \/ \E u \in Everyone : prvAddNewTaskToReadyList(u)
  \/ \E u \in Everyone : xTaskCreate(u)
  \/ \E u \in Everyone : Allocate(u)
  \/ \E t \in readyTasks : vTaskDelete(t)
  \/ vTaskStartScheduler
  \/ prvCreateIdleTasks
  \/ StartOrReturn

BootSpec == BootInit /\ [][BootNext]_bvars

-----------------------------------------------------------------------------
(* Properties.                                                             *)

\* The blocks given out are aligned and lie inside ucHeap.
BlocksAreInside ==
  \A b \in blocks :
    /\ b.from % portBYTE_ALIGNMENT = 0
    /\ ucHeap <= b.from /\ b.from < b.to /\ b.to <= ucHeap + configTOTAL_HEAP_SIZE

BlocksAreDisjoint ==
  \A b1, b2 \in blocks : b1 = b2 \/ b1.to <= b2.from \/ b2.to <= b1.from

\* A stack of more words than the frame holds the first frame of its task.
FramesAreInside ==
  \A t \in DOMAIN tcb : tcb[t].depth > FrameWords =>
    \E b \in blocks : /\ b.from = tcb[t].stack
                      /\ b.from <= tcb[t].top
                      /\ tcb[t].top + FrameWords * SizeOfStackType <= b.to

\* No two owners of memory share a byte, whatever sizes are asked for and whoever
\* asks, and the first frame of a task stays in its own block (pvPortMalloc,
\* prvInitialiseNewTask, pxPortInitialiseStack).
MemoryIsDisjoint == BlocksAreInside /\ BlocksAreDisjoint /\ FramesAreInside

\* A scheduler that runs found each core an idle task of its own, although the
\* loop that creates them does not stop at a failure (prvCreateIdleTasks).
StartsWithIdleTasks ==
  xSchedulerRunning =>
    \A c \in CoreIDs : LET t == pxCurrentTCBs[c] IN
      /\ t \in readyTasks /\ tcb[t].idle /\ tcb[t].core = c
      /\ xIdleTaskHandle[c] = t

\* The lists are initialised again when all tasks were deleted before the start;
\* no task that lives is lost by that (prvAddNewTaskToReadyList).
NoTaskIsDropped ==
  /\ readyTasks = DOMAIN tcb \ deleted
  /\ uxCurrentNumberOfTasks = Cardinality(readyTasks)
=============================================================================
