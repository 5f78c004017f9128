SPECIFICATION MCSpec
CONSTANTS
  main = main  u1 = u1  u2 = u2
  Main = main
  Callers = {u1, u2}
  configNUM_CORES = 2
  SizeRange = 128
  portBYTE_ALIGNMENT = 4
  ucHeap = 8
  configTOTAL_HEAP_SIZE = 84
  SizeOfTCB = 7
  SizeOfStackType = 4
  configMINIMAL_STACK_SIZE = 3
  FrameWords = 2
  StackDepths = {2, 4}
  MallocSizes = {0, 5, 100, 125, 127}
  MaxBlocks = 7
  a = a  b = b
  Sizes = {1, 2, 4}
  Batches <- MCBatches
  Requests = {1, 2, 5}
  Blank = "blank"
  x1 = x1  x2 = x2  x3 = x3  c0 = c0  c1 = c1
  ready = ready  delayed = delayed
  Items = {x1, x2, x3}
  Cores = {c0, c1}
  ReadyList = ready
  DelayedList = delayed
  NoNode = "none"
  MaxWakeTime = 1
  Walks = {"xTaskGetHandle", "uxTaskGetSystemState"}
  task = task
  Tasks = {task}
  Indices <- MCIndices
  UsedActions <- MCUsed
  MailIndex = 1
  Values = {1, 2}
  MaxValue = 3
  ResumesBlocked = FALSE
INVARIANTS
  MemoryIsDisjoint
  StartsWithIdleTasks
  NoTaskIsDropped
  ListsAreRings
  SleepsUnnotified
  WaitingIsCurrent
  MailIsKept
PROPERTIES
  IsQueue
  ListsKeepOrder
  EachTakesTurns
  NotifiedReturns
CHECK_DEADLOCK FALSE
