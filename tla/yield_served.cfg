SPECIFICATION FairSpec
CONSTANTS
  a = a  b = b  e = e  idle0 = idle0  idle1 = idle1
  configNUM_CORES = 2
  configMAX_PRIORITIES = 2
  configRUN_MULTIPLE_PRIORITIES = TRUE
  configUSE_TIME_SLICING = TRUE
  AppTasks = {a, b}
  xIdleTaskHandle <- MCIdle2
  InitPriority <- MCPrioritiesOne
  InitReadyLists <- MCReadyOneAB
  TickCores = {0}
  UsedAPI <- MCSuspenders
  MaxPendedTicks = 1
PROPERTIES YieldRequestIsServed
