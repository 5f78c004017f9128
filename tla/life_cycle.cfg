SPECIFICATION Spec
CONSTANTS
  a = a  b = b  e = e  idle0 = idle0  idle1 = idle1
  configNUM_CORES = 2
  configMAX_PRIORITIES = 3
  configRUN_MULTIPLE_PRIORITIES = TRUE
  configUSE_TIME_SLICING = TRUE
  AppTasks = {a, b}
  xIdleTaskHandle <- MCIdle2
  InitPriority <- MCPrioritiesABE
  InitReadyLists <- MCReadyAB
  TickCores = {0}
  UsedAPI <- MCLifeCycle
  MaxPendedTicks = 1
INVARIANTS TypeOK RunStateMatchesCore YieldRequestIsKept SuspensionIsExclusive FreedTaskIsOffCore SwitchFindsTask
CHECK_DEADLOCK FALSE
