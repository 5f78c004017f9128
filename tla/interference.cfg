SPECIFICATION Spec
CHECK_DEADLOCK FALSE
SYMMETRY Interchangeable
CONSTANTS
  A = A
  B = B
  NoTask = NoTask
  Tasks = {A, B}
  PeriodicTasks = {}
  portMAX_DELAY = 3
  configINITIAL_TICK_COUNT = 1
  Delays = {2, 3}
  Periods = {}
  UsedAPI = {"vTaskDelay", "xQueueReceive", "xTaskAbortDelay", "vTaskSuspend", "xTaskCatchUpTicks"}
  LastTick = 7
  MaxPendedTicks = 1
  MaxLate = 2
INVARIANTS
  UnblockTimeIsNotLate
  EventItemIsFree
PROPERTIES
  SleepsOnClock
