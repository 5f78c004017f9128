SPECIFICATION Spec
CHECK_DEADLOCK FALSE
CONSTANTS
  A = A
  B = B
  NoTask = NoTask
  Tasks = {A, B}
  PeriodicTasks = {A}
  portMAX_DELAY = 7
  configINITIAL_TICK_COUNT = 5
  Delays = {1, 6, 7}
  Periods = {1, 3, 6}
  UsedAPI = {"vTaskDelay", "xQueueReceive"}
  LastTick = 26
  MaxPendedTicks = 2
  MaxLate = 2
INVARIANTS
  TypeOK
  SleepsUntilAsked
  EveryTickIsCounted
  TimesOutInTime
  TimesOutAtLast
PROPERTIES
  DelaysIfAhead
