SPECIFICATION Spec
CONSTANTS
  s = s
  sr = sr
  r = r
  Tasks = {s, sr, r}
  NoTask = NoTask
  a = a
  b = b
  uxPriority <- MCPriority
  UsedCalls <- MCUsedCalls
  Resetters = {r}
  Items = {a, b}
  NoItem = NoItem
  Lengths = {1, 2}
  queueINT8_MAX = 2
  MaxInterrupts = 2
INVARIANTS
  NoReceiverIsForgotten
  NoSenderIsForgotten
  SleepersAreOnOneList
PROPERTY
  IsChannel
CHECK_DEADLOCK FALSE
