SPECIFICATION Spec
CONSTANTS
  low = low
  mid = mid
  high = high
  p = p
  q = q
  Tasks = {low, mid, high}
  NoTask = NoTask
  Mutexes = {p, q}
  RecursiveMutexes = {q}
  configMAX_PRIORITIES = 3
  InitPriority <- MCPriority
  UsedWaits <- MCWaits
  MayBeSet = {low}
  MaxDepth = 2
INVARIANTS
  HeldCountMatches
  CountedWhileHeld
  NoInheritanceLeft
  NoWaiterIsForgotten
  InheritsFromWaiters
CHECK_DEADLOCK FALSE
