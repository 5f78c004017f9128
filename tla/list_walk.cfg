SPECIFICATION MCSpec
CONSTANTS
  x1 = x1  x2 = x2  x3 = x3  c0 = c0  c1 = c1
  ready = ready  delayed = delayed
  Items = {x1, x2, x3}
  Cores = {c0, c1}
  ReadyList = ready
  DelayedList = delayed
  NoNode = "none"
  MaxWakeTime = 1
  Walks = {"xTaskGetHandle", "uxTaskGetSystemState"}
PROPERTY EachGetsAShare
