----------------------------- MODULE MCSmpKernel -----------------------------
(***************************************************************************)
(* Instances of SmpKernel for TLC: three application tasks (or the two of  *)
(* them an instance uses), an idle task for each core.                     *)
(***************************************************************************)
EXTENDS SmpKernel

CONSTANTS a, b, e, idle0, idle1

MCIdle2 == 0 :> idle0 @@ 1 :> idle1

\* The priorities a 2, b 1, e 1, and the lists of the tasks created so far.
MCPrioritiesABE == [t \in Tasks |-> IF t = a THEN 2 ELSE IF xIsIdle(t) THEN 0 ELSE 1]
MCReadyAB == 0 :> <<idle0, idle1>> @@ 1 :> <<b>> @@ 2 :> <<a>>

\* All application tasks at priority 1.
MCPrioritiesOne == [t \in Tasks |-> IF xIsIdle(t) THEN 0 ELSE 1]
MCReadyOneAB == 0 :> <<idle0, idle1>> @@ 1 :> <<a, b>>
MCReadyOneABE == 0 :> <<idle0, idle1>> @@ 1 :> <<a, b, e>>

\* The functions each task calls.  In the life cycle one task makes and deletes
\* the other (and itself), which suspends the scheduler and delays.
MCLifeCycle == [t \in AppTasks |->
  IF t = a THEN {"xTaskCreate", "vTaskDelete", "taskYIELD"}
  ELSE {"vTaskSuspendAll", "vTaskDelay"}]
MCChangers == [t \in AppTasks |-> {"vTaskSuspend", "vTaskResume", "vTaskPrioritySet"}]
MCNoCalls == [t \in AppTasks |-> {}]
MCSuspenders == [t \in AppTasks |-> {"vTaskSuspendAll"}]
MCDelayingSuspenders == [t \in AppTasks |-> {"vTaskDelay", "vTaskSuspendAll"}]
==============================================================================
