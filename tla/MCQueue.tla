------------------------------- MODULE MCQueue -------------------------------
(***************************************************************************)
(* Module Queue for TLC: a task that sends, one that sends and receives,   *)
(* and a more urgent one that receives, peeks and resets.                  *)
(***************************************************************************)
EXTENDS Queue, TLC

CONSTANTS s, sr, r, a, b

MCPriority == s :> 1 @@ sr :> 1 @@ r :> 2

Send(item, wait, position) ==
  [api |-> "xQueueGenericSend", wait |-> wait, item |-> item, position |-> position]
Receive(api, wait) == [api |-> api, wait |-> wait, item |-> NoItem, position |-> "back"]

\* Each task may use the queue and the semaphore: only the calls that fit the
\* kind of queue are made.
MCUsedCalls ==
  s :> {Send(a, "forever", "back"), Send(a, "no", "overwrite"), Send(NoItem, "no", "back")}
    @@ sr :> {Send(b, "timed", "front"), Send(NoItem, "timed", "back"),
              Receive("xQueueReceive", "timed"), Receive("xQueueSemaphoreTake", "timed")}
    @@ r :> {Receive("xQueueReceive", "forever"), Receive("xQueuePeek", "timed"),
             Receive("xQueueSemaphoreTake", "forever")}
==============================================================================
