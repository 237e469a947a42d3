--------------------------- MODULE BargeInMonitor ---------------------------
(***************************************************************************)
(* The barge-in monitor (src/src/bargein/monitor.py): a thread listens     *)
(* while the assistant speaks, tells its owner at once that the user talks *)
(* (the trigger callback) and then captures what the user says.            *)
(*                                                                         *)
(* The owner starts it, waits for the result or stops it; every event, the *)
(* result and the death of the thread are separate steps, as the code sets *)
(* them one after the other.                                               *)
(***************************************************************************)
VARIABLES
  mon,     \* where the thread is; "none" before the first start
  stopEv,  \* _stop_event
  trigEv,  \* _triggered_event
  finEv,   \* _finished_event
  result,  \* _result is set
  error    \* _error is set

monVars == <<mon, stopEv, trigEv, finEv, result, error>>

Alive == mon \notin {"none", "dead"}

MonTypeOK ==
  /\ mon \in {"none", "listening", "callback", "acting", "capturing",
              "leaving", "finished", "dead"}
  /\ stopEv \in BOOLEAN /\ trigEv \in BOOLEAN /\ finEv \in BOOLEAN
  /\ result \in BOOLEAN /\ error \in BOOLEAN

MonInit ==
  /\ mon = "none"
  /\ stopEv = FALSE /\ trigEv = FALSE /\ finEv = FALSE
  /\ result = FALSE /\ error = FALSE

-----------------------------------------------------------------------------

(* start(), refused (RuntimeError) while a former thread lives.  *)
StartMonitor ==
  /\ ~Alive
  /\ mon' = "listening"
  /\ stopEv' = FALSE /\ trigEv' = FALSE /\ finEv' = FALSE
  /\ result' = FALSE /\ error' = FALSE

(* The thread: enough speech sets the event and then calls back.           *)
Trigger ==
  /\ mon = "listening"
  /\ trigEv' = TRUE
  /\ mon' = "callback"
  /\ UNCHANGED <<stopEv, finEv, result, error>>

CallbackReturns ==
  /\ mon' = "capturing"
  /\ UNCHANGED <<stopEv, trigEv, finEv, result, error>>

CallbackFails ==
  /\ error' = TRUE
  /\ mon' = "leaving"
  /\ UNCHANGED <<stopEv, trigEv, finEv, result>>

(* Silence, the maximal duration, or a stop that is seen at the loop head. *)
CaptureEnds ==
  /\ mon = "capturing"
  /\ result' = TRUE
  /\ mon' = "leaving"
  /\ UNCHANGED <<stopEv, trigEv, finEv, error>>

StopSeen ==
  /\ mon \in {"listening", "capturing"} /\ stopEv
  /\ result' = (result \/ mon = "capturing")
  /\ mon' = "leaving"
  /\ UNCHANGED <<stopEv, trigEv, finEv, error>>

(* The microphone or the detector raises; also a capture may fail.         *)
MonitorFails ==
  /\ mon \in {"listening", "capturing"}
  /\ error' = TRUE
  /\ mon' = "leaving"
  /\ UNCHANGED <<stopEv, trigEv, finEv, result>>

Finish ==
  /\ mon = "leaving"
  /\ finEv' = TRUE
  /\ mon' = "finished"
  /\ UNCHANGED <<stopEv, trigEv, result, error>>

ThreadEnds ==
  /\ mon = "finished"
  /\ mon' = "dead"
  /\ UNCHANGED <<stopEv, trigEv, finEv, result, error>>

ThreadLeaves == StopSeen \/ Finish \/ ThreadEnds

(* wait_for_result: where the thread is slow its wait times out.  Then it  *)
(* hands over nothing while the thread is alive, whatever it has stored.   *)
WaitReturns(slow) == finEv \/ slow

Answer ==
  IF Alive THEN "nothing"
  ELSE IF error THEN "error"
  ELSE IF result THEN "capture" ELSE "nothing"

(* Mutant: the stop event is not set.                                      *)
RequestStopLost == UNCHANGED monVars

(* stop(): the event, then the join, then wait_for_result(0).              *)
RequestStop == stopEv' = TRUE /\ UNCHANGED <<mon, trigEv, finEv, result, error>>

JoinReturns(slow) == ~Alive \/ slow

=============================================================================
