----------------------------- MODULE AgentState -----------------------------
(***************************************************************************)
(* The states of the assistant and the transitions between them            *)
(* (src/src/core/state_machine.py).  transition() raises                   *)
(* InvalidStateTransition for every pair CanMove does not hold of, the     *)
(* pairs of equal states among them.                                       *)
(***************************************************************************)

States == {"STARTING", "SLEEPING", "AWAITING_SPEECH", "AWAITING_CONFIRMATION",
           "TEXT_INPUT", "CAPTURING", "TRANSCRIBING", "THINKING",
           "EXECUTING_TOOL", "SPEAKING", "ERROR", "RECOVERING", "STOPPED"}

(* The states a finished turn may go to.                                   *)
Waiting == {"AWAITING_SPEECH", "SLEEPING", "AWAITING_CONFIRMATION"}

Normal ==
  [STARTING              |-> {"SLEEPING"},
   SLEEPING              |-> {"AWAITING_SPEECH", "TEXT_INPUT"},
   AWAITING_SPEECH       |-> {"CAPTURING", "TEXT_INPUT",
                              "AWAITING_CONFIRMATION", "SLEEPING"},
   AWAITING_CONFIRMATION |-> {"CAPTURING", "TEXT_INPUT",
                              "AWAITING_SPEECH", "SLEEPING"},
   TEXT_INPUT            |-> {"THINKING", "EXECUTING_TOOL"} \cup Waiting,
   CAPTURING             |-> {"TRANSCRIBING", "TEXT_INPUT"},
   TRANSCRIBING          |-> {"THINKING", "EXECUTING_TOOL", "SPEAKING"} \cup Waiting,
   THINKING              |-> {"EXECUTING_TOOL", "SPEAKING"} \cup Waiting,
   EXECUTING_TOOL        |-> {"THINKING", "SPEAKING"} \cup Waiting,
   SPEAKING              |-> {"CAPTURING", "THINKING", "EXECUTING_TOOL"} \cup Waiting,
   ERROR                 |-> {"RECOVERING"},
   RECOVERING            |-> {"SLEEPING"},
   STOPPED               |-> {}]

Allowed(s) ==
  Normal[s] \cup (IF s \in {"ERROR", "STOPPED"} THEN {} ELSE {"ERROR"})
            \cup (IF s = "STOPPED" THEN {} ELSE {"STOPPED"})

CanMove(from, to) == to # from /\ to \in Allowed(from)

=============================================================================
