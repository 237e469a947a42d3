----------------------------- MODULE MCRuntime -----------------------------
(* Small instances of the runtime: two turns per conversation, one round   *)
(* of tools.  Reminders are announced by voice in one configuration only,  *)
(* without streaming and interruptions.                                    *)
EXTENDS Runtime

MCConfigs ==
  {c \in Config : /\ c.announce => ~c.streaming /\ ~c.bargeIn
                  /\ c.slow => c.streaming /\ c.bargeIn}

Default ==
  {[streaming |-> TRUE, bargeIn |-> TRUE, announce |-> TRUE, slow |-> FALSE]}

=============================================================================
