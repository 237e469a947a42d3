---------------------------- MODULE MCScheduler ----------------------------
(* A small instance of the scheduler: two reminders, each one-time or      *)
(* recurring, claimed and announced one by one or together, one snooze of  *)
(* each and one restart.                                                   *)
EXTENDS Scheduler

=============================================================================
