-------------------------- MODULE ReminderDelivery --------------------------
(***************************************************************************)
(* What the scheduler (src/src/scheduler) promises of reminders that came  *)
(* due: each is announced at most once, in the order in which they came    *)
(* due, and none is dropped unless all that were claimed before it and not *)
(* announced yet are dropped with it, by a restart or a failed round of    *)
(* announcements.                                                          *)
(***************************************************************************)
EXTENDS Naturals, Sequences

VARIABLE fate  \* what became of each reminder that came due

Waiting == {i \in DOMAIN fate : fate[i] = "waiting"}

Oldest(S) == S \subseteq Waiting /\ \A i \in S, j \in Waiting \ S : i < j

DeliveryInit == fate = <<>>

ComeDue ==
  /\ Len(fate') > Len(fate)
  /\ fate' = fate \o [i \in 1..(Len(fate') - Len(fate)) |-> "waiting"]

Announce ==
  \E i \in Waiting :
    Oldest({i}) /\ fate' = [fate EXCEPT ![i] = "announced"]

Drop ==
  \E k \in Waiting :
    fate' = [i \in DOMAIN fate |->
               IF fate[i] = "waiting" /\ i <= k THEN "dropped" ELSE fate[i]]

DeliveryNext == ComeDue \/ Announce \/ Drop

DeliverySpec == DeliveryInit /\ [][DeliveryNext]_fate

=============================================================================
