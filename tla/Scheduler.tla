----------------------------- MODULE Scheduler -----------------------------
(***************************************************************************)
(* The reminders: the table of tasks in SQLite (src/src/scheduler/store.py)*)
(* which survives a restart, the thread that claims due tasks into a queue *)
(* (engine.py), the tools that schedule, cancel and snooze a task while a  *)
(* conversation is on, and the main thread that drains the queue while it  *)
(* sleeps (src/src/app/runtime.py).                                        *)
(*                                                                         *)
(* A transaction of the store is one step.  `sent' is a history variable:  *)
(* every claimed reminder in order; batch, queue and drained hold positions*)
(* in it where the code holds snapshots of the rows.                       *)
(***************************************************************************)
EXTENDS Integers, Sequences, FiniteSets

CONSTANTS
  MaxTasks,    \* config.max_tasks, the limit of active reminders
  ClaimLimit,  \* claim_limit of the engine
  DrainLimit,  \* max_announcements_per_cycle
  Intervals,   \* periods of recurring reminders
  Delays,      \* delays a tool may be called with
  MaxTime, MaxIds, MaxSnoozes, MaxExits  \* bounds

ASSUME SchedulerAssumption ==
  /\ MaxTasks \in Nat \ {0} /\ ClaimLimit \in 1..100 /\ DrainLimit \in 1..100
  /\ Intervals \subseteq Nat \ {0} /\ Delays \subseteq Nat \ {0}
  /\ MaxTime \in Nat /\ MaxIds \in Nat /\ MaxSnoozes \in Nat /\ MaxExits \in Nat

VARIABLES
  now,      \* the wall clock
  tasks,    \* scheduled_tasks, by id
  sent,     \* history: all claimed reminders
  batch,    \* claimed in this poll and not queued yet
  queue,    \* ReminderScheduler._queue
  drained,  \* the batch _deliver_due_reminders is announcing
  told,     \* history: the announced ones
  at,       \* the main thread
  call,     \* the task a cancellation has looked at and not written, or 0
  spoken,   \* tts_enabled and scheduler_announce_tts
  exits     \* bound: restarts so far

table == <<tasks, sent>>
lines == <<batch, queue, drained>>
vars  == <<now, table, lines, told, at, call, spoken, exits>>

Task == [due : Nat, every : Nat, status : {"active", "completed", "cancelled"},
         snoozed : Nat]  \* every = 0: once; snoozed: history

Recurring(t) == t.every > 0

SchedTypeOK ==
  /\ now \in Nat
  /\ tasks \in Seq(Task)
  /\ sent \in Seq([id : 1..Len(tasks), due : Nat, at : Nat])
  /\ batch \in Seq(1..Len(sent)) /\ queue \in Seq(1..Len(sent))
  /\ drained \in Seq(1..Len(sent)) /\ told \in Seq(1..Len(sent))
  /\ at \in {"down", "greet", "greeting", "head", "telling", "raised", "crashing",
            "asleep", "awake"}
  /\ call \in 0..Len(tasks)
  /\ spoken \in BOOLEAN
  /\ exits \in 0..MaxExits

Init ==
  /\ now = 0 /\ tasks = <<>> /\ sent = <<>>
  /\ batch = <<>> /\ queue = <<>> /\ drained = <<>> /\ told = <<>>
  /\ at = "down" /\ call = 0 /\ spoken \in BOOLEAN /\ exits = 0

Active == {i \in DOMAIN tasks : tasks[i].status = "active"}
Due == {i \in Active : tasks[i].due <= now}

-----------------------------------------------------------------------------
(* The tools: schedule_at, cancel and snooze of the store.                 *)

Schedule(delay, every) ==
  /\ at = "awake" /\ call = 0
  /\ Len(tasks) < MaxIds
  /\ Cardinality(Active) < MaxTasks
  /\ tasks' = Append(tasks, [due |-> now + delay, every |-> every, status |-> "active",
                             snoozed |-> 0])
  /\ UNCHANGED <<now, sent, lines, told, at, call, spoken, exits>>

(* cancel looks for an active task and then updates it, in two statements: *)
(* get() releases the lock and the UPDATE checks nothing again.            *)
FindToCancel(i) ==
  /\ at = "awake" /\ call = 0
  /\ tasks[i].status = "active"
  /\ call' = i
  /\ UNCHANGED <<now, table, lines, told, at, spoken, exits>>

CancelTask ==
  /\ call # 0
  /\ tasks' = [tasks EXCEPT ![call].status = "cancelled"]
  /\ call' = 0
  /\ UNCHANGED <<now, sent, lines, told, at, spoken, exits>>

(* snooze only asks whether the task exists: it revives any.               *)
Snoozed(t, delay) ==
  [t EXCEPT !.due = now + delay, !.status = "active", !.snoozed = t.snoozed + 1]

SnoozeTask(i, delay) ==
  /\ at = "awake" /\ call = 0
  /\ tasks[i].snoozed < MaxSnoozes
  /\ tasks' = [tasks EXCEPT ![i] = Snoozed(tasks[i], delay)]
  /\ UNCHANGED <<now, sent, lines, told, at, call, spoken, exits>>

-----------------------------------------------------------------------------
(* The engine: claim_due in one transaction, then one put after the other. *)

(* Mutant: a missed occurrence is not skipped.                             *)
AfterNowNotSkipped(t) == t.due + t.every

(* _next_time: the first time after now that is a whole number of periods  *)
(* after the one that is due.                                              *)
AfterNow(t) == t.due + t.every * ((now - t.due) \div t.every + 1)

Claimed(t) ==
  IF Recurring(t) THEN [t EXCEPT !.due = AfterNow(t)]
                  ELSE [t EXCEPT !.status = "completed"]

Before(i, j) ==
  \/ tasks[i].due < tasks[j].due
  \/ tasks[i].due = tasks[j].due /\ i < j

(* Mutant: any of the due tasks.                                           *)
FirstUnordered(s) ==
  /\ Len(s) = IF Cardinality(Due) < ClaimLimit THEN Cardinality(Due) ELSE ClaimLimit
  /\ \A a, b \in DOMAIN s : a # b => s[a] # s[b]

(* ORDER BY next_run_at, id LIMIT claim_limit                              *)
First(s) ==
  /\ Len(s) = IF Cardinality(Due) < ClaimLimit THEN Cardinality(Due) ELSE ClaimLimit
  /\ \A a, b \in DOMAIN s : a < b => Before(s[a], s[b])
  /\ \A i \in Due : (\E a \in DOMAIN s : s[a] = i) \/ (\A a \in DOMAIN s : Before(s[a], i))

Claim ==
  /\ at # "down" /\ batch = <<>> /\ Due # {}
  /\ \E n \in 1..ClaimLimit : \E s \in [1..n -> Due] :
       /\ First(s)
       /\ sent' = sent \o [a \in 1..n |-> [id |-> s[a], due |-> tasks[s[a]].due,
                                            at |-> now]]
       /\ batch' = [a \in 1..n |-> Len(sent) + a]
       /\ tasks' = [i \in DOMAIN tasks |->
                      IF \E a \in 1..n : s[a] = i THEN Claimed(tasks[i]) ELSE tasks[i]]
  /\ UNCHANGED <<now, queue, drained, told, at, call, spoken, exits>>

(* Mutant: a reminder is queued in front.                                  *)
PutInFront ==
  /\ at # "down" /\ batch # <<>>
  /\ queue' = <<Head(batch)>> \o queue /\ batch' = Tail(batch)
  /\ UNCHANGED <<now, table, drained, told, at, call, spoken, exits>>

Put ==
  /\ at # "down" /\ batch # <<>>
  /\ queue' = Append(queue, Head(batch))
  /\ batch' = Tail(batch)
  /\ UNCHANGED <<now, table, drained, told, at, call, spoken, exits>>

-----------------------------------------------------------------------------
(* The main thread.                                                        *)

Start ==
  /\ at = "down"
  /\ at' = "greet"
  /\ UNCHANGED <<now, table, lines, told, call, spoken, exits>>

After(n) == IF at = "greet" THEN IF n = 0 THEN "head" ELSE "greeting"
                            ELSE IF n = 0 THEN "asleep" ELSE "telling"

(* Mutant: only before the first wait.                                     *)
DrainOnce ==
  /\ at \in {"greet", "head"}
  /\ LET n == IF Len(queue) < DrainLimit THEN Len(queue) ELSE DrainLimit
     IN  /\ drained' = SubSeq(queue, 1, n)
         /\ queue' = SubSeq(queue, n + 1, Len(queue))
         /\ at' = After(n)
  /\ UNCHANGED <<now, table, batch, told, call, spoken, exits>>

(* _deliver_due_reminders, at every round of the loop that waits for the   *)
(* wake word and once before the loop.                                     *)
Drain ==
  /\ at \in {"greet", "head", "asleep"}
  /\ LET n == IF Len(queue) < DrainLimit THEN Len(queue) ELSE DrainLimit
     IN  /\ drained' = SubSeq(queue, 1, n)
         /\ queue' = SubSeq(queue, n + 1, Len(queue))
         /\ at' = After(n)
  /\ UNCHANGED <<now, table, batch, told, call, spoken, exits>>

Rest == IF at = "greeting" THEN "head" ELSE "asleep"

(* _announce_due_reminder shows the reminder; if it is to be spoken too,   *)
(* the transition SLEEPING -> SPEAKING raises.                             *)
Tell ==
  /\ at \in {"greeting", "telling"}
  /\ told' = Append(told, Head(drained))
  /\ drained' = Tail(drained)
  /\ at' = IF spoken THEN IF at = "greeting" THEN "crashing" ELSE "raised"
           ELSE IF Tail(drained) = <<>> THEN Rest ELSE at
  /\ UNCHANGED <<now, table, batch, queue, call, spoken, exits>>

(* The recovery goes back to the loop without the rest of the round.       *)
Recover ==
  /\ at = "raised"
  /\ drained' = <<>>
  /\ at' = "head"
  /\ UNCHANGED <<now, table, batch, queue, told, call, spoken, exits>>

(* The process ends: before the loop nothing catches the exception.        *)
Ends ==
  /\ at' = "down"
  /\ batch' = <<>> /\ queue' = <<>> /\ drained' = <<>> /\ call' = 0
  /\ UNCHANGED <<now, table, told, spoken>>

Crash == at = "crashing" /\ Ends /\ UNCHANGED exits

Exit ==
  /\ at \notin {"down", "crashing"} /\ exits < MaxExits
  /\ exits' = exits + 1
  /\ Ends

Wake ==
  /\ at = "asleep"
  /\ at' = "awake"
  /\ UNCHANGED <<now, table, lines, told, call, spoken, exits>>

SwitchSpeech ==
  /\ at = "awake" /\ call = 0
  /\ spoken' = ~spoken
  /\ UNCHANGED <<now, table, lines, told, at, call, exits>>

ConversationEnds ==
  /\ at = "awake" /\ call = 0
  /\ at' = "head"
  /\ UNCHANGED <<now, table, lines, told, call, spoken, exits>>

Tick ==
  /\ now < MaxTime
  /\ now' = now + 1
  /\ UNCHANGED <<table, lines, told, at, call, spoken, exits>>

-----------------------------------------------------------------------------

Tools ==
  \/ \E delay \in Delays, every \in Intervals \cup {0} : Schedule(delay, every)
  \/ \E i \in DOMAIN tasks :
       FindToCancel(i) \/ \E delay \in Delays : SnoozeTask(i, delay)
  \/ CancelTask

Engine == Claim \/ Put

Deliver == Drain \/ Tell \/ Recover \/ Crash

Next ==
  \/ Start \/ Exit \/ Engine \/ Deliver \/ Wake \/ ConversationEnds
  \/ Tools \/ SwitchSpeech \/ Tick

(* The threads run, a tool call that was begun is finished and a           *)
(* conversation ends; nobody has to start the program, to wake it or to    *)
(* let it run.                                                             *)
Fairness ==
  /\ WF_vars(Engine)
  /\ WF_vars(Deliver)
  /\ WF_vars(ConversationEnds)
  /\ WF_vars(CancelTask)

Spec == Init /\ [][Next]_vars /\ Fairness

-----------------------------------------------------------------------------

InFlight == drained \o queue \o batch

Holds(s, n) == \E k \in DOMAIN s : s[k] = n

(* Reminders are claimed, and so announced, in the order of their times,   *)
(* whatever is snoozed, repeated or left over from before a restart.       *)
ClaimsInOrder ==
  \A m, n \in DOMAIN sent : m < n => sent[m].due <= sent[n].due

(* A reminder is claimed once per occasion: again only for a time after    *)
(* the claim before, so the occurrences missed meanwhile are skipped; and  *)
(* a one-time reminder only as often again as it was snoozed.              *)
OncePerOccasion ==
  /\ \A m, n \in DOMAIN sent :
       (m < n /\ sent[m].id = sent[n].id) => sent[m].at < sent[n].due
  /\ \A i \in DOMAIN tasks :
       ~Recurring(tasks[i]) =>
         Cardinality({n \in DOMAIN sent : sent[n].id = i}) <= 1 + tasks[i].snoozed

Fate ==
  [n \in DOMAIN sent |->
     IF Holds(told, n) THEN "announced"
     ELSE IF Holds(InFlight, n) THEN "waiting" ELSE "dropped"]

Delivery == INSTANCE ReminderDelivery WITH fate <- Fate

(* The batch of a poll, the queue and the round of announcements together  *)
(* deliver every claimed reminder at most once and in order, and drop none *)
(* but in a restart or with a round that raised.                           *)
ImplementsDelivery == Delivery!DeliverySpec

Unsettled(i) == i \in Due \/ \E k \in DOMAIN InFlight : sent[InFlight[k]].id = i

(* A reminder that is due does not stay so: it is announced, or cancelled, *)
(* snoozed, dropped with a round that raised, or the program ends.         *)
DueIsSettled ==
  \A i \in 1..MaxIds :
    (i \in DOMAIN tasks /\ Unsettled(i)) ~> (at = "down" \/ ~Unsettled(i))

=============================================================================
