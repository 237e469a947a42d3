--------------------------- MODULE SchedulerProofs ---------------------------
(***************************************************************************)
(* The scheduler for any number of tasks, limits, periods and restarts:    *)
(* claims come in order and once per occasion, and the batch, the queue and*)
(* the round of announcements implement ReminderDelivery.                  *)
(*                                                                         *)
(* The refinement rests on one fact: what is in flight are the claims      *)
(* Settled + 1 .. Len(sent), in this order, and what was announced is      *)
(* behind them.                                                            *)
(***************************************************************************)
EXTENDS Scheduler, FiniteSetTheorems, SequenceTheorems, TLAPS

Settled == Len(sent) - Len(batch) - Len(queue) - Len(drained)

Consecutive ==
  /\ Settled >= 0
  /\ \A j \in 1..Len(drained) : drained[j] = Settled + j
  /\ \A j \in 1..Len(queue) : queue[j] = Settled + Len(drained) + j
  /\ \A j \in 1..Len(batch) : batch[j] = Settled + Len(drained) + Len(queue) + j
  /\ \A j \in 1..Len(told) : told[j] <= Settled

(* Where a round of announcements is under way, and where none is.         *)
Rounds ==
  /\ at \in {"greeting", "telling"} => drained # <<>>
  /\ at \in {"down", "greet", "head", "asleep", "awake"} => drained = <<>>

FlightInv == SchedTypeOK /\ Rounds /\ Consecutive

(* What is still active lies after everything that was claimed.            *)
Timely ==
  /\ \A n \in DOMAIN sent : sent[n].due <= sent[n].at /\ sent[n].at <= now
  /\ \A n \in DOMAIN sent, i \in Active :
       /\ sent[n].due <= tasks[i].due
       /\ sent[n].id = i => sent[n].at < tasks[i].due

ClaimsOf(i) == {n \in DOMAIN sent : sent[n].id = i}

(* An active reminder has a snooze left for each of its claims.            *)
Counted ==
  \A i \in DOMAIN tasks :
    ~Recurring(tasks[i]) =>
      Cardinality(ClaimsOf(i)) <= tasks[i].snoozed
                                    + IF tasks[i].status = "active" THEN 0 ELSE 1

ClaimInv ==
  /\ FlightInv
  /\ Timely
  /\ ClaimsInOrder
  /\ OncePerOccasion
  /\ Counted

-----------------------------------------------------------------------------

Claims == [id : 1..Len(tasks), due : Nat, at : Nat]

(* A table of n entries is a sequence of length n.                         *)
LEMMA TableIsSeq ==
  ASSUME NEW T, NEW n \in Nat, NEW f \in [1..n -> T]
  PROVE  f \in Seq(T) /\ Len(f) = n /\ DOMAIN f = 1..n
<1>1. f \in Seq(T)
  BY SeqDef
<1>2. DOMAIN f = 1..n /\ DOMAIN f = 1..Len(f) /\ Len(f) \in Nat
  BY <1>1, LenProperties
<1> QED
  BY <1>1, <1>2

(* The next occasion of a recurring reminder lies after the clock.         *)
LEMMA NextIsLater ==
  ASSUME NEW t \in Task, Recurring(t), now \in Nat, t.due <= now
  PROVE  AfterNow(t) \in Nat /\ AfterNow(t) > now
<1> DEFINE late == now - t.due
           d    == t.every
           q    == late \div d
<1>1. late \in Nat /\ d \in Nat /\ d > 0
  BY DEF Task, Recurring
<1>2. AfterNow(t) = t.due + d * (q + 1)
  BY DEF AfterNow
<1>3. t.due \in Nat /\ now = t.due + late
  BY DEF Task
<1> HIDE DEF late, d
<1>4. q \in Nat /\ late % d \in 0..(d - 1) /\ late = d * q + (late % d)
  BY <1>1
<1> HIDE DEF q
<1>5. d * (q + 1) = d * q + d
  BY <1>1, <1>4
<1>6. d * (q + 1) \in Nat /\ d * q \in Nat
  BY <1>1, <1>4
<1>7. d * (q + 1) > late
  BY <1>1, <1>4, <1>5, <1>6
<1> QED
  BY <1>2, <1>3, <1>6, <1>7, <1>1

LEMMA ClaimedType ==
  ASSUME NEW t \in Task, now \in Nat, t.due <= now
  PROVE  /\ Claimed(t) \in Task
         /\ Recurring(Claimed(t)) <=> Recurring(t)
         /\ Claimed(t).snoozed = t.snoozed
         /\ Recurring(t) => Claimed(t).due > now
         /\ ~Recurring(t) => Claimed(t).status = "completed"
<1>1. CASE Recurring(t)
  <2>1. AfterNow(t) \in Nat /\ AfterNow(t) > now
    BY <1>1, NextIsLater
  <2>2. Claimed(t) = [t EXCEPT !.due = AfterNow(t)]
    BY <1>1 DEF Claimed
  <2> QED
    BY <1>1, <2>1, <2>2 DEF Task, Recurring
<1>2. CASE ~Recurring(t)
  <2>1. Claimed(t) = [t EXCEPT !.status = "completed"]
    BY <1>2 DEF Claimed
  <2> QED
    BY <1>2, <2>1 DEF Task, Recurring
<1> QED
  BY <1>1, <1>2

(* What SchedTypeOK says of the tables and queues entry by entry.          *)
LEMMA EntryTypes ==
  ASSUME SchedTypeOK
  PROVE  /\ Len(tasks) \in Nat /\ DOMAIN tasks = 1..Len(tasks)
         /\ \A i \in 1..Len(tasks) : tasks[i] \in Task
         /\ Len(sent) \in Nat /\ DOMAIN sent = 1..Len(sent)
         /\ \A n \in 1..Len(sent) : sent[n] \in Claims
         /\ Len(batch) \in Nat /\ Len(queue) \in Nat
         /\ Len(drained) \in Nat /\ Len(told) \in Nat
BY LenProperties, ElementOfSeq DEF SchedTypeOK, Claims

-----------------------------------------------------------------------------
(* The claim, in terms of the positions it touches.                        *)

(* What a claim of the tasks s does, entry by entry.                       *)
ClaimOf(n, s) ==
  /\ n \in Nat /\ n > 0
  /\ s \in [1..n -> Due]
  /\ \A a, b \in 1..n : a < b => Before(s[a], s[b])
  /\ \A i \in Due : (\E a \in 1..n : s[a] = i) \/ (\A a \in 1..n : Before(s[a], i))
  /\ sent' \in Seq(Claims)
  /\ Len(sent') = Len(sent) + n
  /\ \A k \in 1..Len(sent) : sent'[k] = sent[k]
  /\ \A a \in 1..n :
       sent'[Len(sent) + a] = [id |-> s[a], due |-> tasks[s[a]].due, at |-> now]
  /\ batch' \in Seq(1..Len(sent'))
  /\ Len(batch') = n
  /\ \A a \in 1..n : batch'[a] = Len(sent) + a
  /\ tasks' \in Seq(Task)
  /\ Len(tasks') = Len(tasks)
  /\ \A i \in 1..Len(tasks) :
       tasks'[i] = IF \E a \in 1..n : s[a] = i THEN Claimed(tasks[i]) ELSE tasks[i]

LEMMA DueTypes ==
  ASSUME SchedTypeOK, NEW i \in Due
  PROVE  /\ i \in 1..Len(tasks) /\ tasks[i] \in Task
         /\ tasks[i].due \in Nat /\ tasks[i].due <= now
         /\ tasks[i].status = "active"
BY EntryTypes DEF Due, Active, Task

LEMMA ClaimEffect ==
  ASSUME SchedTypeOK, Claim
  PROVE  \E n, s : ClaimOf(n, s)
<1>1. PICK n \in 1..ClaimLimit : \E s \in [1..n -> Due] :
         /\ First(s)
         /\ sent' = sent \o [a \in 1..n |-> [id |-> s[a], due |-> tasks[s[a]].due,
                                              at |-> now]]
         /\ batch' = [a \in 1..n |-> Len(sent) + a]
         /\ tasks' = [i \in DOMAIN tasks |->
                        IF \E a \in 1..n : s[a] = i THEN Claimed(tasks[i]) ELSE tasks[i]]
  BY DEF Claim
<1>2. PICK s \in [1..n -> Due] :
         /\ First(s)
         /\ sent' = sent \o [a \in 1..n |-> [id |-> s[a], due |-> tasks[s[a]].due,
                                              at |-> now]]
         /\ batch' = [a \in 1..n |-> Len(sent) + a]
         /\ tasks' = [i \in DOMAIN tasks |->
                        IF \E a \in 1..n : s[a] = i THEN Claimed(tasks[i]) ELSE tasks[i]]
  BY <1>1
<1>3. n \in Nat /\ n > 0
  BY SchedulerAssumption
<1> DEFINE claims == [a \in 1..n |-> [id |-> s[a], due |-> tasks[s[a]].due, at |-> now]]
<1>4. claims \in Seq(Claims) /\ Len(claims) = n
  <2>1. \A a \in 1..n : s[a] \in 1..Len(tasks) /\ tasks[s[a]].due \in Nat
    BY DueTypes
  <2>2. claims \in [1..n -> Claims]
    BY <2>1 DEF Claims, SchedTypeOK
  <2> HIDE DEF claims
  <2> QED
    BY <2>2, <1>3, TableIsSeq
<1>5. /\ sent' \in Seq(Claims)
      /\ Len(sent') = Len(sent) + n
      /\ \A k \in 1..Len(sent) : sent'[k] = sent[k]
      /\ \A a \in 1..n : sent'[Len(sent) + a] = claims[a]
  <2>1. sent \in Seq(Claims) /\ Len(sent) \in Nat
    BY EntryTypes DEF SchedTypeOK, Claims
  <2>2. sent' = sent \o claims
    BY <1>2
  <2> HIDE DEF claims
  <2>3. /\ sent \o claims \in Seq(Claims)
        /\ Len(sent \o claims) = Len(sent) + Len(claims)
        /\ \A k \in 1..(Len(sent) + Len(claims)) :
             (sent \o claims)[k] = IF k <= Len(sent) THEN sent[k]
                                   ELSE claims[k - Len(sent)]
    BY <1>4, <2>1, ConcatProperties
  <2> QED
    BY <1>3, <1>4, <2>1, <2>2, <2>3
<1>6. \A a \in 1..n : claims[a] = [id |-> s[a], due |-> tasks[s[a]].due, at |-> now]
  OBVIOUS
<1>7. /\ batch' \in Seq(1..Len(sent'))
      /\ Len(batch') = n
      /\ \A a \in 1..n : batch'[a] = Len(sent) + a
  <2>1. batch' \in [1..n -> 1..Len(sent')]
    BY <1>2, <1>3, <1>5, EntryTypes
  <2> QED
    BY <1>2, <1>3, <2>1, TableIsSeq
<1>8. /\ tasks' \in Seq(Task)
      /\ Len(tasks') = Len(tasks)
      /\ \A i \in 1..Len(tasks) :
           tasks'[i] = IF \E a \in 1..n : s[a] = i THEN Claimed(tasks[i]) ELSE tasks[i]
  <2>1. \A i \in Due : Claimed(tasks[i]) \in Task
    BY DueTypes, ClaimedType DEF SchedTypeOK
  <2>2. tasks' \in [1..Len(tasks) -> Task]
    BY <1>2, <2>1, EntryTypes
  <2> QED
    BY <1>2, <2>2, EntryTypes, TableIsSeq
<1>9. /\ \A a, b \in 1..n : a < b => Before(s[a], s[b])
      /\ \A i \in Due : (\E a \in 1..n : s[a] = i) \/ (\A a \in 1..n : Before(s[a], i))
  BY <1>2 DEF First
<1> HIDE DEF claims
<1>10. ClaimOf(n, s)
  BY <1>2, <1>3, <1>5, <1>6, <1>7, <1>8, <1>9 DEF ClaimOf
<1> QED
  BY <1>10

-----------------------------------------------------------------------------
(* The flight of a claim: batch, queue, round, announcement.               *)

LEMMA SeqWiden ==
  ASSUME NEW A, NEW B, A \subseteq B, NEW s \in Seq(A)
  PROVE  s \in Seq(B)
<1>1. s \in [1..Len(s) -> B] /\ Len(s) \in Nat
  BY LenProperties
<1> QED
  BY <1>1, TableIsSeq

(* A step that leaves the claims and the lines alone.                      *)
LEMMA TableKeeps ==
  ASSUME FlightInv, UNCHANGED <<sent, lines, told, at>>,
         tasks' \in Seq(Task), Len(tasks') >= Len(tasks),
         now' \in Nat, call' \in 0..Len(tasks'), spoken' \in BOOLEAN,
         exits' \in 0..MaxExits
  PROVE  FlightInv'
<1>1. Len(tasks') \in Nat /\ Len(tasks) \in Nat
  BY LenProperties DEF FlightInv, SchedTypeOK
<1>2. Claims \subseteq Claims'
  BY <1>1 DEF Claims
<1>3. sent \in Seq(Claims')
  <2>1. sent \in Seq(Claims)
    BY DEF FlightInv, SchedTypeOK, Claims
  <2> QED
    BY <1>2, <2>1, SeqWiden
<1>4. SchedTypeOK'
  BY <1>3 DEF FlightInv, SchedTypeOK, lines, Claims
<1>5. Consecutive' /\ Rounds'
  BY DEF FlightInv, Consecutive, Settled, Rounds, lines
<1> QED
  BY <1>4, <1>5 DEF FlightInv

LEMMA FlightInit == Init => FlightInv
<1> SUFFICES ASSUME Init PROVE FlightInv
  OBVIOUS
<1>1. 0 \in 0..MaxExits /\ Len(<<>>) = 0 /\ 0 \in 0..0
  BY SchedulerAssumption
<1>2. SchedTypeOK
  BY <1>1 DEF Init, SchedTypeOK
<1>3. Consecutive
  BY DEF Init, Consecutive, Settled
<1>4. Rounds
  BY DEF Init, Rounds
<1> QED
  BY <1>2, <1>3, <1>4 DEF FlightInv

LEMMA ScheduleKeeps ==
  ASSUME FlightInv, NEW delay \in Delays, NEW every \in Intervals \cup {0},
         Schedule(delay, every)
  PROVE  FlightInv'
<1> DEFINE t == [due |-> now + delay, every |-> every, status |-> "active", snoozed |-> 0]
<1>1. t \in Task
  BY SchedulerAssumption DEF Task, FlightInv, SchedTypeOK
<1>2. tasks \in Seq(Task) /\ Len(tasks) \in Nat
  BY EntryTypes DEF FlightInv, SchedTypeOK
<1>3. tasks' = Append(tasks, t)
  BY DEF Schedule
<1> HIDE DEF t
<1>4. tasks' \in Seq(Task) /\ Len(tasks') = Len(tasks) + 1
  BY <1>1, <1>2, <1>3, AppendProperties
<1> QED
  BY <1>2, <1>4, TableKeeps DEF Schedule, FlightInv, SchedTypeOK

(* Writing one row of the table.                                           *)
LEMMA RowKeeps ==
  ASSUME SchedTypeOK, NEW i \in 1..Len(tasks), NEW t \in Task
  PROVE  /\ [tasks EXCEPT ![i] = t] \in Seq(Task)
         /\ Len([tasks EXCEPT ![i] = t]) = Len(tasks)
         /\ \A j \in 1..Len(tasks) :
              [tasks EXCEPT ![i] = t][j] = IF j = i THEN t ELSE tasks[j]
<1>1. [tasks EXCEPT ![i] = t] \in [1..Len(tasks) -> Task] /\ Len(tasks) \in Nat
  BY EntryTypes
<1>2. \A j \in 1..Len(tasks) :
        [tasks EXCEPT ![i] = t][j] = IF j = i THEN t ELSE tasks[j]
  BY EntryTypes
<1> QED
  BY <1>1, <1>2, TableIsSeq

LEMMA CancelKeeps ==
  ASSUME FlightInv, CancelTask
  PROVE  FlightInv'
<1> DEFINE t == [tasks[call] EXCEPT !.status = "cancelled"]
<1>1. call \in 1..Len(tasks) /\ Len(tasks) \in Nat
  BY EntryTypes DEF FlightInv, SchedTypeOK, CancelTask
<1>2. t \in Task
  BY <1>1, EntryTypes DEF Task, FlightInv
<1>3. tasks' = [tasks EXCEPT ![call] = t]
  BY DEF CancelTask
<1> HIDE DEF t
<1>4. tasks' \in Seq(Task) /\ Len(tasks') = Len(tasks)
  BY <1>1, <1>2, <1>3, RowKeeps DEF FlightInv
<1> QED
  BY <1>1, <1>4, TableKeeps DEF CancelTask, FlightInv, SchedTypeOK

LEMMA SnoozeKeeps ==
  ASSUME FlightInv, NEW i \in DOMAIN tasks, NEW delay \in Delays, SnoozeTask(i, delay)
  PROVE  FlightInv'
<1> DEFINE t == Snoozed(tasks[i], delay)
<1>1. i \in 1..Len(tasks) /\ Len(tasks) \in Nat
  BY EntryTypes DEF FlightInv
<1>2. t \in Task
  <2>1. tasks[i] \in Task /\ now + delay \in Nat
    BY <1>1, EntryTypes, SchedulerAssumption DEF FlightInv, SchedTypeOK
  <2>2. tasks[i].snoozed + 1 \in Nat
    BY <2>1 DEF Task
  <2> QED
    BY <2>1, <2>2 DEF Task, Snoozed
<1>3. tasks' = [tasks EXCEPT ![i] = t]
  BY DEF SnoozeTask
<1> HIDE DEF t
<1>4. tasks' \in Seq(Task) /\ Len(tasks') = Len(tasks)
  BY <1>1, <1>2, <1>3, RowKeeps DEF FlightInv
<1> QED
  BY <1>1, <1>4, TableKeeps DEF SnoozeTask, FlightInv, SchedTypeOK

(* The positions the lines hold.                                           *)
LEMMA LineTypes ==
  ASSUME SchedTypeOK
  PROVE  /\ batch \in Seq(1..Len(sent)) /\ queue \in Seq(1..Len(sent))
         /\ drained \in Seq(1..Len(sent)) /\ told \in Seq(1..Len(sent))
         /\ \A j \in 1..Len(batch) : batch[j] \in 1..Len(sent)
         /\ \A j \in 1..Len(queue) : queue[j] \in 1..Len(sent)
         /\ \A j \in 1..Len(drained) : drained[j] \in 1..Len(sent)
         /\ \A j \in 1..Len(told) : told[j] \in 1..Len(sent)
         /\ Len(sent) \in Nat /\ Settled \in Int
<1>1. /\ batch \in Seq(1..Len(sent)) /\ queue \in Seq(1..Len(sent))
      /\ drained \in Seq(1..Len(sent)) /\ told \in Seq(1..Len(sent))
  BY DEF SchedTypeOK
<1>2. Settled \in Int /\ Len(sent) \in Nat
  BY EntryTypes DEF Settled
<1> QED
  BY <1>1, <1>2, ElementOfSeq

LEMMA ClaimKeeps ==
  ASSUME FlightInv, Claim
  PROVE  FlightInv' /\ Settled' = Settled
<1>1. PICK n, s : ClaimOf(n, s)
  BY ClaimEffect DEF FlightInv
<1>2. /\ Len(sent) \in Nat /\ n \in Nat /\ Len(sent') = Len(sent) + n
      /\ batch = <<>> /\ Len(batch) = 0 /\ Len(batch') = n
      /\ Len(tasks') = Len(tasks)
      /\ UNCHANGED <<now, queue, drained, told, at, call, spoken, exits>>
  BY <1>1, EntryTypes DEF ClaimOf, Claim, FlightInv
<1>3. 1..Len(sent) \subseteq 1..Len(sent')
  BY <1>2
<1>4. /\ queue' \in Seq(1..Len(sent')) /\ drained' \in Seq(1..Len(sent'))
      /\ told' \in Seq(1..Len(sent'))
  BY <1>2, <1>3, SeqWiden, LineTypes DEF FlightInv
<1>5. SchedTypeOK'
  BY <1>1, <1>2, <1>4 DEF ClaimOf, Claims, FlightInv, SchedTypeOK
<1>6. Settled' = Settled
  BY <1>2, EntryTypes DEF Settled, FlightInv
<1>7. Consecutive'
  <2>1. \A a \in 1..n : batch'[a] = Len(sent) + a
    BY <1>1 DEF ClaimOf
  <2>2. Settled + Len(drained) + Len(queue) = Len(sent)
    BY <1>2, EntryTypes DEF Settled, FlightInv
  <2> QED
    BY <1>2, <1>6, <2>1, <2>2 DEF FlightInv, Consecutive
<1>8. Rounds'
  BY <1>2 DEF FlightInv, Rounds
<1> QED
  BY <1>5, <1>6, <1>7, <1>8 DEF FlightInv

LEMMA PutKeeps ==
  ASSUME FlightInv, Put
  PROVE  FlightInv' /\ Settled' = Settled
<1>1. /\ batch # <<>> /\ batch \in Seq(1..Len(sent)) /\ queue \in Seq(1..Len(sent))
      /\ queue' = Append(queue, Head(batch)) /\ batch' = Tail(batch)
      /\ UNCHANGED <<now, tasks, sent, drained, told, at, call, spoken, exits>>
  BY LineTypes DEF Put, FlightInv, table
<1>2. Head(batch) \in 1..Len(sent) /\ Head(batch) = batch[1] /\ Len(batch) > 0
  BY <1>1, HeadTailProperties
<1>3. /\ queue' \in Seq(1..Len(sent)) /\ Len(queue') = Len(queue) + 1
      /\ \A j \in 1..Len(queue) : queue'[j] = queue[j]
      /\ queue'[Len(queue) + 1] = batch[1]
  BY <1>1, <1>2, AppendProperties
<1>4. /\ batch' \in Seq(1..Len(sent)) /\ Len(batch') = Len(batch) - 1
      /\ \A j \in 1..Len(batch') : batch'[j] = batch[j + 1]
  BY <1>1, HeadTailProperties
<1>5. SchedTypeOK'
  BY <1>1, <1>3, <1>4 DEF FlightInv, SchedTypeOK
<1>6. Len(batch) \in Nat /\ Len(queue) \in Nat /\ Len(drained) \in Nat /\ Settled \in Int
  BY EntryTypes, LineTypes DEF FlightInv
<1>7. Settled' = Settled
  BY <1>1, <1>3, <1>4, <1>6, EntryTypes DEF Settled, FlightInv
<1>8. batch[1] = Settled + Len(drained) + Len(queue) + 1
  BY <1>2, <1>6 DEF FlightInv, Consecutive
<1>9. \A j \in 1..Len(queue') : queue'[j] = Settled + Len(drained) + j
  <2>1. \A j \in 1..Len(queue) : queue'[j] = Settled + Len(drained) + j
    BY <1>3 DEF FlightInv, Consecutive
  <2>2. \A j \in 1..Len(queue') : j \in 1..Len(queue) \/ j = Len(queue) + 1
    BY <1>3, <1>6
  <2> QED
    BY <1>3, <1>6, <1>8, <2>1, <2>2
<1>10. \A j \in 1..Len(batch') : batch'[j] = Settled + Len(drained) + Len(queue') + j
  BY <1>3, <1>4, <1>6 DEF FlightInv, Consecutive
<1>11. Consecutive'
  BY <1>1, <1>7, <1>9, <1>10 DEF FlightInv, Consecutive
<1>12. Rounds'
  BY <1>1 DEF FlightInv, Rounds
<1> QED
  BY <1>5, <1>7, <1>11, <1>12 DEF FlightInv

LEMMA DrainKeeps ==
  ASSUME FlightInv, Drain
  PROVE  FlightInv' /\ Settled' = Settled
<1> DEFINE n == IF Len(queue) < DrainLimit THEN Len(queue) ELSE DrainLimit
<1>1. /\ drained' = SubSeq(queue, 1, n)
      /\ queue' = SubSeq(queue, n + 1, Len(queue))
      /\ at' = After(n) /\ drained = <<>>
      /\ UNCHANGED <<now, tasks, sent, batch, told, call, spoken, exits>>
  BY DEF Drain, FlightInv, Rounds, table
<1>2. n \in 0..Len(queue) /\ Len(queue) \in Nat /\ (n = 0 => Len(queue) = 0)
  BY EntryTypes, SchedulerAssumption DEF FlightInv
<1> HIDE DEF n
<1>3. /\ drained' \in Seq(1..Len(sent)) /\ Len(drained') = n
      /\ \A j \in 1..n : drained'[j] = queue[j]
  <2>1. \A j \in 1..n : queue[j] \in 1..Len(sent)
    BY <1>2, LineTypes DEF FlightInv
  <2> QED
    BY <1>1, <1>2, <2>1, SubSeqProperties
<1>4. /\ queue' \in Seq(1..Len(sent)) /\ Len(queue') = Len(queue) - n
      /\ \A j \in 1..(Len(queue) - n) : queue'[j] = queue[n + j]
  <2>1. \A j \in (n + 1)..Len(queue) : queue[j] \in 1..Len(sent)
    BY <1>2, LineTypes DEF FlightInv
  <2>2. /\ SubSeq(queue, n + 1, Len(queue)) \in Seq(1..Len(sent))
        /\ Len(SubSeq(queue, n + 1, Len(queue)))
             = IF n + 1 <= Len(queue) THEN Len(queue) - (n + 1) + 1 ELSE 0
        /\ \A j \in 1..(Len(queue) - (n + 1) + 1) :
             SubSeq(queue, n + 1, Len(queue))[j] = queue[(n + 1) + j - 1]
    BY <1>2, <2>1, SubSeqProperties
  <2> QED
    BY <1>1, <1>2, <2>2
<1>5. at \in {"greet", "head", "asleep"}
  BY DEF Drain
<1>6. SchedTypeOK'
  BY <1>1, <1>3, <1>4, <1>5 DEF FlightInv, SchedTypeOK, After
<1>7. Len(drained) = 0 /\ Len(batch) \in Nat /\ Settled \in Int
  BY <1>1, EntryTypes, LineTypes DEF FlightInv
<1>8. Settled' = Settled
  BY <1>1, <1>2, <1>3, <1>4, <1>7, EntryTypes DEF Settled, FlightInv
<1>9. Consecutive'
  <2> DEFINE S == Settled
  <2>0. /\ S \in Int /\ S >= 0
        /\ \A j \in 1..Len(queue) : queue[j] = S + j
        /\ \A j \in 1..Len(batch) : batch[j] = S + Len(queue) + j
    BY <1>2, <1>7 DEF FlightInv, Consecutive
  <2> HIDE DEF S
  <2>1. \A j \in 1..Len(drained') : drained'[j] = S + j
    BY <1>2, <1>3, <2>0
  <2>2. \A j \in 1..Len(queue') : queue'[j] = S + Len(drained') + j
    BY <1>2, <1>3, <1>4, <2>0
  <2>3. Len(drained') + Len(queue') = Len(drained) + Len(queue)
    BY <1>2, <1>3, <1>4, <1>7
  <2>4. \A j \in 1..Len(batch') :
           batch'[j] = S + Len(drained') + Len(queue') + j
    <3>1. batch' = batch /\ Len(batch) \in Nat
      BY <1>1, <1>7
    <3>2. \A j \in 1..Len(batch) : batch[j] = S + Len(queue) + j
      BY <2>0
    <3>3. \A j \in Nat : S + Len(drained') + Len(queue') + j = S + Len(queue) + j
      BY <1>2, <1>3, <1>4, <2>0
    <3> QED
      BY <3>1, <3>2, <3>3
  <2> QED
    BY <1>1, <1>8, <2>1, <2>2, <2>4 DEF FlightInv, Consecutive, S
<1>10. Rounds'
  <2>1. CASE n = 0
    BY <1>1, <1>3, <1>5, <2>1, EmptySeq DEF Rounds, After
  <2>2. CASE n # 0
    <3>1. drained' # <<>>
      BY <1>2, <1>3, <2>2
    <3> QED
      BY <1>1, <1>5, <2>2, <3>1 DEF Rounds, After
  <2> QED
    BY <2>1, <2>2
<1> QED
  BY <1>6, <1>8, <1>9, <1>10 DEF FlightInv

LEMMA TellKeeps ==
  ASSUME FlightInv, Tell
  PROVE  /\ FlightInv' /\ Settled' = Settled + 1
         /\ Settled < Len(sent) /\ Head(drained) = Settled + 1
<1>1. /\ drained \in Seq(1..Len(sent)) /\ drained # <<>>
      /\ told \in Seq(1..Len(sent))
      /\ told' = Append(told, Head(drained)) /\ drained' = Tail(drained)
      /\ UNCHANGED <<now, tasks, sent, batch, queue, call, spoken, exits>>
  BY LineTypes DEF Tell, FlightInv, Rounds, table
<1>2. Head(drained) \in 1..Len(sent) /\ Head(drained) = drained[1] /\ Len(drained) > 0
  BY <1>1, HeadTailProperties
<1>3. /\ drained' \in Seq(1..Len(sent)) /\ Len(drained') = Len(drained) - 1
      /\ \A j \in 1..Len(drained') : drained'[j] = drained[j + 1]
  BY <1>1, HeadTailProperties
<1>4. /\ told' \in Seq(1..Len(sent)) /\ Len(told') = Len(told) + 1
      /\ \A j \in 1..Len(told) : told'[j] = told[j]
      /\ told'[Len(told) + 1] = drained[1]
  BY <1>1, <1>2, AppendProperties
<1>5. /\ Len(batch) \in Nat /\ Len(queue) \in Nat /\ Len(drained) \in Nat
      /\ Len(told) \in Nat /\ Len(sent) \in Nat /\ Settled \in Int
  BY EntryTypes, LineTypes DEF FlightInv
<1>6. Settled' = Settled + 1
  BY <1>1, <1>3, <1>5 DEF Settled
<1>7. drained[1] = Settled + 1
  BY <1>2, <1>5 DEF FlightInv, Consecutive
<1>8. /\ at' = IF spoken THEN IF at = "greeting" THEN "crashing" ELSE "raised"
               ELSE IF Tail(drained) = <<>> THEN Rest ELSE at
      /\ at \in {"greeting", "telling"}
  BY DEF Tell
<1>9. SchedTypeOK'
  BY <1>1, <1>3, <1>4, <1>8 DEF FlightInv, SchedTypeOK, Rest
<1>10. Consecutive'
  <2> DEFINE S == Settled
  <2>1. /\ S \in Int /\ S >= 0
        /\ \A j \in 1..Len(drained) : drained[j] = S + j
        /\ \A j \in 1..Len(queue) : queue[j] = S + Len(drained) + j
        /\ \A j \in 1..Len(batch) : batch[j] = S + Len(drained) + Len(queue) + j
        /\ \A j \in 1..Len(told) : told[j] <= S
        /\ \A j \in 1..Len(told) : told[j] \in 1..Len(sent)
    BY <1>5, LineTypes DEF FlightInv, Consecutive
  <2>2. Settled' = S + 1 /\ drained[1] = S + 1
    BY <1>6, <1>7
  <2> HIDE DEF S
  <2>3. \A j \in 1..Len(drained') : drained'[j] = (S + 1) + j
    BY <1>3, <1>5, <2>1
  <2>4. \A j \in 1..Len(queue) : queue[j] = (S + 1) + Len(drained') + j
    BY <1>3, <1>5, <2>1
  <2>5. \A j \in 1..Len(batch) : batch[j] = (S + 1) + Len(drained') + Len(queue) + j
    BY <1>3, <1>5, <2>1
  <2>6. \A j \in 1..Len(told') : told'[j] <= S + 1
    <3>1. \A j \in 1..Len(told') : j \in 1..Len(told) \/ j = Len(told) + 1
      BY <1>4, <1>5
    <3>2. \A j \in 1..Len(told) : told'[j] <= S + 1
      <4>1. \A j \in 1..Len(told) : told'[j] = told[j]
        BY <1>4
      <4>2. \A j \in 1..Len(told) : told[j] <= S /\ told[j] \in 1..Len(sent)
        BY <2>1
      <4>3. \A p \in 1..Len(sent) : p <= S => p <= S + 1
        BY <1>5, <2>1
      <4> QED
        BY <4>1, <4>2, <4>3
    <3>3. told'[Len(told) + 1] <= S + 1
      BY <1>4, <2>1, <2>2
    <3> QED
      BY <3>1, <3>2, <3>3
  <2> QED
    BY <1>1, <2>1, <2>2, <2>3, <2>4, <2>5, <2>6 DEF Consecutive
<1>11. Rounds'
  BY <1>1, <1>8 DEF Rounds, Rest
<1>12. Settled < Len(sent)
  BY <1>2, <1>5 DEF Settled
<1> QED
  BY <1>2, <1>6, <1>7, <1>9, <1>10, <1>11, <1>12 DEF FlightInv

LEMMA RecoverKeeps ==
  ASSUME FlightInv, Recover
  PROVE  FlightInv' /\ Settled' = Settled + Len(drained)
<1>1. /\ at' = "head" /\ drained' = <<>> /\ Len(drained') = 0
      /\ UNCHANGED <<now, tasks, sent, batch, queue, told, call, spoken, exits>>
  BY DEF Recover, table
<1>2. /\ Len(batch) \in Nat /\ Len(queue) \in Nat /\ Len(drained) \in Nat
      /\ Len(told) \in Nat /\ Len(sent) \in Nat /\ Settled \in Int
  BY EntryTypes, LineTypes DEF FlightInv
<1>3. Settled' = Settled + Len(drained)
  BY <1>1, <1>2 DEF Settled
<1>4. SchedTypeOK'
  BY <1>1 DEF FlightInv, SchedTypeOK
<1>5. Consecutive'
  <2> DEFINE S == Settled
  <2>1. /\ S \in Int /\ S >= 0
        /\ \A j \in 1..Len(queue) : queue[j] = S + Len(drained) + j
        /\ \A j \in 1..Len(batch) : batch[j] = S + Len(drained) + Len(queue) + j
        /\ \A j \in 1..Len(told) : told[j] <= S
        /\ \A j \in 1..Len(told) : told[j] \in 1..Len(sent)
    BY <1>2, LineTypes DEF FlightInv, Consecutive
  <2>2. Settled' = S + Len(drained)
    BY <1>3
  <2> HIDE DEF S
  <2>3. \A j \in 1..Len(told) : told[j] <= S + Len(drained)
    BY <1>2, <2>1
  <2> QED
    BY <1>1, <1>2, <2>1, <2>2, <2>3 DEF Consecutive
<1>6. Rounds'
  BY <1>1 DEF Rounds
<1> QED
  BY <1>3, <1>4, <1>5, <1>6 DEF FlightInv

LEMMA EndsKeeps ==
  ASSUME FlightInv, Ends, exits' \in 0..MaxExits
  PROVE  FlightInv' /\ Settled' = Len(sent)
<1>1. /\ at' = "down" /\ call' = 0
      /\ batch' = <<>> /\ queue' = <<>> /\ drained' = <<>>
      /\ Len(batch') = 0 /\ Len(queue') = 0 /\ Len(drained') = 0
      /\ UNCHANGED <<now, tasks, sent, told, spoken>>
  BY DEF Ends, table
<1>2. Len(sent) \in Nat /\ Len(told) \in Nat /\ Len(tasks) \in Nat
  BY EntryTypes DEF FlightInv
<1>3. Settled' = Len(sent)
  BY <1>1, <1>2 DEF Settled
<1>4. SchedTypeOK'
  BY <1>1, <1>2 DEF FlightInv, SchedTypeOK
<1>5. Consecutive'
  BY <1>1, <1>2, <1>3, LineTypes DEF FlightInv, Consecutive
<1>6. Rounds'
  BY <1>1 DEF Rounds
<1> QED
  BY <1>3, <1>4, <1>5, <1>6 DEF FlightInv

(* Steps that move the main thread or the clock and nothing else.          *)
LEMMA ThreadKeeps ==
  ASSUME FlightInv, UNCHANGED <<table, lines, told, call>>,
         now' \in Nat, spoken' \in BOOLEAN, exits' = exits,
         \/ at' = at
         \/ /\ at \in {"down", "asleep", "awake"}
            /\ at' \in {"greet", "head", "awake"}
  PROVE  FlightInv' /\ Settled' = Settled
BY DEF FlightInv, SchedTypeOK, Rounds, Consecutive, Settled, table, lines

-----------------------------------------------------------------------------
(* The refinement.                                                         *)

(* What is in flight are the claims after the settled ones, in order.      *)
LEMMA FlightIs ==
  ASSUME FlightInv
  PROVE  /\ Settled \in Nat /\ Len(sent) \in Nat /\ Settled <= Len(sent)
         /\ DOMAIN InFlight = 1..(Len(sent) - Settled)
         /\ \A k \in 1..(Len(sent) - Settled) : InFlight[k] = Settled + k
<1> DEFINE P == 1..Len(sent)
           S == Settled
<1>1. /\ drained \in Seq(P) /\ queue \in Seq(P) /\ batch \in Seq(P)
      /\ Len(drained) \in Nat /\ Len(queue) \in Nat /\ Len(batch) \in Nat
      /\ Len(sent) \in Nat
  BY LineTypes, EntryTypes DEF FlightInv
<1>2. /\ S \in Nat /\ Len(drained) + Len(queue) + Len(batch) = Len(sent) - S
      /\ \A j \in 1..Len(drained) : drained[j] = S + j
      /\ \A j \in 1..Len(queue) : queue[j] = S + Len(drained) + j
      /\ \A j \in 1..Len(batch) : batch[j] = S + Len(drained) + Len(queue) + j
  BY <1>1 DEF FlightInv, Consecutive, Settled
<1> HIDE DEF P, S
<1> DEFINE front == drained \o queue
<1>3. /\ front \in Seq(P) /\ Len(front) = Len(drained) + Len(queue)
      /\ \A k \in 1..(Len(drained) + Len(queue)) :
           front[k] = IF k <= Len(drained) THEN drained[k] ELSE queue[k - Len(drained)]
  BY <1>1, ConcatProperties
<1>4. \A k \in 1..Len(front) : front[k] = S + k
  BY <1>1, <1>2, <1>3
<1> HIDE DEF front
<1>5. /\ front \o batch \in Seq(P) /\ Len(front \o batch) = Len(front) + Len(batch)
      /\ \A k \in 1..(Len(front) + Len(batch)) :
           (front \o batch)[k] = IF k <= Len(front) THEN front[k] ELSE batch[k - Len(front)]
  BY <1>1, <1>3, ConcatProperties
<1>6. \A k \in 1..Len(front \o batch) : (front \o batch)[k] = S + k
  BY <1>1, <1>2, <1>3, <1>4, <1>5
<1>7. InFlight = front \o batch
  BY DEF InFlight, front
<1>8. Len(front \o batch) = Len(sent) - S /\ DOMAIN (front \o batch) = 1..Len(front \o batch)
  BY <1>1, <1>2, <1>3, <1>5, LenProperties
<1> QED
  BY <1>1, <1>2, <1>6, <1>7, <1>8 DEF S

Announced(n) == Holds(told, n)

(* The fate of a claim follows from what was announced and from Settled.   *)
FateValues ==
  /\ Settled \in Nat /\ Len(sent) \in Nat /\ Settled <= Len(sent)
  /\ DOMAIN Fate = 1..Len(sent) /\ Len(Fate) = Len(sent)
  /\ Fate \in Seq({"announced", "waiting", "dropped"})
  /\ \A n \in 1..Len(sent) :
       /\ Announced(n) => n <= Settled
       /\ Fate[n] = IF n > Settled THEN "waiting"
                    ELSE IF Announced(n) THEN "announced" ELSE "dropped"

LEMMA FateIs == FlightInv => FateValues
<1> SUFFICES ASSUME FlightInv PROVE FateValues
  OBVIOUS
<1>1. /\ Settled \in Nat /\ Len(sent) \in Nat /\ Settled <= Len(sent)
      /\ DOMAIN sent = 1..Len(sent)
      /\ DOMAIN told = 1..Len(told) /\ Len(told) \in Nat
  BY FlightIs, EntryTypes, LineTypes, LenProperties DEF FlightInv
<1>2. \A n \in 1..Len(sent) : Holds(InFlight, n) <=> n > Settled
  <2> TAKE n \in 1..Len(sent)
  <2>1. ASSUME n > Settled PROVE Holds(InFlight, n)
    <3>1. n - Settled \in DOMAIN InFlight /\ InFlight[n - Settled] = n
      BY <1>1, <2>1, FlightIs
    <3> QED
      BY <3>1 DEF Holds
  <2>2. ASSUME Holds(InFlight, n) PROVE n > Settled
    BY <1>1, <2>2, FlightIs DEF Holds
  <2> QED
    BY <2>1, <2>2
<1>3. \A n \in 1..Len(sent) : Announced(n) => n <= Settled
  BY <1>1 DEF Announced, Holds, FlightInv, Consecutive
<1>4. Fate \in [1..Len(sent) -> {"announced", "waiting", "dropped"}]
  BY <1>1 DEF Fate
<1>5. \A n \in 1..Len(sent) :
        Fate[n] = IF n > Settled THEN "waiting"
                  ELSE IF Announced(n) THEN "announced" ELSE "dropped"
  <2> TAKE n \in 1..Len(sent)
  <2>1. Fate[n] = IF Holds(told, n) THEN "announced"
                  ELSE IF Holds(InFlight, n) THEN "waiting" ELSE "dropped"
    BY <1>1 DEF Fate
  <2> QED
    BY <1>1, <1>2, <1>3, <2>1 DEF Announced
<1> QED
  BY <1>1, <1>3, <1>4, <1>5, TableIsSeq DEF FateValues

LEMMA FateIsNext == FlightInv' => FateValues'
BY FateIs, PTL

(* Moving a claim from one line to the next changes no fate.               *)
LEMMA FateStays ==
  ASSUME FlightInv, FlightInv', UNCHANGED <<sent, told>>, Settled' = Settled
  PROVE  Fate' = Fate
<1>1. FateValues /\ FateValues'
  BY FateIs, FateIsNext
<1>2. \A n : Announced(n)' <=> Announced(n)
  BY DEF Announced, Holds
<1>3. \A n \in 1..Len(sent) : Fate'[n] = Fate[n]
  BY <1>1, <1>2 DEF FateValues
<1> QED
  BY <1>1, <1>3 DEF FateValues, Fate

LEMMA ClaimComesDue ==
  ASSUME FlightInv, FlightInv', Claim, Settled' = Settled
  PROVE  Delivery!ComeDue
<1>1. FateValues /\ FateValues'
  BY FateIs, FateIsNext
<1>2. PICK n, s : ClaimOf(n, s)
  BY ClaimEffect DEF FlightInv
<1>3. n \in Nat /\ n > 0 /\ Len(sent') = Len(sent) + n /\ told' = told
  BY <1>2 DEF ClaimOf, Claim
<1> DEFINE new == [i \in 1..(Len(Fate') - Len(Fate)) |-> "waiting"]
           F == {"announced", "waiting", "dropped"}
<1>4. Len(Fate') - Len(Fate) = n
  BY <1>1, <1>3 DEF FateValues
<1>5. new \in Seq(F) /\ Len(new) = n /\ \A i \in 1..n : new[i] = "waiting"
  BY <1>3, <1>4, TableIsSeq
<1>6. Fate \in Seq(F)
  BY <1>1 DEF FateValues
<1> HIDE DEF new
<1>7. /\ Fate \o new \in Seq(F) /\ Len(Fate \o new) = Len(Fate) + Len(new)
      /\ \A k \in 1..(Len(Fate) + Len(new)) :
           (Fate \o new)[k] = IF k <= Len(Fate) THEN Fate[k] ELSE new[k - Len(Fate)]
  BY <1>5, <1>6, ConcatProperties
<1>8. \A k : Announced(k)' <=> Announced(k)
  BY <1>3 DEF Announced, Holds
<1>9. \A k \in 1..Len(sent') : Fate'[k] = (Fate \o new)[k]
  <2> TAKE k \in 1..Len(sent')
  <2>1. CASE k <= Len(sent)
    <3>1. k \in 1..Len(sent) /\ k \in 1..Len(sent') /\ Len(Fate) = Len(sent)
      BY <1>1, <1>3, <2>1 DEF FateValues
    <3>2. Fate[k] = IF k > Settled THEN "waiting"
                    ELSE IF Announced(k) THEN "announced" ELSE "dropped"
      BY <1>1, <3>1 DEF FateValues
    <3>3. Fate'[k] = IF k > Settled THEN "waiting"
                     ELSE IF Announced(k) THEN "announced" ELSE "dropped"
      BY <1>1, <1>8, <3>1 DEF FateValues
    <3>4. (Fate \o new)[k] = Fate[k]
      BY <1>3, <1>5, <1>7, <3>1
    <3> QED
      BY <3>2, <3>3, <3>4
  <2>2. CASE k > Len(sent)
    <3>1. (Fate \o new)[k] = "waiting"
      BY <1>1, <1>3, <1>5, <1>7, <2>2 DEF FateValues
    <3>2. Fate'[k] = "waiting"
      BY <1>1, <1>3, <2>2 DEF FateValues
    <3> QED
      BY <3>1, <3>2
  <2>3. k <= Len(sent) \/ k > Len(sent)
    BY <1>1, <1>3 DEF FateValues
  <2> QED
    BY <2>1, <2>2, <2>3
<1>10. Fate' \in Seq(F) /\ Len(Fate') = Len(sent') /\ Len(Fate \o new) = Len(sent')
  BY <1>1, <1>3, <1>5, <1>7 DEF FateValues
<1>11. Fate' = Fate \o new
  BY <1>7, <1>9, <1>10, SeqEqual
<1> QED
  BY <1>3, <1>4, <1>11 DEF Delivery!ComeDue, new

LEMMA TellAnnounces ==
  ASSUME FlightInv, FlightInv', Tell, Settled' = Settled + 1,
         Settled < Len(sent), Head(drained) = Settled + 1
  PROVE  Delivery!Announce
<1>1. FateValues /\ FateValues'
  BY FateIs, FateIsNext
<1> DEFINE i == Settled + 1
<1>2. i \in 1..Len(sent) /\ Settled \in Nat /\ Len(sent) \in Nat
  BY <1>1 DEF FateValues
<1>3. sent' = sent /\ told' = Append(told, i)
  BY DEF Tell, table
<1>4. \A k : Announced(k)' <=> Announced(k) \/ k = i
  <2>1. told \in Seq(1..Len(sent)) /\ Len(told) \in Nat /\ DOMAIN told = 1..Len(told)
    BY LineTypes, LenProperties DEF FlightInv
  <2>2. /\ told' \in Seq(1..Len(sent)) /\ Len(told') = Len(told) + 1
        /\ \A j \in 1..Len(told) : told'[j] = told[j]
        /\ told'[Len(told) + 1] = i
    BY <1>2, <1>3, <2>1, AppendProperties
  <2>3. DOMAIN told' = 1..(Len(told) + 1)
    BY <2>2, LenProperties
  <2>4. DOMAIN told' = DOMAIN told \cup {Len(told) + 1}
    BY <2>1, <2>3
  <2> HIDE DEF i
  <2>5. \A k : (\E j \in DOMAIN told' : told'[j] = k)
                 <=> (\E j \in DOMAIN told : told[j] = k) \/ k = i
    BY <2>1, <2>2, <2>4
  <2> QED
    BY <2>5 DEF Announced, Holds
<1>5. \A k \in 1..Len(sent) :
        /\ Fate[k] = IF k > Settled THEN "waiting"
                     ELSE IF Announced(k) THEN "announced" ELSE "dropped"
        /\ Fate'[k] = IF k > i THEN "waiting"
                      ELSE IF Announced(k)' THEN "announced" ELSE "dropped"
  BY <1>1, <1>3 DEF FateValues
<1>6. DOMAIN Fate = 1..Len(sent) /\ DOMAIN Fate' = 1..Len(sent)
  BY <1>1, <1>3 DEF FateValues
<1>7. Delivery!Waiting = {k \in 1..Len(sent) : k > Settled}
  BY <1>5, <1>6 DEF Delivery!Waiting
<1>8. i \in Delivery!Waiting /\ Delivery!Oldest({i})
  BY <1>2, <1>7 DEF Delivery!Oldest
<1>9. Fate' = [Fate EXCEPT ![i] = "announced"]
  <2>1. \A k \in 1..Len(sent) :
          Fate'[k] = IF k = i THEN "announced" ELSE Fate[k]
    BY <1>2, <1>4, <1>5
  <2>2. Fate' = [k \in 1..Len(sent) |-> Fate'[k]]
    BY <1>6 DEF Fate
  <2>3. Fate = [k \in 1..Len(sent) |-> Fate[k]]
    BY <1>6 DEF Fate
  <2> HIDE DEF i
  <2> QED
    BY <1>2, <2>1, <2>2, <2>3
<1> QED
  BY <1>8, <1>9 DEF Delivery!Announce

(* Losing what is in flight, up to some claim.                             *)
LEMMA LossDrops ==
  ASSUME FlightInv, FlightInv', UNCHANGED <<sent, told>>, Settled' >= Settled
  PROVE  Delivery!Drop \/ Fate' = Fate
<1>1. FateValues /\ FateValues'
  BY FateIs, FateIsNext
<1>2. CASE Settled' = Settled
  BY <1>2, FateStays
<1>3. CASE Settled' > Settled
  <2> DEFINE k == Settled'
  <2>1. /\ k \in 1..Len(sent) /\ k > Settled
        /\ Settled \in Nat /\ Len(sent) \in Nat
    BY <1>1, <1>3 DEF FateValues
  <2>2. \A n : Announced(n)' <=> Announced(n)
    BY DEF Announced, Holds
  <2>3. \A n \in 1..Len(sent) :
          /\ Announced(n) => n <= Settled
          /\ Fate[n] = IF n > Settled THEN "waiting"
                       ELSE IF Announced(n) THEN "announced" ELSE "dropped"
          /\ Fate'[n] = IF n > k THEN "waiting"
                        ELSE IF Announced(n) THEN "announced" ELSE "dropped"
    BY <1>1, <2>2 DEF FateValues
  <2>4. DOMAIN Fate = 1..Len(sent) /\ DOMAIN Fate' = 1..Len(sent)
    BY <1>1 DEF FateValues
  <2> HIDE DEF k
  <2>5. k \in Delivery!Waiting
    BY <2>1, <2>3, <2>4 DEF Delivery!Waiting
  <2>6. Fate' = [n \in DOMAIN Fate |->
                   IF Fate[n] = "waiting" /\ n <= k THEN "dropped" ELSE Fate[n]]
    <3>1. \A n \in 1..Len(sent) :
            Fate'[n] = IF Fate[n] = "waiting" /\ n <= k THEN "dropped" ELSE Fate[n]
      BY <2>1, <2>3
    <3>2. Fate' = [n \in 1..Len(sent) |-> Fate'[n]]
      BY <2>4 DEF Fate
    <3> QED
      BY <2>4, <3>1, <3>2
  <2> QED
    BY <2>5, <2>6 DEF Delivery!Drop
<1> QED
  BY <1>1, <1>2, <1>3 DEF FateValues

(* A step that leaves the claims, the lines and the announcements alone.   *)
LEMMA QuietStep ==
  ASSUME FlightInv, FlightInv', UNCHANGED <<sent, lines, told>>
  PROVE  Fate' = Fate
<1>1. Settled' = Settled
  BY DEF Settled, lines
<1> QED
  BY <1>1, FateStays DEF lines

LEMMA ToolsFly ==
  ASSUME FlightInv, Tools
  PROVE  FlightInv' /\ Fate' = Fate
<1>1. ASSUME NEW delay \in Delays, NEW every \in Intervals \cup {0},
             Schedule(delay, every)
      PROVE  FlightInv' /\ Fate' = Fate
  BY <1>1, ScheduleKeeps, QuietStep DEF Schedule
<1>2. ASSUME NEW i \in DOMAIN tasks, FindToCancel(i)
      PROVE  FlightInv' /\ Fate' = Fate
  <2>1. Len(tasks) \in Nat /\ i \in 1..Len(tasks)
    BY EntryTypes DEF FlightInv
  <2>2. FlightInv'
    BY <1>2, <2>1, TableKeeps DEF FindToCancel, table, FlightInv, SchedTypeOK
  <2> QED
    BY <1>2, <2>2, QuietStep DEF FindToCancel, table
<1>3. ASSUME NEW i \in DOMAIN tasks, NEW delay \in Delays, SnoozeTask(i, delay)
      PROVE  FlightInv' /\ Fate' = Fate
  BY <1>3, SnoozeKeeps, QuietStep DEF SnoozeTask
<1>4. CASE CancelTask
  BY <1>4, CancelKeeps, QuietStep DEF CancelTask
<1> QED
  BY <1>1, <1>2, <1>3, <1>4 DEF Tools

LEMMA EndsFly ==
  ASSUME FlightInv, Ends, exits' \in 0..MaxExits
  PROVE  FlightInv' /\ (Delivery!Drop \/ Fate' = Fate)
<1>1. FlightInv' /\ Settled' = Len(sent)
  BY EndsKeeps
<1>2. Settled' >= Settled
  BY <1>1, FateIs DEF FateValues
<1> QED
  BY <1>1, <1>2, LossDrops DEF Ends, table

LEMMA RecoverFly ==
  ASSUME FlightInv, Recover
  PROVE  FlightInv' /\ (Delivery!Drop \/ Fate' = Fate)
<1>1. FlightInv' /\ Settled' = Settled + Len(drained)
  BY RecoverKeeps
<1>2. Settled' >= Settled
  BY <1>1, EntryTypes, LineTypes DEF FlightInv
<1> QED
  BY <1>1, <1>2, LossDrops DEF Recover, table

(* Steps of the main thread and of the clock.                              *)
LEMMA ThreadFly ==
  ASSUME FlightInv, Start \/ Wake \/ ConversationEnds \/ SwitchSpeech \/ Tick
  PROVE  FlightInv' /\ Fate' = Fate
<1>1. UNCHANGED <<table, lines, told, call>> /\ exits' = exits
  BY DEF Start, Wake, ConversationEnds, SwitchSpeech, Tick
<1>2. now' \in Nat /\ spoken' \in BOOLEAN
  <2>1. now \in Nat /\ spoken \in BOOLEAN
    BY DEF FlightInv, SchedTypeOK
  <2>2. now' = now \/ now' = now + 1
    BY DEF Start, Wake, ConversationEnds, SwitchSpeech, Tick
  <2>3. spoken' = spoken \/ spoken' = ~spoken
    BY DEF Start, Wake, ConversationEnds, SwitchSpeech, Tick
  <2>4. spoken' \in BOOLEAN
    BY <2>1, <2>3, Zenon
  <2> QED
    BY <2>1, <2>2, <2>4
<1>3. \/ at' = at
      \/ at \in {"down", "asleep", "awake"} /\ at' \in {"greet", "head", "awake"}
  BY DEF Start, Wake, ConversationEnds, SwitchSpeech, Tick
<1>4. FlightInv'
  BY <1>1, <1>2, <1>3, ThreadKeeps
<1> QED
  BY <1>1, <1>4, QuietStep DEF table

(* Every step of the scheduler is a step of the delivery, or none.         *)
LEMMA FlightStep ==
  FlightInv /\ [Next]_vars => FlightInv' /\ [Delivery!DeliveryNext]_Fate
<1> SUFFICES ASSUME FlightInv, [Next]_vars
             PROVE  FlightInv' /\ (Delivery!DeliveryNext \/ Fate' = Fate)
  OBVIOUS
<1> USE DEF Delivery!DeliveryNext
<1>1. CASE Start \/ Wake \/ ConversationEnds \/ SwitchSpeech \/ Tick
  BY <1>1, ThreadFly
<1>2. CASE Exit
  <2>1. exits' \in 0..MaxExits
    BY <1>2, SchedulerAssumption DEF Exit, FlightInv, SchedTypeOK
  <2> QED
    BY <1>2, <2>1, EndsFly DEF Exit
<1>3. CASE Claim
  <2>1. FlightInv' /\ Settled' = Settled
    BY <1>3, ClaimKeeps
  <2> QED
    BY <1>3, <2>1, ClaimComesDue
<1>4. CASE Put
  <2>1. FlightInv' /\ Settled' = Settled
    BY <1>4, PutKeeps
  <2> QED
    BY <1>4, <2>1, FateStays DEF Put, table
<1>5. CASE Drain
  <2>1. FlightInv' /\ Settled' = Settled
    BY <1>5, DrainKeeps
  <2> QED
    BY <1>5, <2>1, FateStays DEF Drain, table
<1>6. CASE Tell
  BY <1>6, TellKeeps, TellAnnounces
<1>7. CASE Recover
  BY <1>7, RecoverFly
<1>8. CASE Crash
  <2>1. exits' \in 0..MaxExits
    BY <1>8 DEF Crash, FlightInv, SchedTypeOK
  <2> QED
    BY <1>8, <2>1, EndsFly DEF Crash
<1>9. CASE Tools
  BY <1>9, ToolsFly
<1>10. CASE UNCHANGED vars
  <2>1. UNCHANGED <<sent, lines, told, at, tasks, now, call, spoken, exits>>
    BY <1>10 DEF vars, table
  <2>2. FlightInv'
    BY <2>1, ThreadKeeps DEF FlightInv, SchedTypeOK, table
  <2> QED
    BY <2>1, <2>2, QuietStep
<1> QED
  BY <1>1, <1>2, <1>3, <1>4, <1>5, <1>6, <1>7, <1>8, <1>9, <1>10
     DEF Next, Engine, Deliver

(* The types of the scheduler, and the shape of what is in flight.         *)
THEOREM FlightInvariant == Spec => []FlightInv
BY FlightInit, FlightStep, PTL DEF Spec

(* The table, the clock and the queues stay well-formed.                   *)
THEOREM SchedulerTypes == Spec => []SchedTypeOK
BY FlightInvariant, PTL DEF FlightInv

LEMMA NoFateYet == Init => Delivery!DeliveryInit
<1> SUFFICES ASSUME Init PROVE Fate = <<>>
  BY DEF Delivery!DeliveryInit
<1>1. sent = <<>>
  BY DEF Init
<1> QED
  BY <1>1 DEF Fate

(* Whatever the limits, the batch of a poll, the queue and the rounds of   *)
(* announcements deliver every claimed reminder at most once and in order, *)
(* and lose none but with the process or with a round that raised.         *)
THEOREM SchedulerDelivers == Spec => ImplementsDelivery
BY FlightInit, FlightStep, NoFateYet, PTL
   DEF Spec, ImplementsDelivery, Delivery!DeliverySpec

-----------------------------------------------------------------------------
(* The order of the claims, and how many there are of each reminder.       *)

LEMMA ClaimsAreFinite ==
  ASSUME SchedTypeOK, NEW i
  PROVE  IsFiniteSet(ClaimsOf(i)) /\ Cardinality(ClaimsOf(i)) \in Nat
<1>1. ClaimsOf(i) \subseteq 1..Len(sent) /\ Len(sent) \in Nat
  BY EntryTypes DEF ClaimsOf
<1>2. IsFiniteSet(1..Len(sent))
  BY <1>1, FS_Interval
<1> QED
  BY <1>1, <1>2, FS_Subset, FS_CardinalityType

LEMMA ClaimInit == Init => ClaimInv
<1> SUFFICES ASSUME Init PROVE ClaimInv
  OBVIOUS
<1>1. DOMAIN sent = {} /\ DOMAIN tasks = {}
  BY DEF Init
<1> QED
  BY <1>1, FlightInit DEF ClaimInv, Timely, ClaimsInOrder, OncePerOccasion, Counted, Active

(* Steps that claim nothing and leave the table alone.                     *)
LEMMA ClockKeeps ==
  ASSUME ClaimInv, FlightInv', UNCHANGED <<tasks, sent>>, now' >= now
  PROVE  ClaimInv'
<1>1. \A n \in DOMAIN sent : sent[n].at \in Nat /\ now \in Nat /\ now' \in Nat
  BY EntryTypes DEF ClaimInv, FlightInv, SchedTypeOK, Claims
<1>2. Timely'
  BY <1>1 DEF ClaimInv, Timely, Active
<1> QED
  BY <1>2 DEF ClaimInv, ClaimsInOrder, OncePerOccasion, Counted, ClaimsOf

(* A tool that writes one row: it moves its time behind the clock or takes *)
(* it out, and a one-time reminder that is activated is given a snooze.    *)
RowWritten(i) ==
  /\ i \in DOMAIN tasks /\ DOMAIN tasks' = DOMAIN tasks
  /\ \A j \in DOMAIN tasks : j # i => tasks'[j] = tasks[j]
  /\ Recurring(tasks'[i]) <=> Recurring(tasks[i])
  /\ \/ tasks'[i].status # "active" /\ tasks'[i].snoozed = tasks[i].snoozed
     \/ tasks'[i].due > now /\ tasks'[i].snoozed = tasks[i].snoozed + 1

LEMMA RowWrittenKeeps ==
  ASSUME ClaimInv, FlightInv', UNCHANGED <<sent, now>>, NEW i, RowWritten(i)
  PROVE  ClaimInv'
<1>1. /\ DOMAIN sent = 1..Len(sent) /\ DOMAIN tasks = 1..Len(tasks)
      /\ now \in Nat
      /\ \A n \in DOMAIN sent : sent[n].due \in Nat /\ sent[n].at \in Nat
      /\ \A j \in DOMAIN tasks : tasks[j] \in Task
  BY EntryTypes DEF ClaimInv, FlightInv, SchedTypeOK, Claims
<1>2. \A j \in DOMAIN tasks : tasks'[j] \in Task
  <2>1. FlightInv => \A j \in DOMAIN tasks : tasks[j] \in Task
    BY EntryTypes DEF FlightInv
  <2>2. FlightInv' => \A j \in DOMAIN tasks' : tasks'[j] \in Task
    BY ElementOfSeq, LenProperties DEF FlightInv, SchedTypeOK
  <2> QED
    BY <2>2 DEF RowWritten
<1>3. Timely'
  <2>1. \A n \in DOMAIN sent : sent[n].due <= sent[n].at /\ sent[n].at <= now
    BY DEF ClaimInv, Timely
  <2>2. ASSUME NEW n \in DOMAIN sent, NEW j \in Active'
        PROVE  /\ sent[n].due <= tasks'[j].due
               /\ sent[n].id = j => sent[n].at < tasks'[j].due
    <3>1. j \in DOMAIN tasks /\ tasks'[j].status = "active"
      BY DEF Active, RowWritten
    <3>2. CASE j # i
      BY <3>1, <3>2 DEF ClaimInv, Timely, Active, RowWritten
    <3>3. CASE j = i
      <4>1. tasks'[j].due > now /\ tasks'[j].due \in Nat
        BY <1>2, <3>1, <3>3 DEF RowWritten, Task
      <4> QED
        BY <1>1, <2>1, <4>1
    <3> QED
      BY <3>2, <3>3
  <2> QED
    BY <2>1, <2>2 DEF Timely
<1>4. Counted'
  <2> SUFFICES ASSUME NEW j \in DOMAIN tasks, ~Recurring(tasks'[j])
               PROVE  Cardinality(ClaimsOf(j))
                        <= tasks'[j].snoozed
                             + IF tasks'[j].status = "active" THEN 0 ELSE 1
    BY DEF Counted, ClaimsOf, RowWritten
  <2>1. Cardinality(ClaimsOf(j)) \in Nat
    BY ClaimsAreFinite DEF ClaimInv, FlightInv
  <2>2. tasks[j].snoozed \in Nat /\ tasks'[j].snoozed \in Nat
    BY <1>1, <1>2 DEF Task
  <2>3. Cardinality(ClaimsOf(j)) <= tasks[j].snoozed
                                      + IF tasks[j].status = "active" THEN 0 ELSE 1
    BY DEF ClaimInv, Counted, RowWritten
  <2>4. CASE j # i
    BY <2>3, <2>4 DEF RowWritten
  <2>5. CASE j = i
    BY <2>1, <2>2, <2>3, <2>5 DEF RowWritten
  <2> QED
    BY <2>4, <2>5
<1>5. OncePerOccasion'
  <2>1. \A j \in DOMAIN tasks :
          Cardinality(ClaimsOf(j)) \in Nat /\ tasks'[j].snoozed \in Nat
    BY <1>2, ClaimsAreFinite DEF Task, ClaimInv, FlightInv
  <2>2. \A j \in DOMAIN tasks :
          ~Recurring(tasks'[j]) => Cardinality(ClaimsOf(j)) <= 1 + tasks'[j].snoozed
    BY <1>4, <2>1 DEF Counted, ClaimsOf, RowWritten
  <2> QED
    BY <2>2 DEF ClaimInv, OncePerOccasion, ClaimsOf, RowWritten
<1> QED
  BY <1>3, <1>4, <1>5 DEF ClaimInv, ClaimsInOrder

LEMMA CancelClaims ==
  ASSUME ClaimInv, CancelTask, FlightInv'
  PROVE  ClaimInv'
<1>1. call \in 1..Len(tasks) /\ tasks[call] \in Task /\ DOMAIN tasks = 1..Len(tasks)
  BY EntryTypes DEF ClaimInv, FlightInv, SchedTypeOK, CancelTask
<1>2. /\ tasks' = [tasks EXCEPT ![call].status = "cancelled"]
      /\ UNCHANGED <<sent, now>>
  BY DEF CancelTask
<1>3. RowWritten(call)
  BY <1>1, <1>2 DEF RowWritten, Recurring, Task
<1> QED
  BY <1>2, <1>3, RowWrittenKeeps

LEMMA SnoozeClaims ==
  ASSUME ClaimInv, NEW i \in DOMAIN tasks, NEW delay \in Delays,
         SnoozeTask(i, delay), FlightInv'
  PROVE  ClaimInv'
<1>1. i \in 1..Len(tasks) /\ tasks[i] \in Task /\ DOMAIN tasks = 1..Len(tasks)
  BY EntryTypes DEF ClaimInv, FlightInv
<1>2. /\ tasks' = [tasks EXCEPT ![i] = Snoozed(tasks[i], delay)]
      /\ UNCHANGED <<sent, now>>
  BY DEF SnoozeTask
<1>3. /\ Snoozed(tasks[i], delay).due = now + delay
      /\ Snoozed(tasks[i], delay).snoozed = tasks[i].snoozed + 1
      /\ Snoozed(tasks[i], delay).every = tasks[i].every
  BY <1>1 DEF Snoozed, Task
<1>4. now + delay > now
  BY SchedulerAssumption DEF ClaimInv, FlightInv, SchedTypeOK
<1>5. RowWritten(i)
  BY <1>1, <1>2, <1>3, <1>4 DEF RowWritten, Recurring
<1> QED
  BY <1>2, <1>5, RowWrittenKeeps

LEMMA ScheduleClaims ==
  ASSUME ClaimInv, NEW delay \in Delays, NEW every \in Intervals \cup {0},
         Schedule(delay, every), FlightInv'
  PROVE  ClaimInv'
<1> DEFINE t == [due |-> now + delay, every |-> every, status |-> "active", snoozed |-> 0]
           N == Len(tasks)
<1>1. /\ DOMAIN sent = 1..Len(sent) /\ N \in Nat /\ DOMAIN tasks = 1..N
      /\ now \in Nat /\ tasks \in Seq(Task)
      /\ \A n \in DOMAIN sent : /\ sent[n].due \in Nat /\ sent[n].at \in Nat
                                /\ sent[n].id \in 1..N
  BY EntryTypes DEF ClaimInv, FlightInv, SchedTypeOK, Claims
<1>2. t \in Task /\ t.due > now
  BY <1>1, SchedulerAssumption DEF Task
<1>3. tasks' = Append(tasks, t) /\ UNCHANGED <<sent, now>>
  BY DEF Schedule
<1> HIDE DEF t, N
<1>4. /\ DOMAIN tasks' = 1..(N + 1)
      /\ \A j \in 1..N : tasks'[j] = tasks[j]
      /\ tasks'[N + 1] = t
  BY <1>1, <1>2, <1>3, AppendProperties, LenProperties DEF N
<1>5. \A j \in DOMAIN tasks' : j \in DOMAIN tasks \/ j = N + 1
  BY <1>1, <1>4
<1>6. Timely'
  <2>1. ASSUME NEW n \in DOMAIN sent, NEW j \in Active'
        PROVE  /\ sent[n].due <= tasks'[j].due
               /\ sent[n].id = j => sent[n].at < tasks'[j].due
    <3>1. CASE j \in DOMAIN tasks
      <4>1. j \in Active /\ tasks'[j] = tasks[j]
        BY <1>1, <1>4, <3>1 DEF Active
      <4> QED
        BY <4>1 DEF ClaimInv, Timely
    <3>2. CASE j = N + 1
      <4>1. sent[n].due <= sent[n].at /\ sent[n].at <= now
        BY DEF ClaimInv, Timely
      <4>2. tasks'[j].due > now /\ tasks'[j].due \in Nat
        BY <1>2, <1>4, <3>2 DEF Task
      <4> QED
        BY <1>1, <4>1, <4>2
    <3> QED
      BY <1>5, <3>1, <3>2 DEF Active
  <2> QED
    BY <1>3, <2>1 DEF ClaimInv, Timely
<1>7. ClaimsOf(N + 1) = {} /\ Cardinality(ClaimsOf(N + 1)) = 0
  <2>1. \A n \in DOMAIN sent : sent[n].id # N + 1
    BY <1>1
  <2>2. ClaimsOf(N + 1) = {}
    BY <2>1 DEF ClaimsOf
  <2> QED
    BY <2>2, FS_EmptySet
<1>8. tasks'[N + 1].snoozed = 0
  BY <1>4 DEF t
<1>9. Counted'
  <2> SUFFICES ASSUME NEW j \in DOMAIN tasks', ~Recurring(tasks'[j])
               PROVE  Cardinality(ClaimsOf(j))
                        <= tasks'[j].snoozed
                             + IF tasks'[j].status = "active" THEN 0 ELSE 1
    BY <1>3 DEF Counted, ClaimsOf
  <2>1. CASE j \in DOMAIN tasks
    BY <1>1, <1>4, <2>1 DEF ClaimInv, Counted
  <2>2. CASE j = N + 1
    BY <1>7, <1>8, <2>2
  <2> QED
    BY <1>5, <2>1, <2>2
<1>10. OncePerOccasion'
  <2>1. \A j \in DOMAIN tasks' :
          ~Recurring(tasks'[j]) => Cardinality(ClaimsOf(j)) <= 1 + tasks'[j].snoozed
    <3> TAKE j \in DOMAIN tasks'
    <3>1. CASE j \in DOMAIN tasks
      BY <1>1, <1>4, <3>1 DEF ClaimInv, OncePerOccasion, ClaimsOf
    <3>2. CASE j = N + 1
      BY <1>7, <1>8, <3>2
    <3> QED
      BY <1>5, <3>1, <3>2
  <2> QED
    BY <1>3, <2>1 DEF ClaimInv, OncePerOccasion, ClaimsOf
<1> QED
  BY <1>3, <1>6, <1>9, <1>10 DEF ClaimInv, ClaimsInOrder

(* What a claim writes, seen from the entry that is read afterwards.       *)
LEMMA ClaimSeen ==
  ASSUME SchedTypeOK, NEW n, NEW s, ClaimOf(n, s)
  PROVE  /\ n \in Nat /\ Len(sent) \in Nat /\ now \in Nat
         /\ DOMAIN sent = 1..Len(sent) /\ DOMAIN sent' = 1..(Len(sent) + n)
         /\ DOMAIN tasks = 1..Len(tasks) /\ DOMAIN tasks' = DOMAIN tasks
         /\ \A k \in DOMAIN sent' :
              \/ k \in DOMAIN sent /\ sent'[k] = sent[k]
              \/ \E a \in 1..n :
                   /\ k = Len(sent) + a
                   /\ sent'[k] = [id |-> s[a], due |-> tasks[s[a]].due, at |-> now]
         /\ \A a \in 1..n : s[a] \in Due
         /\ \A a, b \in 1..n : s[a] = s[b] => a = b
<1>1. /\ n \in Nat /\ Len(sent) \in Nat /\ now \in Nat
      /\ DOMAIN sent = 1..Len(sent) /\ DOMAIN tasks = 1..Len(tasks)
  BY EntryTypes DEF ClaimOf, SchedTypeOK
<1>2. DOMAIN sent' = 1..(Len(sent) + n) /\ DOMAIN tasks' = DOMAIN tasks
  BY <1>1, LenProperties DEF ClaimOf
<1>3. \A k \in DOMAIN sent' :
        \/ k \in DOMAIN sent /\ sent'[k] = sent[k]
        \/ \E a \in 1..n :
             /\ k = Len(sent) + a
             /\ sent'[k] = [id |-> s[a], due |-> tasks[s[a]].due, at |-> now]
  <2> TAKE k \in DOMAIN sent'
  <2>1. CASE k \in 1..Len(sent)
    BY <1>1, <2>1 DEF ClaimOf
  <2>2. CASE k - Len(sent) \in 1..n
    <3> DEFINE a == k - Len(sent)
    <3>1. a \in 1..n /\ k = Len(sent) + a
      BY <1>1, <1>2, <2>2
    <3> HIDE DEF a
    <3> QED
      BY <3>1 DEF ClaimOf
  <2> QED
    BY <1>1, <1>2, <2>1, <2>2
<1>4. \A a \in 1..n : s[a] \in Due
  BY DEF ClaimOf
<1>5. \A a, b \in 1..n : s[a] = s[b] => a = b
  <2> SUFFICES ASSUME NEW a \in 1..n, NEW b \in 1..n, a < b, s[a] = s[b]
               PROVE  FALSE
    BY <1>1
  <2>1. Before(s[a], s[a])
    BY DEF ClaimOf
  <2>2. s[a] \in Nat /\ tasks[s[a]].due \in Nat
    BY <1>1, <1>4, DueTypes
  <2> QED
    BY <2>1, <2>2 DEF Before
<1> QED
  BY <1>1, <1>2, <1>3, <1>4, <1>5

(* After a claim, what is active is later than the clock, or was not       *)
(* claimed and comes after all that were.                                  *)
LEMMA ClaimRests ==
  ASSUME SchedTypeOK, NEW n, NEW s, ClaimOf(n, s), NEW i \in Active'
  PROVE  /\ i \in Active /\ tasks'[i].due \in Nat
         /\ \/ tasks'[i].due > now
            \/ /\ tasks'[i] = tasks[i]
               /\ \A a \in 1..n : s[a] # i /\ tasks[s[a]].due <= tasks[i].due
<1>1. /\ i \in 1..Len(tasks) /\ DOMAIN tasks = 1..Len(tasks) /\ tasks[i] \in Task
      /\ tasks'[i].status = "active" /\ now \in Nat
  BY ClaimSeen, EntryTypes DEF Active
<1>2. CASE \E a \in 1..n : s[a] = i
  <2>1. i \in Due /\ tasks'[i] = Claimed(tasks[i])
    BY <1>1, <1>2 DEF ClaimOf
  <2>2. Claimed(tasks[i]) \in Task /\ Recurring(tasks[i])
    BY <1>1, <2>1, DueTypes, ClaimedType
  <2>3. tasks'[i].due > now
    BY <1>1, <2>1, <2>2, DueTypes, ClaimedType
  <2> QED
    BY <2>1, <2>2, <2>3 DEF Due, Task
<1>3. CASE ~ \E a \in 1..n : s[a] = i
  <2>1. tasks'[i] = tasks[i] /\ i \in Active /\ tasks[i].due \in Nat
    BY <1>1, <1>3 DEF ClaimOf, Active, Task
  <2>2. CASE tasks[i].due > now
    BY <2>1, <2>2
  <2>3. CASE tasks[i].due <= now
    <3>1. i \in Due
      BY <2>1, <2>3 DEF Due
    <3>2. \A a \in 1..n : Before(s[a], i)
      BY <1>3, <3>1 DEF ClaimOf
    <3>3. \A a \in 1..n : tasks[s[a]].due <= tasks[i].due
      <4> TAKE a \in 1..n
      <4>1. tasks[s[a]].due \in Nat
        BY ClaimSeen, DueTypes
      <4> QED
        BY <2>1, <3>2, <4>1 DEF Before
    <3> QED
      BY <1>3, <2>1, <3>3
  <2> QED
    BY <1>1, <2>1, <2>2, <2>3
<1> QED
  BY <1>2, <1>3

SentIs == Len(sent) \in Nat /\ DOMAIN sent = 1..Len(sent)

LEMMA SentIsSeq == SchedTypeOK => SentIs
BY EntryTypes DEF SentIs

LEMMA SentIsSeqNext == SchedTypeOK' => SentIs'
BY SentIsSeq, PTL

LEMMA ClaimFinite ==
  ASSUME SchedTypeOK', NEW i
  PROVE  IsFiniteSet(ClaimsOf(i)') /\ Cardinality(ClaimsOf(i)') \in Nat
<1>1. SentIs'
  BY SentIsSeqNext
<1>2. ClaimsOf(i)' \subseteq 1..Len(sent') /\ IsFiniteSet(1..Len(sent'))
  BY <1>1, FS_Interval DEF ClaimsOf, SentIs
<1> QED
  BY <1>2, FS_Subset, FS_CardinalityType

(* The claims of one reminder grow by one, if it is claimed.               *)
LEMMA ClaimCounts ==
  ASSUME SchedTypeOK, SchedTypeOK', NEW n, NEW s, ClaimOf(n, s), NEW i
  PROVE  IF \E a \in 1..n : s[a] = i
         THEN Cardinality(ClaimsOf(i)') <= Cardinality(ClaimsOf(i)) + 1
         ELSE ClaimsOf(i)' = ClaimsOf(i)
<1>1. CASE \E a \in 1..n : s[a] = i
  <2>1. PICK a \in 1..n : s[a] = i
    BY <1>1
  <2>2. ClaimsOf(i)' \subseteq ClaimsOf(i) \cup {Len(sent) + a}
    BY <2>1, ClaimSeen DEF ClaimsOf
  <2> DEFINE C == ClaimsOf(i)
             x == Len(sent) + a
  <2>3. IsFiniteSet(C) /\ Cardinality(C) \in Nat
    BY ClaimsAreFinite
  <2>4. ClaimsOf(i)' \subseteq C \cup {x}
    BY <2>2
  <2> HIDE DEF C, x
  <2>5. /\ IsFiniteSet(C \cup {x})
        /\ Cardinality(C \cup {x}) <= Cardinality(C) + 1
    BY <2>3, FS_AddElement
  <2>6. /\ Cardinality(ClaimsOf(i)') <= Cardinality(C \cup {x})
        /\ Cardinality(ClaimsOf(i)') \in Nat
        /\ Cardinality(C \cup {x}) \in Nat
    BY <2>5, <2>4, FS_Subset, FS_CardinalityType
  <2> USE DEF C
  <2> QED
    BY <1>1, <2>3, <2>5, <2>6
<1>2. CASE ~ \E a \in 1..n : s[a] = i
  <2>1. \A k \in DOMAIN sent' : k \notin DOMAIN sent => sent'[k].id # i
    BY <1>2, ClaimSeen
  <2>2. \A k \in DOMAIN sent : k \in DOMAIN sent' /\ sent'[k] = sent[k]
    <3>1. /\ DOMAIN sent = 1..Len(sent) /\ DOMAIN sent' = 1..(Len(sent) + n)
          /\ n \in Nat /\ Len(sent) \in Nat
      BY ClaimSeen
    <3>2. \A k \in 1..Len(sent) : sent'[k] = sent[k]
      BY DEF ClaimOf
    <3> QED
      BY <3>1, <3>2
  <2> QED
    BY <1>2, <2>1, <2>2 DEF ClaimsOf
<1> QED
  BY <1>1, <1>2

LEMMA ClaimClaims ==
  ASSUME ClaimInv, Claim, FlightInv'
  PROVE  ClaimInv'
<1>1. PICK n, s : ClaimOf(n, s)
  BY ClaimEffect DEF ClaimInv, FlightInv
<1>2. SchedTypeOK /\ SchedTypeOK' /\ now' = now
  BY DEF ClaimInv, FlightInv, Claim
<1>3. /\ n \in Nat /\ Len(sent) \in Nat /\ now \in Nat
      /\ DOMAIN sent = 1..Len(sent) /\ DOMAIN sent' = 1..(Len(sent) + n)
      /\ DOMAIN tasks' = DOMAIN tasks
      /\ \A k \in DOMAIN sent : sent[k].due \in Nat /\ sent[k].at \in Nat
      /\ \A a \in 1..n :
           /\ s[a] \in Active /\ tasks[s[a]].due \in Nat /\ tasks[s[a]].due <= now
  BY <1>1, <1>2, ClaimSeen, DueTypes, EntryTypes DEF Due, Claims
<1>4. \A k \in DOMAIN sent' :
        \/ k \in DOMAIN sent /\ sent'[k] = sent[k]
        \/ \E a \in 1..n :
             /\ k = Len(sent) + a
             /\ sent'[k] = [id |-> s[a], due |-> tasks[s[a]].due, at |-> now]
  BY <1>1, <1>2, ClaimSeen
<1>5. Timely'
  <2>1. ASSUME NEW k \in DOMAIN sent'
        PROVE  sent'[k].due <= sent'[k].at /\ sent'[k].at <= now
    BY <1>3, <1>4, <2>1 DEF ClaimInv, Timely
  <2>2. ASSUME NEW k \in DOMAIN sent', NEW i \in Active'
        PROVE  /\ sent'[k].due <= tasks'[i].due
               /\ sent'[k].id = i => sent'[k].at < tasks'[i].due
    <3>1. /\ i \in Active /\ tasks'[i].due \in Nat
          /\ \/ tasks'[i].due > now
             \/ /\ tasks'[i] = tasks[i]
                /\ \A a \in 1..n : s[a] # i /\ tasks[s[a]].due <= tasks[i].due
      BY <1>1, <1>2, ClaimRests
    <3>2. sent'[k].due \in Nat /\ sent'[k].at \in Nat
      BY <1>3, <1>4
    <3>3. CASE tasks'[i].due > now
      BY <1>3, <2>1, <3>1, <3>2, <3>3
    <3>4. CASE /\ tasks'[i] = tasks[i]
               /\ \A a \in 1..n : s[a] # i /\ tasks[s[a]].due <= tasks[i].due
      BY <1>4, <3>1, <3>4 DEF ClaimInv, Timely
    <3> QED
      BY <3>1, <3>3, <3>4
  <2> QED
    BY <1>2, <2>1, <2>2 DEF Timely
<1>6. ASSUME NEW k \in DOMAIN sent', NEW l \in DOMAIN sent', k < l
      PROVE  /\ sent'[k].due <= sent'[l].due
             /\ sent'[k].id = sent'[l].id => sent'[k].at < sent'[l].due
  <2>1. CASE l \in DOMAIN sent /\ sent'[l] = sent[l]
    <3>1. k \in DOMAIN sent /\ sent'[k] = sent[k]
      BY <1>3, <1>4, <1>6, <2>1
    <3> QED
      BY <1>6, <2>1, <3>1 DEF ClaimInv, ClaimsInOrder, OncePerOccasion
  <2>2. ASSUME NEW b \in 1..n, l = Len(sent) + b,
               sent'[l] = [id |-> s[b], due |-> tasks[s[b]].due, at |-> now]
        PROVE  /\ sent'[k].due <= sent'[l].due
               /\ sent'[k].id = sent'[l].id => sent'[k].at < sent'[l].due
    <3>1. CASE k \in DOMAIN sent /\ sent'[k] = sent[k]
      BY <1>3, <2>2, <3>1 DEF ClaimInv, Timely
    <3>2. ASSUME NEW a \in 1..n, k = Len(sent) + a,
                 sent'[k] = [id |-> s[a], due |-> tasks[s[a]].due, at |-> now]
          PROVE  /\ sent'[k].due <= sent'[l].due
                 /\ sent'[k].id # sent'[l].id
      <4>1. a < b
        BY <1>3, <1>6, <2>2, <3>2
      <4>2. Before(s[a], s[b]) /\ s[a] # s[b]
        <5>1. Before(s[a], s[b])
          BY <1>1, <4>1 DEF ClaimOf
        <5>2. s[a] = s[b] => a = b
          BY <1>1, <1>2, ClaimSeen
        <5> QED
          BY <1>3, <4>1, <5>1, <5>2
      <4> QED
        BY <1>3, <2>2, <3>2, <4>2 DEF Before
    <3> QED
      BY <1>4, <3>1, <3>2
  <2> QED
    BY <1>4, <2>1, <2>2
<1>7. Counted'
  <2> SUFFICES ASSUME NEW i \in DOMAIN tasks, ~Recurring(tasks'[i])
               PROVE  Cardinality(ClaimsOf(i)')
                        <= tasks'[i].snoozed
                             + IF tasks'[i].status = "active" THEN 0 ELSE 1
    BY <1>3 DEF Counted
  <2>1. /\ Cardinality(ClaimsOf(i)) \in Nat /\ Cardinality(ClaimsOf(i)') \in Nat
        /\ i \in 1..Len(tasks) /\ tasks[i] \in Task
    BY <1>2, ClaimsAreFinite, EntryTypes, FS_CardinalityType, ClaimFinite
  <2>2. CASE \E a \in 1..n : s[a] = i
    <3>1. tasks'[i] = Claimed(tasks[i]) /\ i \in Due
      <4>1. tasks'[i] = Claimed(tasks[i])
        BY <1>1, <2>1, <2>2 DEF ClaimOf
      <4>2. i \in Due
        BY <1>1, <1>2, <2>2, ClaimSeen
      <4> QED
        BY <4>1, <4>2
    <3>2. /\ ~Recurring(tasks[i]) /\ tasks'[i].status = "completed"
          /\ tasks'[i].snoozed = tasks[i].snoozed /\ tasks[i].status = "active"
      BY <1>2, <3>1, <2>1, ClaimedType, DueTypes DEF SchedTypeOK
    <3>3. Cardinality(ClaimsOf(i)) <= tasks[i].snoozed
      BY <2>1, <3>2 DEF ClaimInv, Counted, Task
    <3> QED
      BY <1>1, <1>2, <2>1, <2>2, <3>2, <3>3, ClaimCounts DEF Task
  <2>3. CASE ~ \E a \in 1..n : s[a] = i
    <3>1. tasks'[i] = tasks[i]
      BY <1>1, <2>1, <2>3 DEF ClaimOf
    <3> QED
      BY <1>1, <1>2, <2>3, <3>1, ClaimCounts DEF ClaimInv, Counted
  <2> QED
    BY <2>2, <2>3
<1>8. OncePerOccasion'
  <2>1. \A i \in DOMAIN tasks' :
          ~Recurring(tasks'[i]) =>
            Cardinality(ClaimsOf(i)') <= 1 + tasks'[i].snoozed
    <3> SUFFICES ASSUME NEW i \in DOMAIN tasks', ~Recurring(tasks'[i])
                 PROVE  Cardinality(ClaimsOf(i)') <= 1 + tasks'[i].snoozed
      OBVIOUS
    <3>1. tasks'[i].snoozed \in Nat
      <4>1. tasks' \in Seq(Task) /\ i \in 1..Len(tasks')
        BY <1>1, LenProperties DEF ClaimOf
      <4>2. tasks'[i] \in Task
        BY <4>1, ElementOfSeq
      <4> QED
        BY <4>2 DEF Task
    <3>2. Cardinality(ClaimsOf(i)') \in Nat
      BY <1>2, ClaimFinite
    <3> QED
      BY <1>7, <3>1, <3>2 DEF Counted
  <2> QED
    BY <1>6, <2>1 DEF OncePerOccasion, ClaimsOf
<1> QED
  BY <1>5, <1>6, <1>7, <1>8 DEF ClaimInv, ClaimsInOrder

(* Every step keeps the order and the number of the claims.                *)
LEMMA ClaimStep == ClaimInv /\ [Next]_vars => ClaimInv'
<1> SUFFICES ASSUME ClaimInv, [Next]_vars
             PROVE  ClaimInv'
  OBVIOUS
<1>1. FlightInv'
  BY FlightStep DEF ClaimInv
<1>2. now \in Nat
  BY DEF ClaimInv, FlightInv, SchedTypeOK
<1>3. CASE Claim
  BY <1>1, <1>3, ClaimClaims
<1>4. CASE Tools
  <2>1. ASSUME NEW i \in DOMAIN tasks, FindToCancel(i) PROVE ClaimInv'
    BY <1>1, <1>2, <2>1, ClockKeeps DEF FindToCancel, table
  <2> QED
    BY <1>1, <1>4, <2>1, ScheduleClaims, SnoozeClaims, CancelClaims DEF Tools
<1>5. CASE \/ Start \/ Exit \/ Put \/ Deliver \/ Wake \/ ConversationEnds
           \/ SwitchSpeech \/ Tick \/ UNCHANGED vars
  <2>1. UNCHANGED <<tasks, sent>>
    BY <1>5 DEF Start, Exit, Ends, Put, Deliver, Drain, Tell, Recover, Crash, Wake,
                ConversationEnds, SwitchSpeech, Tick, vars, table
  <2>2. now' = now \/ now' = now + 1
    BY <1>5 DEF Start, Exit, Ends, Put, Deliver, Drain, Tell, Recover, Crash, Wake,
                ConversationEnds, SwitchSpeech, Tick, vars
  <2> QED
    BY <1>1, <1>2, <2>1, <2>2, ClockKeeps
<1> QED
  BY <1>3, <1>4, <1>5 DEF Next, Engine

(* The inductive invariant of the claims.                                  *)
THEOREM ClaimInvariant == Spec => []ClaimInv
BY ClaimInit, ClaimStep, PTL DEF Spec

(* Reminders are claimed in the order of their times, whatever limits the  *)
(* claims have and whatever is snoozed, repeated or left over.             *)
THEOREM OrderOfClaims == Spec => []ClaimsInOrder
BY ClaimInvariant, PTL DEF ClaimInv

(* A reminder is claimed again only for a later occasion, and a one-time   *)
(* reminder only as often again as it was snoozed, for any downtime.       *)
THEOREM NoClaimTwice == Spec => []OncePerOccasion
BY ClaimInvariant, PTL DEF ClaimInv

=============================================================================
