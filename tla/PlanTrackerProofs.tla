-------------------------- MODULE PlanTrackerProofs --------------------------
(***************************************************************************)
(* The invariants of the plan tracker for every set of tools and failures  *)
(* and for all limits.  The inductive invariant counts the work of a       *)
(* request exactly: an attempt either completes a step, or is paid for by  *)
(* the repair that follows it, or ends the plan.                           *)
(***************************************************************************)
EXTENDS PlanTracker, SequenceTheorems, TLAPS

(* Where the plan is, and how much work it took to get there.              *)
WorkCounted ==
  /\ status \in {"idle", "required"} =>
       steps = <<>> /\ cur = 0 /\ revs = 0 /\ work = 0
  /\ status = "active" => work = cur - 1 + revs
  /\ status = "repairing" => work = cur + revs
  /\ status = "failed" => work <= cur + revs
  /\ status = "completed" => work = Len(steps) + revs
  /\ status = "abandoned" => work <= limits.steps + limits.revisions

WithinLimits == Len(steps) <= limits.steps /\ revs <= limits.revisions

(* The current step is what the plan says of it.                           *)
CurrentStep ==
  /\ status = "active" =>
       steps[cur].status = "active" /\ steps[cur].attempts < AttemptBudget
  /\ status = "repairing" => steps[cur].status = "needs_repair"

PlanInv ==
  /\ PlanTypeOK
  /\ WithinLimits
  /\ WithinBudget
  /\ StepsInOrder
  /\ CurrentStep
  /\ RepairIsPossible
  /\ CompletedPassesAudit
  /\ WorkCounted

-----------------------------------------------------------------------------

(* The types of the limits.                                                *)
LEMMA LimitTypes ==
  ASSUME NEW lim \in Limits
  PROVE  /\ lim.steps \in Nat /\ lim.steps >= 1
         /\ lim.repairs \in Nat /\ lim.revisions \in Nat
         /\ lim.same \in Nat
BY TrackerAssumption

(* A table of n steps is a sequence of length n.                           *)
LEMMA TableIsSeq ==
  ASSUME NEW n \in Nat, NEW f \in [1..n -> Step]
  PROVE  f \in Seq(Step) /\ Len(f) = n /\ DOMAIN f = 1..n
<1>1. f \in Seq(Step)
  BY SeqDef
<1>2. DOMAIN f = 1..n /\ DOMAIN f = 1..Len(f) /\ Len(f) \in Nat
  BY <1>1, LenProperties
<1> QED
  BY <1>1, <1>2

(* What PlanTypeOK says of the single steps.                               *)
LEMMA StepTypes ==
  ASSUME PlanTypeOK
  PROVE  /\ Len(steps) \in Nat
         /\ DOMAIN steps = 1..Len(steps)
         /\ steps \in [1..Len(steps) -> Step]
         /\ \A i \in 1..Len(steps) : steps[i] \in Step
BY LenProperties, ElementOfSeq DEF PlanTypeOK

(* A new step is a step that has not been tried.                           *)
LEMMA NewStepType ==
  ASSUME NEW st \in StepStatus, NEW rev \in Nat
  PROVE  /\ NewStep(st, rev) \in Step
         /\ NewStep(st, rev).status = st
         /\ NewStep(st, rev).attempts = 0
<1>1. [s \in Signatures |-> 0] \in [Signatures -> Nat]
  OBVIOUS
<1> QED
  BY <1>1 DEF NewStep, Step

(* Changing the status of a step changes nothing else.                     *)
LEMMA StatusChange ==
  ASSUME NEW s \in Step, NEW st \in StepStatus
  PROVE  /\ [s EXCEPT !.status = st] \in Step
         /\ [s EXCEPT !.status = st].status = st
         /\ [s EXCEPT !.status = st].attempts = s.attempts
         /\ [s EXCEPT !.status = st].proved = s.proved
         /\ [s EXCEPT !.status = st].last = s.last
BY DEF Step

(* A step completed by a verified action or by an observation.             *)
Done(old, new) ==
  /\ new \in Step
  /\ new.status = "completed"
  /\ new.attempts = old.attempts + 1
  /\ new.proved

LEMMA DoneStep ==
  ASSUME NEW s \in Step
  PROVE  /\ Done(s, [s EXCEPT !.status = "completed", !.attempts = s.attempts + 1,
                      !.proved = TRUE, !.last = NoTool, !.repeated = FALSE])
         /\ Done(s, [s EXCEPT !.status = "completed", !.attempts = s.attempts + 1,
                      !.proved = TRUE])
<1>0. s.attempts \in Nat /\ s.attempts + 1 \in Nat
  BY DEF Step
<1>1. [s EXCEPT !.status = "completed"] \in Step
  BY DEF Step, StepStatus
<1> DEFINE s2 == [s EXCEPT !.status = "completed", !.attempts = s.attempts + 1]
           s3 == [s EXCEPT !.status = "completed", !.attempts = s.attempts + 1,
                           !.proved = TRUE]
           s4 == [s EXCEPT !.status = "completed", !.attempts = s.attempts + 1,
                           !.proved = TRUE, !.last = NoTool]
           s5 == [s EXCEPT !.status = "completed", !.attempts = s.attempts + 1,
                           !.proved = TRUE, !.last = NoTool, !.repeated = FALSE]
<1>2. s2 \in Step
  BY <1>0, <1>1 DEF Step
<1>3. s3 \in Step
  BY <1>2 DEF Step
<1>4. s4 \in Step
  BY <1>3 DEF Step
<1>5. s5 \in Step
  BY <1>4 DEF Step
<1>6. s3.status = "completed" /\ s3.attempts = s.attempts + 1 /\ s3.proved
  BY DEF Step
<1>7. s5.status = "completed" /\ s5.attempts = s.attempts + 1 /\ s5.proved
  BY DEF Step
<1> QED
  BY <1>3, <1>5, <1>6, <1>7 DEF Done

-----------------------------------------------------------------------------

(* Completing the current step, by either of the two ways, keeps the       *)
(* invariant.                                                              *)
LEMMA AdvanceKeeps ==
  ASSUME PlanInv, status = "active",
         NEW done, Done(steps[cur], done), Advance(done),
         work' = work + 1, UNCHANGED <<required, revs, limits>>
  PROVE  PlanInv'
<1> DEFINE n == Len(steps)
<1>1. /\ n \in Nat /\ cur \in 1..n /\ limits \in Limits
      /\ \A i \in 1..n : steps[i] \in Step
      /\ steps \in [1..n -> Step] /\ DOMAIN steps = 1..n
  BY StepTypes DEF PlanInv, PlanTypeOK, StepsInOrder, Open
<1>0. n \in Nat /\ cur \in Nat /\ 1 <= cur /\ cur <= n
  BY <1>1
<1>2. /\ limits.steps \in Nat /\ limits.revisions \in Nat /\ AttemptBudget \in Nat
      /\ revs \in Nat /\ work = cur - 1 + revs /\ revs <= limits.revisions
      /\ n <= limits.steps
  BY <1>1, LimitTypes
     DEF PlanInv, PlanTypeOK, AttemptBudget, WithinLimits, WorkCounted
<1>3. /\ done \in Step /\ done.status = "completed" /\ done.proved
      /\ done.attempts <= AttemptBudget
  <2>1. steps[cur].attempts < AttemptBudget /\ steps[cur].attempts \in Nat
    BY <1>1 DEF PlanInv, CurrentStep, Step
  <2> QED
    BY <1>2, <2>1 DEF Done
<1>4. \A i \in 1..n :
        /\ i < cur => steps[i].status = "completed" /\ steps[i].proved
        /\ i > cur => steps[i].status = "pending" /\ steps[i].attempts = 0
        /\ steps[i].attempts <= AttemptBudget
  BY DEF PlanInv, StepsInOrder, WithinBudget, Open
<1>5. CASE cur = n
  <2>1. /\ steps' = [steps EXCEPT ![cur] = done] /\ cur' = 0
        /\ status' = "completed"
    BY <1>5 DEF Advance
  <2>2. steps' \in [1..n -> Step]
    BY <1>1, <1>3, <2>1
  <2>3. steps' \in Seq(Step) /\ Len(steps') = n
    BY <1>1, <2>2, TableIsSeq
  <2>4. \A i \in 1..n : /\ steps'[i].status = "completed" /\ steps'[i].proved
                        /\ steps'[i].attempts <= AttemptBudget
    <3> TAKE i \in 1..n
    <3>1. i < cur \/ i = cur
      BY <1>0, <1>5
    <3>2. steps'[i] = IF i = cur THEN done ELSE steps[i]
      BY <1>1, <2>1
    <3> QED
      BY <1>3, <1>4, <3>1, <3>2
  <2>5. PlanTypeOK'
    BY <1>2, <1>1, <2>1, <2>3 DEF PlanInv, PlanTypeOK, PlanStatus
  <2>6. CompletedPassesAudit' /\ WithinBudget'
    BY <1>1, <2>1, <2>3, <2>4
       DEF CompletedPassesAudit, AuditPasses, WithinBudget, AttemptBudget
  <2>7. WorkCounted' /\ WithinLimits'
    BY <1>1, <1>2, <1>5, <2>1, <2>3 DEF WorkCounted, WithinLimits
  <2> QED
    BY <2>1, <2>5, <2>6, <2>7
       DEF PlanInv, StepsInOrder, Open, CurrentStep, RepairIsPossible
<1>6. CASE cur # n
  <2> DEFINE next == [steps[cur + 1] EXCEPT !.status = "active"]
  <2>0. cur + 1 \in 1..n /\ cur < cur + 1
    BY <1>0, <1>6
  <2>1. /\ steps' = [i \in 1..n |-> IF i = cur THEN done
                                    ELSE IF i = cur + 1
                                         THEN [steps[i] EXCEPT !.status = "active"]
                                         ELSE steps[i]]
        /\ cur' = cur + 1 /\ status' = "active"
    BY <1>6 DEF Advance
  <2>2. /\ next \in Step /\ next.status = "active"
        /\ next.attempts = 0
    <3>1. steps[cur + 1] \in Step /\ steps[cur + 1].attempts = 0
      BY <1>1, <1>4, <2>0
    <3>2. "active" \in StepStatus
      BY DEF StepStatus
    <3> QED
      BY <3>1, <3>2, StatusChange
  <2> HIDE DEF next
  <2>3. \A i \in 1..n : steps'[i] = IF i = cur THEN done
                                    ELSE IF i = cur + 1 THEN next ELSE steps[i]
    BY <2>1 DEF next
  <2>4. DOMAIN steps' = 1..n /\ steps' \in [1..n -> Step]
    BY <1>1, <1>3, <2>1, <2>2 DEF next
  <2>5. steps' \in Seq(Step) /\ Len(steps') = n
    BY <1>1, <2>4, TableIsSeq
  <2>6. PlanTypeOK'
    BY <1>2, <1>1, <2>1, <2>5 DEF PlanInv, PlanTypeOK, PlanStatus
  <2>7. \A i \in 1..n :
          /\ i < cur + 1 => steps'[i].status = "completed" /\ steps'[i].proved
          /\ i > cur + 1 => steps'[i].status = "pending" /\ steps'[i].attempts = 0
          /\ steps'[i].attempts <= AttemptBudget
    BY <1>1, <1>2, <1>3, <1>4, <2>2, <2>3
  <2>8. StepsInOrder' /\ WithinBudget'
    BY <2>0, <2>1, <2>5, <2>7
       DEF StepsInOrder, Open, WithinBudget, AttemptBudget
  <2>9. steps'[cur + 1].status = "active" /\ steps'[cur + 1].attempts = 0
    BY <1>1, <2>0, <2>2, <2>3
  <2>10. CurrentStep'
    BY <1>1, <2>1, <2>9, LimitTypes DEF CurrentStep, AttemptBudget
  <2>11. WorkCounted' /\ WithinLimits'
    BY <1>1, <1>2, <2>1, <2>5 DEF WorkCounted, WithinLimits
  <2> QED
    BY <2>1, <2>6, <2>8, <2>10, <2>11
       DEF PlanInv, RepairIsPossible, CompletedPassesAudit
<1> QED
  BY <1>5, <1>6

-----------------------------------------------------------------------------

(* Replacing the current step touches no other step.                       *)
LEMMA ReplaceCurrent ==
  ASSUME PlanTypeOK, cur \in 1..Len(steps), NEW e \in Step,
         steps' = [steps EXCEPT ![cur] = e]
  PROVE  /\ steps' \in Seq(Step)
         /\ Len(steps') = Len(steps)
         /\ \A i \in 1..Len(steps) : steps'[i] = IF i = cur THEN e ELSE steps[i]
BY ExceptSeq DEF PlanTypeOK

(* An unverified action leaves a plan that can be repaired, or ends it.    *)
LEMMA RecordFailureKeeps ==
  ASSUME PlanInv, NEW tool \in ActionTools, NEW failure \in Failures,
         RecordFailure(tool, failure)
  PROVE  PlanInv'
<1> DEFINE n == Len(steps)
           st == IF GivesUp(failure) THEN "failed" ELSE "needs_repair"
           count == steps[cur].counts[<<tool, failure>>] + 1
           counts == [steps[cur].counts EXCEPT ![<<tool, failure>>] = count]
           e == [status |-> st, attempts |-> steps[cur].attempts + 1,
                 proved |-> steps[cur].proved, last |-> tool,
                 repeated |-> count >= limits.same,
                 counts |-> counts, born |-> steps[cur].born]
<1>1. /\ n \in Nat /\ cur \in 1..n /\ limits \in Limits /\ status = "active"
      /\ \A i \in 1..n : steps[i] \in Step
      /\ steps[cur] \in Step
  BY StepTypes DEF PlanInv, PlanTypeOK, StepsInOrder, Open, RecordFailure
<1>2. /\ limits.steps \in Nat /\ limits.revisions \in Nat /\ AttemptBudget \in Nat
      /\ revs \in Nat /\ work = cur - 1 + revs /\ revs <= limits.revisions
      /\ n <= limits.steps /\ limits.same \in Nat /\ cur \in Nat /\ cur >= 1
  BY <1>1, LimitTypes
     DEF PlanInv, PlanTypeOK, AttemptBudget, WithinLimits, WorkCounted
<1>3. /\ steps[cur].attempts \in Nat /\ steps[cur].attempts < AttemptBudget
      /\ steps[cur].counts \in [Signatures -> Nat]
      /\ steps[cur].proved \in BOOLEAN /\ steps[cur].born \in Nat
  BY <1>1 DEF PlanInv, CurrentStep, Step
<1>4. /\ steps' = [steps EXCEPT ![cur] = e]
      /\ status' = IF GivesUp(failure) THEN "failed" ELSE "repairing"
      /\ work' = work + 1
      /\ UNCHANGED <<required, cur, revs, limits>>
  BY DEF RecordFailure
<1>5. e \in Step
  <2>1. <<tool, failure>> \in Signatures
    BY DEF Signatures
  <2>2. count \in Nat
    BY <1>3, <2>1
  <2> HIDE DEF count
  <2>3. counts \in [Signatures -> Nat]
    BY <1>3, <2>2
  <2> HIDE DEF counts
  <2>4. st \in StepStatus
    BY DEF StepStatus
  <2> HIDE DEF st
  <2>5. (count >= limits.same) \in BOOLEAN
    OBVIOUS
  <2> QED
    BY <1>3, <2>3, <2>4, <2>5 DEF Step
<1>6. /\ e.status = st /\ e.attempts = steps[cur].attempts + 1 /\ e.last = tool
  OBVIOUS
<1> HIDE DEF e, count, counts, st
<1>7. /\ steps' \in Seq(Step) /\ Len(steps') = n
      /\ \A i \in 1..n : steps'[i] = IF i = cur THEN e ELSE steps[i]
  BY <1>1, <1>4, <1>5, ReplaceCurrent DEF PlanInv
<1>8. PlanTypeOK'
  BY <1>1, <1>2, <1>4, <1>7 DEF PlanInv, PlanTypeOK, PlanStatus
<1>9. WithinBudget' /\ StepsInOrder' /\ WithinLimits'
  <2>1. \A i \in 1..n :
          /\ steps'[i].attempts <= AttemptBudget
          /\ i < cur => steps'[i].status = "completed" /\ steps'[i].proved
          /\ i > cur => steps'[i].status = "pending" /\ steps'[i].attempts = 0
    <3> TAKE i \in 1..n
    <3>1. CASE i = cur
      BY <1>2, <1>3, <1>6, <1>7, <3>1
    <3>2. CASE i # cur
      BY <1>1, <1>7, <3>2 DEF PlanInv, WithinBudget, StepsInOrder, Open
    <3> QED
      BY <3>1, <3>2
  <2> QED
    BY <1>1, <1>2, <1>4, <1>7, <2>1
       DEF WithinBudget, StepsInOrder, WithinLimits, AttemptBudget
<1>10. RepairIsPossible'
  <2>1. steps'[cur].last # NoTool /\ steps'[cur].attempts = steps[cur].attempts + 1
    BY <1>1, <1>6, <1>7, TrackerAssumption
  <2>2. ~GivesUp(failure) =>
          revs < limits.revisions /\ steps[cur].attempts + 1 < AttemptBudget
    BY <1>2, <1>3 DEF GivesUp
  <2> QED
    BY <1>4, <2>1, <2>2 DEF RepairIsPossible, AttemptBudget
<1>11. WorkCounted' /\ CompletedPassesAudit'
  BY <1>2, <1>4 DEF WorkCounted, CompletedPassesAudit
<1>12. CurrentStep'
  <2>1. ~GivesUp(failure) => steps'[cur].status = "needs_repair"
    BY <1>1, <1>6, <1>7 DEF st
  <2> QED
    BY <1>4, <2>1 DEF CurrentStep
<1> QED
  BY <1>8, <1>9, <1>10, <1>11, <1>12 DEF PlanInv

(* Resuming the failed step spends a revision and none of its attempts.    *)
LEMMA RepairResumeKeeps ==
  ASSUME PlanInv, NEW strategy, NEW preferred, RepairResume(strategy, preferred)
  PROVE  PlanInv'
<1> DEFINE n == Len(steps)
           e == [steps[cur] EXCEPT !.status = "active"]
<1>1. /\ n \in Nat /\ cur \in 1..n /\ limits \in Limits /\ status = "repairing"
      /\ \A i \in 1..n : steps[i] \in Step
      /\ steps[cur] \in Step /\ revs < limits.revisions
  BY StepTypes DEF PlanInv, PlanTypeOK, StepsInOrder, Open, RepairResume,
                   RepairAllowed
<1>2. /\ limits.steps \in Nat /\ limits.revisions \in Nat /\ AttemptBudget \in Nat
      /\ revs \in Nat /\ work = cur + revs /\ cur \in Nat
      /\ n <= limits.steps
      /\ steps[cur].attempts < AttemptBudget
  BY <1>1, LimitTypes
     DEF PlanInv, PlanTypeOK, AttemptBudget, WithinLimits, WorkCounted,
         RepairIsPossible
<1>3. /\ e \in Step /\ e.status = "active" /\ e.attempts = steps[cur].attempts
  <2>1. "active" \in StepStatus
    BY DEF StepStatus
  <2> QED
    BY <1>1, <2>1, StatusChange
<1>4. /\ steps' = [steps EXCEPT ![cur] = e] /\ cur' = cur
      /\ status' = "active" /\ revs' = revs + 1
      /\ UNCHANGED <<required, limits, work>>
  BY DEF RepairResume, Repaired
<1> HIDE DEF e
<1>5. /\ steps' \in Seq(Step) /\ Len(steps') = n
      /\ \A i \in 1..n : steps'[i] = IF i = cur THEN e ELSE steps[i]
  BY <1>1, <1>3, <1>4, ReplaceCurrent DEF PlanInv
<1>6. PlanTypeOK'
  BY <1>1, <1>2, <1>4, <1>5 DEF PlanInv, PlanTypeOK, PlanStatus
<1>7. WithinBudget' /\ StepsInOrder' /\ WithinLimits'
  <2>1. \A i \in 1..n :
          /\ steps'[i].attempts <= AttemptBudget
          /\ i < cur => steps'[i].status = "completed" /\ steps'[i].proved
          /\ i > cur => steps'[i].status = "pending" /\ steps'[i].attempts = 0
    <3> TAKE i \in 1..n
    <3>1. CASE i = cur
      BY <1>1, <1>2, <1>3, <1>5, <3>1 DEF Step
    <3>2. CASE i # cur
      BY <1>1, <1>5, <3>2 DEF PlanInv, WithinBudget, StepsInOrder, Open
    <3> QED
      BY <3>1, <3>2
  <2> QED
    BY <1>1, <1>2, <1>4, <1>5, <2>1
       DEF WithinBudget, StepsInOrder, WithinLimits, AttemptBudget
<1>8. CurrentStep'
  BY <1>1, <1>2, <1>3, <1>4, <1>5 DEF CurrentStep, AttemptBudget
<1>9. WorkCounted' /\ RepairIsPossible' /\ CompletedPassesAudit'
  BY <1>1, <1>2, <1>4 DEF WorkCounted, RepairIsPossible, CompletedPassesAudit
<1> QED
  BY <1>6, <1>7, <1>8, <1>9 DEF PlanInv

(* New steps in the place of the failed one: the prefix is untouched, and  *)
(* what follows the first new step has never been tried.                   *)
LEMMA RepairReplaceKeeps ==
  ASSUME PlanInv, NEW strategy, NEW n \in Nat, RepairReplace(strategy, n)
  PROVE  PlanInv'
<1> DEFINE len == Len(steps)
           suffix == Suffix(strategy)
           m == cur - 1 + n + suffix
           new(i) == IF i < cur THEN steps[i]
                     ELSE IF i < cur + n
                          THEN NewStep(IF i = cur THEN "active" ELSE "pending",
                                       revs + 1)
                          ELSE IF steps[i + 1 - n].status = "completed"
                               THEN steps[i + 1 - n]
                               ELSE [steps[i + 1 - n] EXCEPT !.status = "pending"]
<1>1. /\ len \in Nat /\ cur \in 1..len /\ limits \in Limits /\ status = "repairing"
      /\ \A i \in 1..len : steps[i] \in Step
      /\ revs < limits.revisions /\ n >= 1 /\ m <= limits.steps
  BY StepTypes DEF PlanInv, PlanTypeOK, StepsInOrder, Open, RepairReplace,
                   RepairAllowed
<1>2. /\ limits.steps \in Nat /\ limits.revisions \in Nat /\ AttemptBudget \in Nat
      /\ AttemptBudget >= 1
      /\ revs \in Nat /\ work = cur + revs /\ cur \in Nat /\ 1 <= cur /\ cur <= len
      /\ len <= limits.steps
  BY <1>1, LimitTypes
     DEF PlanInv, PlanTypeOK, AttemptBudget, WithinLimits, WorkCounted
<1>3. suffix \in Nat /\ (suffix = len - cur \/ suffix = 0)
  BY <1>1, <1>2 DEF Suffix
<1>4. /\ steps' = [i \in 1..m |-> new(i)] /\ cur' = cur
      /\ status' = "active" /\ revs' = revs + 1
      /\ UNCHANGED <<required, limits, work>>
  BY DEF RepairReplace, Repaired
<1> HIDE DEF suffix
<1>5. m \in Nat /\ cur <= m
  BY <1>1, <1>2, <1>3
<1>6. ASSUME NEW i \in 1..m
      PROVE  /\ new(i) \in Step /\ new(i).attempts <= AttemptBudget
             /\ i < cur => new(i).status = "completed" /\ new(i).proved
             /\ i = cur => new(i).status = "active" /\ new(i).attempts = 0
             /\ i > cur => new(i).status = "pending" /\ new(i).attempts = 0
  <2>1. CASE i < cur
    <3>1. i \in 1..len /\ new(i) = steps[i]
      BY <1>1, <1>2, <2>1
    <3> QED
      BY <1>1, <1>2, <2>1, <3>1 DEF PlanInv, StepsInOrder, Open, WithinBudget
  <2>2. CASE i >= cur /\ i < cur + n
    <3> DEFINE st == IF i = cur THEN "active" ELSE "pending"
    <3>1. new(i) = NewStep(st, revs + 1)
      BY <1>2, <2>2
    <3>2. st \in StepStatus /\ revs + 1 \in Nat
      BY <1>2 DEF StepStatus
    <3> HIDE DEF new, st
    <3>3. /\ new(i) \in Step /\ new(i).attempts = 0 /\ new(i).status = st
      BY <3>1, <3>2, NewStepType
    <3> USE DEF st
    <3> QED
      BY <1>2, <2>2, <3>3
  <2>3. CASE i >= cur + n
    <3> DEFINE j == i + 1 - n
    <3>1. j \in 1..len /\ j > cur
      BY <1>1, <1>2, <1>3, <2>3
    <3>2. steps[j] \in Step /\ steps[j].status = "pending" /\ steps[j].attempts = 0
      BY <1>1, <3>1 DEF PlanInv, StepsInOrder, Open
    <3>3. new(i) = [steps[j] EXCEPT !.status = "pending"]
      BY <1>1, <1>2, <2>3, <3>2
    <3>4. "pending" \in StepStatus
      BY DEF StepStatus
    <3> HIDE DEF new, j
    <3>5. new(i) \in Step /\ new(i).status = "pending" /\ new(i).attempts = 0
      BY <3>2, <3>3, <3>4, StatusChange
    <3> QED
      BY <1>1, <1>2, <2>3, <3>5
  <2> QED
    BY <1>1, <1>2, <2>1, <2>2, <2>3
<1> HIDE DEF new
<1>7. /\ steps' \in [1..m -> Step]
      /\ \A i \in 1..m : steps'[i] = new(i)
  BY <1>4, <1>6
<1>8. steps' \in Seq(Step) /\ Len(steps') = m
  BY <1>5, <1>7, TableIsSeq
<1>9. PlanTypeOK'
  BY <1>1, <1>2, <1>4, <1>8 DEF PlanInv, PlanTypeOK, PlanStatus
<1>10. WithinBudget' /\ StepsInOrder' /\ WithinLimits'
  BY <1>1, <1>2, <1>4, <1>5, <1>6, <1>7, <1>8
     DEF WithinBudget, StepsInOrder, WithinLimits, AttemptBudget, Open
<1>11. CurrentStep'
  <2>1. cur \in 1..m
    BY <1>2, <1>5
  <2>2. steps'[cur].status = "active" /\ steps'[cur].attempts = 0
    BY <1>6, <1>7, <2>1
  <2> QED
    BY <1>2, <1>4, <2>2 DEF CurrentStep, AttemptBudget
<1>12. WorkCounted' /\ RepairIsPossible' /\ CompletedPassesAudit'
  BY <1>1, <1>2, <1>4 DEF WorkCounted, RepairIsPossible, CompletedPassesAudit
<1> QED
  BY <1>9, <1>10, <1>11, <1>12 DEF PlanInv

(* Giving a step up ends the plan.                                         *)
LEMMA FailStepKeeps ==
  ASSUME PlanInv, FailStep
  PROVE  PlanInv'
<1> DEFINE n == Len(steps)
           e == [steps[cur] EXCEPT !.status = "failed"]
<1>1. /\ n \in Nat /\ cur \in 1..n /\ limits \in Limits
      /\ status \in {"active", "repairing"}
      /\ \A i \in 1..n : steps[i] \in Step
      /\ steps[cur] \in Step
  BY StepTypes DEF PlanInv, PlanTypeOK, StepsInOrder, Open, FailStep
<1>2. /\ limits.steps \in Nat /\ limits.revisions \in Nat
      /\ revs \in Nat /\ work <= cur + revs /\ cur \in Nat
      /\ n <= limits.steps /\ revs <= limits.revisions
  BY <1>1, LimitTypes DEF PlanInv, PlanTypeOK, WithinLimits, WorkCounted
<1>3. /\ e \in Step /\ e.attempts = steps[cur].attempts
  <2>1. "failed" \in StepStatus
    BY DEF StepStatus
  <2> QED
    BY <1>1, <2>1, StatusChange
<1>4. /\ steps' = [steps EXCEPT ![cur] = e] /\ cur' = cur
      /\ status' = "failed"
      /\ UNCHANGED <<required, revs, limits, work>>
  BY DEF FailStep
<1> HIDE DEF e
<1>5. /\ steps' \in Seq(Step) /\ Len(steps') = n
      /\ \A i \in 1..n : steps'[i] = IF i = cur THEN e ELSE steps[i]
  BY <1>1, <1>3, <1>4, ReplaceCurrent DEF PlanInv
<1>6. PlanTypeOK'
  BY <1>1, <1>4, <1>5 DEF PlanInv, PlanTypeOK, PlanStatus
<1>7. WithinBudget' /\ StepsInOrder' /\ WithinLimits'
  <2>1. \A i \in 1..n :
          /\ steps'[i].attempts <= AttemptBudget
          /\ i < cur => steps'[i].status = "completed" /\ steps'[i].proved
          /\ i > cur => steps'[i].status = "pending" /\ steps'[i].attempts = 0
    <3> TAKE i \in 1..n
    <3>1. CASE i = cur
      BY <1>1, <1>2, <1>3, <1>5, <3>1 DEF PlanInv, WithinBudget
    <3>2. CASE i # cur
      BY <1>1, <1>5, <3>2 DEF PlanInv, WithinBudget, StepsInOrder, Open
    <3> QED
      BY <3>1, <3>2
  <2> QED
    BY <1>1, <1>2, <1>4, <1>5, <2>1
       DEF WithinBudget, StepsInOrder, WithinLimits, AttemptBudget
<1>8. WorkCounted' /\ RepairIsPossible' /\ CompletedPassesAudit' /\ CurrentStep'
  BY <1>2, <1>4
     DEF WorkCounted, RepairIsPossible, CompletedPassesAudit, CurrentStep
<1> QED
  BY <1>6, <1>7, <1>8 DEF PlanInv

(* A fresh plan has all its budgets.                                       *)
LEMMA BeginPlanKeeps ==
  ASSUME PlanInv, NEW n \in Nat, BeginPlan(n)
  PROVE  PlanInv'
<1> DEFINE st(i) == IF i = 1 THEN "active" ELSE "pending"
<1>1. /\ limits \in Limits /\ n >= 2 /\ n <= limits.steps
      /\ revs = 0 /\ work = 0
      /\ limits.steps \in Nat /\ limits.revisions \in Nat /\ limits.repairs \in Nat
  BY LimitTypes DEF PlanInv, PlanTypeOK, WorkCounted, BeginPlan
<1>2. /\ steps' = [i \in 1..n |-> NewStep(st(i), 0)] /\ cur' = 1
      /\ status' = "active" /\ UNCHANGED <<required, revs, limits, work>>
  BY DEF BeginPlan
<1>3. ASSUME NEW i \in 1..n
      PROVE  /\ NewStep(st(i), 0) \in Step
             /\ NewStep(st(i), 0).status = st(i)
             /\ NewStep(st(i), 0).attempts = 0
  <2>1. st(i) \in StepStatus
    BY DEF StepStatus
  <2> QED
    BY <2>1, NewStepType
<1>4. /\ steps' \in [1..n -> Step]
      /\ \A i \in 1..n : steps'[i].status = st(i) /\ steps'[i].attempts = 0
  BY <1>2, <1>3
<1>5. steps' \in Seq(Step) /\ Len(steps') = n
  BY <1>4, TableIsSeq
<1>6. PlanTypeOK'
  BY <1>1, <1>2, <1>5 DEF PlanInv, PlanTypeOK, PlanStatus
<1>7. WithinBudget' /\ StepsInOrder' /\ WithinLimits' /\ CurrentStep'
  <2>1. 1 \in 1..n /\ steps'[1].status = "active" /\ steps'[1].attempts = 0
    BY <1>1, <1>4
  <2>2. \A i \in 1..n : i > 1 => steps'[i].status = "pending"
    BY <1>4
  <2>3. 0 < AttemptBudget' /\ AttemptBudget' \in Nat
    BY <1>1, <1>2 DEF AttemptBudget
  <2> HIDE DEF st
  <2>4. WithinBudget' /\ WithinLimits'
    BY <1>1, <1>2, <1>4, <1>5, <2>3 DEF WithinBudget, WithinLimits
  <2>5. StepsInOrder' /\ CurrentStep'
    BY <1>2, <1>4, <1>5, <2>1, <2>2, <2>3 DEF StepsInOrder, CurrentStep, Open
  <2> QED
    BY <2>4, <2>5
<1>8. WorkCounted' /\ RepairIsPossible' /\ CompletedPassesAudit'
  BY <1>1, <1>2 DEF WorkCounted, RepairIsPossible, CompletedPassesAudit
<1> QED
  BY <1>6, <1>7, <1>8 DEF PlanInv

(* A request begins with no plan at all.                                   *)
LEMMA NoPlanKeeps ==
  ASSUME required' \in BOOLEAN, status' \in {"idle", "required"},
         steps' = <<>>, cur' = 0, revs' = 0, limits' \in Limits, work' = 0
  PROVE  PlanInv'
<1>1. Len(steps') = 0 /\ steps' \in Seq(Step)
  OBVIOUS
<1>2. limits'.steps \in Nat /\ limits'.revisions \in Nat
  BY LimitTypes
<1> QED
  BY <1>1, <1>2
     DEF PlanInv, PlanTypeOK, PlanStatus, WithinLimits, WithinBudget, StepsInOrder,
         Open, CurrentStep, RepairIsPossible, CompletedPassesAudit, WorkCounted

(* A plan can be abandoned in every state, with the work done so far.      *)
LEMMA AbandonKeeps ==
  ASSUME PlanInv, AbandonPlan
  PROVE  PlanInv'
<1>1. /\ limits.steps \in Nat /\ limits.revisions \in Nat
      /\ revs \in Nat /\ cur \in Nat /\ Len(steps) \in Nat
      /\ work \in Nat
  BY LimitTypes, StepTypes DEF PlanInv, PlanTypeOK
<1>2. work <= limits.steps + limits.revisions
  BY <1>1 DEF PlanInv, PlanTypeOK, PlanStatus, WorkCounted, WithinLimits,
              StepsInOrder, Open
<1> QED
  BY <1>2
     DEF AbandonPlan, PlanInv, PlanTypeOK, PlanStatus, WithinLimits, WithinBudget,
         StepsInOrder, Open, CurrentStep, RepairIsPossible, CompletedPassesAudit,
         WorkCounted, AttemptBudget

-----------------------------------------------------------------------------

(* Initially no request has begun.                                         *)
LEMMA InitHolds == PlanInit => PlanInv
<1> SUFFICES ASSUME PlanInit PROVE PlanInv
  OBVIOUS
<1>1. /\ required = FALSE /\ status = "idle" /\ steps = <<>> /\ cur = 0
      /\ revs = 0 /\ work = 0 /\ limits \in Limits
  BY DEF PlanInit
<1>2. Len(steps) = 0 /\ steps \in Seq(Step)
  BY <1>1
<1>3. limits.steps \in Nat /\ limits.revisions \in Nat
  BY <1>1, LimitTypes
<1>4. PlanTypeOK
  BY <1>1, <1>2 DEF PlanTypeOK, PlanStatus
<1>5. WithinLimits /\ WithinBudget
  BY <1>1, <1>2, <1>3 DEF WithinLimits, WithinBudget
<1>6. StepsInOrder /\ CurrentStep /\ RepairIsPossible /\ CompletedPassesAudit
  BY <1>1 DEF StepsInOrder, Open, CurrentStep, RepairIsPossible,
              CompletedPassesAudit
<1>7. WorkCounted
  BY <1>1 DEF WorkCounted
<1> QED
  BY <1>4, <1>5, <1>6, <1>7 DEF PlanInv

(* The planning tools, one lemma for each.                                 *)
LEMMA PlanningToolKeeps ==
  ASSUME PlanInv, PlanningTool
  PROVE  PlanInv'
<1>0. limits.steps \in Nat
  BY LimitTypes DEF PlanInv, PlanTypeOK
<1>1. ASSUME NEW n \in 2..limits.steps, BeginPlan(n) PROVE PlanInv'
  BY <1>0, <1>1, BeginPlanKeeps
<1>2. ASSUME NEW strategy, NEW preferred, RepairResume(strategy, preferred)
      PROVE  PlanInv'
  BY <1>2, RepairResumeKeeps
<1>3. ASSUME NEW strategy, NEW n \in 1..limits.steps, RepairReplace(strategy, n)
      PROVE  PlanInv'
  BY <1>0, <1>3, RepairReplaceKeeps
<1>4. CASE CompleteStep
  <2>1. status = "active" /\ steps[cur] \in Step
    BY <1>4, StepTypes DEF CompleteStep, PlanInv, StepsInOrder, Open
  <2> QED
    BY <1>4, <2>1, DoneStep, AdvanceKeeps DEF CompleteStep
<1>5. CASE FailStep
  BY <1>5, FailStepKeeps
<1>6. CASE AbandonPlan
  BY <1>6, AbandonKeeps
<1> QED
  BY <1>1, <1>2, <1>3, <1>4, <1>5, <1>6 DEF PlanningTool

(* Recording an action.                                                    *)
LEMMA RecordActionKeeps ==
  ASSUME PlanInv, RecordAction
  PROVE  PlanInv'
<1>1. CASE RecordVerified
  <2>1. status = "active" /\ steps[cur] \in Step
    BY <1>1, StepTypes DEF RecordVerified, PlanInv, StepsInOrder, Open
  <2> QED
    BY <1>1, <2>1, DoneStep, AdvanceKeeps DEF RecordVerified
<1>2. ASSUME NEW tool \in ActionTools, NEW failure \in Failures,
             RecordFailure(tool, failure)
      PROVE  PlanInv'
  BY <1>2, RecordFailureKeeps
<1>3. CASE UNCHANGED planVars
  BY <1>3 DEF planVars, PlanInv, PlanTypeOK, WithinLimits, WithinBudget,
              StepsInOrder, Open, CurrentStep, RepairIsPossible,
              CompletedPassesAudit, AuditPasses, WorkCounted, AttemptBudget
<1> QED
  BY <1>1, <1>2, <1>3 DEF RecordAction, RecordIgnored

(* Every step of the tracker keeps the invariant.                          *)
LEMMA StepKeeps == PlanInv /\ [PlanNext]_planVars => PlanInv'
<1> SUFFICES ASSUME PlanInv, [PlanNext]_planVars
             PROVE  PlanInv'
  OBVIOUS
<1>1. ASSUME NEW need \in BOOLEAN, NEW lim \in Limits, BeginRequest(need, lim)
      PROVE  PlanInv'
  BY <1>1, NoPlanKeeps DEF BeginRequest
<1>2. CASE PlanningTool
  BY <1>2, PlanningToolKeeps
<1>3. CASE RecordAction
  BY <1>3, RecordActionKeeps
<1>4. CASE UNCHANGED planVars
  BY <1>4 DEF planVars, PlanInv, PlanTypeOK, WithinLimits, WithinBudget,
              StepsInOrder, Open, CurrentStep, RepairIsPossible,
              CompletedPassesAudit, AuditPasses, WorkCounted, AttemptBudget
<1> QED
  BY <1>1, <1>2, <1>3, <1>4 DEF PlanNext

(* The invariant of the plan tracker, for all tools, failures and limits.  *)
THEOREM PlanInvariant == PlanSpec => []PlanInv
BY InitHolds, StepKeeps, PTL DEF PlanSpec

(* The order of the steps and their types, whatever repairs were made.     *)
THEOREM OrderIsKept == PlanSpec => [](PlanTypeOK /\ StepsInOrder)
BY PlanInvariant, PTL DEF PlanInv

(* get_plan_recovery and repair_task_plan never raise while a plan waits   *)
(* for a repair.                                                           *)
THEOREM NeverStuck == PlanSpec => []RepairIsPossible
BY PlanInvariant, PTL DEF PlanInv

(* finish_task_plan never fails on a completed plan: every step of it is   *)
(* completed, with verified evidence.                                      *)
THEOREM CompletedIsProved == PlanSpec => []CompletedPassesAudit
BY PlanInvariant, PTL DEF PlanInv

(* The invariant bounds the work of every request.                         *)
LEMMA InvBoundsWork == PlanInv => WorkIsBounded
<1> SUFFICES ASSUME PlanInv PROVE WorkIsBounded
  OBVIOUS
<1>1. /\ limits.steps \in Nat /\ limits.revisions \in Nat
      /\ revs \in Nat /\ cur \in Nat /\ Len(steps) \in Nat
      /\ work \in Nat
  BY LimitTypes, StepTypes DEF PlanInv, PlanTypeOK
<1> QED
  BY <1>1 DEF PlanInv, PlanTypeOK, PlanStatus, WorkCounted, WithinLimits,
              StepsInOrder, Open, WorkIsBounded

(* The work of a request is bounded by its limits, whatever the agent and  *)
(* its tools do, and no step is tried more often than its budget allows.   *)
THEOREM WorkBounded == PlanSpec => []WorkEnds
<1>1. PlanInv => WorkEnds
  BY InvBoundsWork DEF PlanInv, WorkEnds
<1> QED
  BY <1>1, PlanInvariant, PTL

-----------------------------------------------------------------------------
(* What one step may do to the work that is done.                          *)

(* In an open plan the completed steps are the ones behind the current one.*)
LEMMA CompletedIsBehind ==
  ASSUME PlanInv, Open, NEW i \in 1..Len(steps), steps[i].status = "completed"
  PROVE  i < cur /\ cur \in 1..Len(steps) /\ i \in Nat /\ cur \in Nat
<1>1. cur \in 1..Len(steps) /\ Len(steps) \in Nat
  BY StepTypes DEF PlanInv, StepsInOrder
<1>2. steps[cur].status \in {"active", "needs_repair"}
  BY DEF PlanInv, CurrentStep, Open
<1>3. i > cur => steps[i].status = "pending"
  BY DEF PlanInv, StepsInOrder
<1> QED
  BY <1>1, <1>2, <1>3

(* A step of the tracker that changes only the current step, or what comes *)
(* after it, leaves the steps behind it.                                   *)
LEMMA AdvanceLeaves ==
  ASSUME PlanTypeOK, cur \in 1..Len(steps), NEW done, Advance(done),
         NEW i \in 1..Len(steps), i < cur
  PROVE  i <= Len(steps') /\ steps'[i] = steps[i]
<1>1. Len(steps) \in Nat /\ DOMAIN steps = 1..Len(steps) /\ cur \in Nat
  BY StepTypes DEF PlanTypeOK
<1>2. CASE cur = Len(steps)
  <2>1. steps' = [steps EXCEPT ![cur] = done]
    BY <1>2 DEF Advance
  <2> QED
    BY <1>1, <2>1 DEF PlanTypeOK
<1>3. CASE cur # Len(steps)
  <2>1. steps' = [k \in 1..Len(steps) |->
                    IF k = cur THEN done
                    ELSE IF k = cur + 1 THEN [steps[k] EXCEPT !.status = "active"]
                                        ELSE steps[k]]
    BY <1>3 DEF Advance
  <2>2. Len(steps') = Len(steps)
    BY <1>1, <2>1
  <2> QED
    BY <1>1, <2>1, <2>2
<1> QED
  BY <1>2, <1>3

(* No step of a request moves or changes a step that is completed.         *)
LEMMA EvidenceStays ==
  ASSUME PlanInv, PlanNext, Open, status' \notin {"idle", "required"},
         NEW i \in 1..Len(steps), steps[i].status = "completed"
  PROVE  i <= Len(steps') /\ steps'[i] = steps[i]
<1>0. /\ i < cur /\ cur \in 1..Len(steps) /\ i \in Nat /\ cur \in Nat
      /\ PlanTypeOK /\ Len(steps) \in Nat /\ DOMAIN steps = 1..Len(steps)
      /\ steps \in Seq(Step)
  BY CompletedIsBehind, StepTypes DEF PlanInv, PlanTypeOK
<1>1. CASE \E need \in BOOLEAN, lim \in Limits : BeginRequest(need, lim)
  BY <1>1 DEF BeginRequest
<1>2. CASE \E n \in 2..limits.steps : BeginPlan(n)
  BY <1>2 DEF BeginPlan, Open
<1>3. CASE \E strategy \in {"retry", "switch_tool"},
              preferred \in ActionTools \cup {NoTool} :
             RepairResume(strategy, preferred)
  <2>1. steps' = [steps EXCEPT ![cur].status = "active"]
    BY <1>3 DEF RepairResume
  <2> QED
    BY <1>0, <2>1
<1>4. CASE \E strategy \in {"replace_current", "replace_remaining"},
              n \in 1..limits.steps : RepairReplace(strategy, n)
  <2>1. PICK strategy \in {"replace_current", "replace_remaining"},
             n \in 1..limits.steps : RepairReplace(strategy, n)
    BY <1>4
  <2> DEFINE m == cur - 1 + n + Suffix(strategy)
  <2>2. n \in Nat /\ n >= 1 /\ Suffix(strategy) \in Nat
    BY <1>0, <2>1, LimitTypes DEF Suffix, PlanTypeOK
  <2>3. m \in Nat /\ i \in 1..m
    BY <1>0, <2>2
  <2>4. DOMAIN steps' = 1..m /\ steps'[i] = steps[i]
    BY <1>0, <2>1, <2>3 DEF RepairReplace
  <2>5. Len(steps') = m
    <3>1. steps' \in Seq(Step)
      BY <2>1, RepairReplaceKeeps, <2>2 DEF PlanInv, PlanTypeOK
    <3>2. DOMAIN steps' = 1..Len(steps') /\ Len(steps') \in Nat
      BY <3>1, LenProperties
    <3> QED
      BY <2>3, <2>4, <3>2
  <2> QED
    BY <2>3, <2>4, <2>5
<1>5. CASE CompleteStep
  BY <1>0, <1>5, AdvanceLeaves DEF CompleteStep
<1>6. CASE FailStep
  BY <1>0, <1>6 DEF FailStep
<1>7. CASE AbandonPlan
  BY <1>0, <1>7 DEF AbandonPlan
<1>8. CASE RecordVerified
  BY <1>0, <1>8, AdvanceLeaves DEF RecordVerified
<1>9. CASE \E tool \in ActionTools, failure \in Failures : RecordFailure(tool, failure)
  <2>1. PICK tool \in ActionTools, failure \in Failures : RecordFailure(tool, failure)
    BY <1>9
  <2>2. \E e : steps' = [steps EXCEPT ![cur] = e]
    BY <2>1 DEF RecordFailure
  <2> QED
    BY <1>0, <2>2
<1>10. CASE RecordIgnored
  BY <1>0, <1>10 DEF RecordIgnored, planVars
<1> QED
  BY <1>1, <1>2, <1>3, <1>4, <1>5, <1>6, <1>7, <1>8, <1>9, <1>10
     DEF PlanNext, PlanningTool, RecordAction

(* While a request lasts no repair, failure or abandonment touches a step  *)
(* that is completed.                                                      *)
THEOREM EvidenceIsKept == PlanSpec => EvidencePreserved
<1> DEFINE Keeps ==
      (Open /\ status' \notin {"idle", "required"}) =>
        \A i \in 1..Len(steps) :
          steps[i].status = "completed" => (i <= Len(steps') /\ steps'[i] = steps[i])
<1>1. PlanInv /\ [PlanNext]_planVars => [Keeps]_planVars
  BY EvidenceStays
<1>2. PlanSpec => [][Keeps]_planVars
  BY <1>1, PlanInvariant, PTL DEF PlanSpec
<1> QED
  BY <1>2 DEF EvidencePreserved

(* A plan that has been closed leaves that state only with its request, or *)
(* by being abandoned as it is.                                            *)
LEMMA ClosedStays ==
  ASSUME PlanNext, status \in {"completed", "failed", "abandoned"}
  PROVE  \/ status' \in {status, "abandoned"} /\ steps' = steps
         \/ status' \in {"idle", "required"} /\ work' = 0
<1>1. CASE \E need \in BOOLEAN, lim \in Limits : BeginRequest(need, lim)
  BY <1>1 DEF BeginRequest
<1>2. CASE PlanningTool
  BY <1>2 DEF PlanningTool, BeginPlan, RepairResume, RepairReplace, RepairAllowed,
              CompleteStep, FailStep, AbandonPlan
<1>3. CASE RecordAction
  BY <1>3 DEF RecordAction, RecordVerified, RecordFailure, RecordIgnored, planVars
<1> QED
  BY <1>1, <1>2, <1>3 DEF PlanNext

(* abandon_plan checks no status and fail_plan_step comes late: neither    *)
(* brings a closed plan back.                                              *)
THEOREM ClosedIsFinal == PlanSpec => ClosedStaysClosed
<1> DEFINE Stays ==
      (status \in {"completed", "failed", "abandoned"}) =>
        (\/ (status' \in {status, "abandoned"} /\ steps' = steps)
         \/ (status' \in {"idle", "required"} /\ work' = 0))
<1>1. [PlanNext]_planVars => [Stays]_planVars
  BY ClosedStays
<1>2. PlanSpec => [][Stays]_planVars
  BY <1>1, PTL DEF PlanSpec
<1> QED
  BY <1>2 DEF ClosedStaysClosed

=============================================================================
