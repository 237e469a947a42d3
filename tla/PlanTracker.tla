----------------------------- MODULE PlanTracker -----------------------------
(***************************************************************************)
(* The task plan of one user request (src/src/planning/tracker.py): the    *)
(* agent registers ordered steps, every action tool it runs is evidence    *)
(* for the current step, a failed step has to be repaired before the next  *)
(* action, and repairs are bounded.  All methods run on the main thread.   *)
(*                                                                         *)
(* Goals, instructions and reasons are left out; a step keeps the number   *)
(* of the repair that introduced it instead of its text.  `work' is a      *)
(* history variable: the attempts recorded since the request began.        *)
(***************************************************************************)
EXTENDS Integers, Sequences

CONSTANTS
  ActionTools,  \* tools whose runs are evidence (policy.py, ACTION_TOOLS)
  Failures,     \* ways a run fails, told apart by assess_failure's signature
  Recoverable,  \* the failures assess_failure calls recoverable
  Limits,       \* limits a request may begin with
  NoTool        \* no failure recorded yet

ASSUME TrackerAssumption ==
  /\ Recoverable \subseteq Failures
  /\ Limits \subseteq [steps : Nat \ {0}, repairs : Nat, revisions : Nat,
                       same : Nat \ {0}]
  /\ NoTool \notin ActionTools

VARIABLES
  required,  \* _required
  status,    \* _status
  steps,     \* _steps
  cur,       \* _current_index, counted from 1; 0 is None
  revs,      \* _revision_count
  limits,    \* _max_steps, _max_repair_attempts, _max_plan_revisions, ...
  work       \* history: attempts recorded since begin_request

planVars == <<required, status, steps, cur, revs, limits, work>>

PlanStatus == {"idle", "required", "active", "repairing", "completed",
               "failed", "abandoned"}
StepStatus == {"pending", "active", "needs_repair", "completed", "failed"}
Signatures == ActionTools \X Failures

Step == [status : StepStatus, attempts : Nat, proved : BOOLEAN,
         last : ActionTools \cup {NoTool}, repeated : BOOLEAN,
         counts : [Signatures -> Nat], born : Nat]

PlanTypeOK ==
  /\ required \in BOOLEAN
  /\ status \in PlanStatus
  /\ steps \in Seq(Step)
  /\ cur \in Nat
  /\ revs \in Nat
  /\ limits \in Limits
  /\ work \in Nat

(* Mutant: every new step is active.                                       *)
NewStepActive(st, rev) ==
  [status |-> "active", attempts |-> 0, proved |-> FALSE, last |-> NoTool,
   repeated |-> FALSE, counts |-> [s \in Signatures |-> 0], born |-> rev]

NewStep(st, rev) ==
  [status |-> st, attempts |-> 0, proved |-> FALSE, last |-> NoTool,
   repeated |-> FALSE, counts |-> [s \in Signatures |-> 0], born |-> rev]

AttemptBudget == 1 + limits.repairs

PlanInit ==
  /\ required = FALSE
  /\ status = "idle"
  /\ steps = <<>>
  /\ cur = 0
  /\ revs = 0
  /\ limits \in Limits
  /\ work = 0

-----------------------------------------------------------------------------

BeginRequest(need, lim) ==
  /\ required' = need
  /\ status' = IF need THEN "required" ELSE "idle"
  /\ steps' = <<>>
  /\ cur' = 0
  /\ revs' = 0
  /\ limits' = lim
  /\ work' = 0

(* Mutant: a plan may be registered over the active one.                   *)
BeginPlanAgain(n) ==
  /\ n \in 2..limits.steps
  /\ status \in {"required", "idle", "active"}
  /\ steps' = [i \in 1..n |-> NewStep(IF i = 1 THEN "active" ELSE "pending", 0)]
  /\ cur' = 1 /\ status' = "active"
  /\ UNCHANGED <<required, revs, limits, work>>

BeginPlan(n) ==
  /\ n \in 2..limits.steps
  /\ status \in {"required", "idle"}
  /\ steps' = [i \in 1..n |-> NewStep(IF i = 1 THEN "active" ELSE "pending", 0)]
  /\ cur' = 1
  /\ status' = "active"
  /\ UNCHANGED <<required, revs, limits, work>>

(* _advance, with `done' the current step as it was completed.             *)
Advance(done) ==
  IF cur = Len(steps)
  THEN /\ steps' = [steps EXCEPT ![cur] = done]
       /\ cur' = 0
       /\ status' = "completed"
  ELSE /\ steps' = [i \in 1..Len(steps) |->
                      IF i = cur THEN done
                      ELSE IF i = cur + 1
                           THEN [steps[i] EXCEPT !.status = "active"]
                           ELSE steps[i]]
       /\ cur' = cur + 1
       /\ status' = "active"

(* record_action outside ACTIVE changes nothing (in REPAIRING it raises).  *)
RecordIgnored == status # "active" /\ UNCHANGED planVars

RecordVerified ==
  /\ status = "active"
  /\ Advance([steps[cur] EXCEPT !.status = "completed",
                                !.attempts = steps[cur].attempts + 1,
                                !.proved = TRUE, !.last = NoTool,
                                !.repeated = FALSE])
  /\ work' = work + 1
  /\ UNCHANGED <<required, revs, limits>>

(* Mutants: the revisions, or the attempts, are not looked at.             *)
GivesUpOnAttempts(failure) ==
  failure \notin Recoverable \/ steps[cur].attempts + 1 >= AttemptBudget

GivesUpOnRevisions(failure) ==
  failure \notin Recoverable \/ revs >= limits.revisions

(* An unverified run: the step waits for a repair, or the plan fails.      *)
GivesUp(failure) ==
  \/ failure \notin Recoverable
  \/ steps[cur].attempts + 1 >= AttemptBudget
  \/ revs >= limits.revisions

RecordFailure(tool, failure) ==
  /\ status = "active"
  /\ LET sig == <<tool, failure>>
         count == steps[cur].counts[sig] + 1
     IN  steps' = [steps EXCEPT ![cur] =
                     [status |-> IF GivesUp(failure) THEN "failed"
                                 ELSE "needs_repair",
                      attempts |-> steps[cur].attempts + 1,
                      proved |-> steps[cur].proved,
                      last |-> tool,
                      repeated |-> count >= limits.same,
                      counts |-> [steps[cur].counts EXCEPT ![sig] = count],
                      born |-> steps[cur].born]]
  /\ status' = IF GivesUp(failure) THEN "failed" ELSE "repairing"
  /\ work' = work + 1
  /\ UNCHANGED <<required, cur, revs, limits>>

(* repair_current_step: every strategy needs a plan that waits for one.    *)
RepairAllowed ==
  /\ status = "repairing"
  /\ revs < limits.revisions
  /\ cur # 0
  /\ steps[cur].last # NoTool

Repaired ==
  /\ revs' = revs + 1
  /\ status' = "active"
  /\ UNCHANGED <<required, limits, work>>

(* retry and switch_tool: `preferred' is stored as advice and is only      *)
(* compared with the tool of the last failure.                             *)
RepairResume(strategy, preferred) ==
  /\ RepairAllowed
  /\ strategy = "retry" =>
       (steps[cur].repeated => preferred \notin {NoTool, steps[cur].last})
  /\ strategy = "switch_tool" => preferred \notin {NoTool, steps[cur].last}
  /\ steps' = [steps EXCEPT ![cur].status = "active"]
  /\ cur' = cur
  /\ Repaired

(* replace_current keeps the steps after the failed one, replace_remaining *)
(* drops them; n new steps take its place.                                 *)
Suffix(strategy) == IF strategy = "replace_current" THEN Len(steps) - cur ELSE 0

RepairReplace(strategy, n) ==
  /\ RepairAllowed
  /\ n >= 1
  /\ cur - 1 + n + Suffix(strategy) <= limits.steps
  /\ steps' = [i \in 1..(cur - 1 + n + Suffix(strategy)) |->
                 IF i < cur THEN steps[i]
                 ELSE IF i < cur + n
                      THEN NewStep(IF i = cur THEN "active" ELSE "pending",
                                   revs + 1)
                      ELSE IF steps[i + 1 - n].status = "completed"
                           THEN steps[i + 1 - n]
                           ELSE [steps[i + 1 - n] EXCEPT !.status = "pending"]]
  /\ cur' = cur
  /\ Repaired

(* Mutant: the step is completed without its evidence.                     *)
CompleteUnproved ==
  /\ status = "active"
  /\ Advance([steps[cur] EXCEPT !.status = "completed",
                                !.attempts = steps[cur].attempts + 1])
  /\ work' = work + 1
  /\ UNCHANGED <<required, revs, limits>>

CompleteStep ==
  /\ status = "active"
  /\ Advance([steps[cur] EXCEPT !.status = "completed",
                                !.attempts = steps[cur].attempts + 1,
                                !.proved = TRUE])
  /\ work' = work + 1
  /\ UNCHANGED <<required, revs, limits>>

(* Mutant: the plan's status is not checked.                               *)
FailStepAnytime ==
  /\ cur # 0
  /\ steps' = [steps EXCEPT ![cur].status = "failed"]
  /\ status' = "failed"
  /\ UNCHANGED <<required, cur, revs, limits, work>>

FailStep ==
  /\ status \in {"active", "repairing"}
  /\ steps' = [steps EXCEPT ![cur].status = "failed"]
  /\ status' = "failed"
  /\ UNCHANGED <<required, cur, revs, limits, work>>

(* finish_plan only audits the plan and stores a summary.                  *)
AuditPasses ==
  /\ Len(steps) > 0
  /\ \A i \in 1..Len(steps) : steps[i].status = "completed" /\ steps[i].proved

(* abandon_plan checks no status: also a completed plan can be abandoned.  *)
AbandonPlan ==
  /\ status' = "abandoned"
  /\ UNCHANGED <<required, steps, cur, revs, limits, work>>

(* The planning tools the agent can call.                                  *)
PlanningTool ==
  \/ \E n \in 2..limits.steps : BeginPlan(n)
  \/ \E strategy \in {"retry", "switch_tool"},
        preferred \in ActionTools \cup {NoTool} :
       RepairResume(strategy, preferred)
  \/ \E strategy \in {"replace_current", "replace_remaining"},
        n \in 1..limits.steps : RepairReplace(strategy, n)
  \/ CompleteStep
  \/ FailStep
  \/ AbandonPlan

RecordAction ==
  \/ RecordVerified
  \/ \E tool \in ActionTools, failure \in Failures : RecordFailure(tool, failure)
  \/ RecordIgnored

PlanNext ==
  \/ \E need \in BOOLEAN, lim \in Limits : BeginRequest(need, lim)
  \/ PlanningTool
  \/ RecordAction

PlanSpec == PlanInit /\ [][PlanNext]_planVars

-----------------------------------------------------------------------------

Open == status \in {"active", "repairing"}

(* The steps behind the current one are completed, the ones ahead of it    *)
(* have never been tried, whatever mixture of repairs led here.            *)
StepsInOrder ==
  (Open \/ status = "failed") =>
    /\ cur \in 1..Len(steps)
    /\ \A i \in 1..Len(steps) :
         /\ i < cur => steps[i].status = "completed" /\ steps[i].proved
         /\ i > cur => steps[i].status = "pending" /\ steps[i].attempts = 0

(* A plan that asks for a repair can be repaired: revisions and attempts   *)
(* remain and the failure it must report is there, so get_plan_recovery    *)
(* and repair_task_plan never raise and the agent is never left with a     *)
(* plan on which neither an action nor a repair is possible.               *)
RepairIsPossible ==
  status = "repairing" =>
    /\ revs < limits.revisions
    /\ steps[cur].attempts < AttemptBudget
    /\ steps[cur].last # NoTool

(* A completed plan passes finish_plan's audit: no sequence of repairs     *)
(* leaves a step uncompleted or without verified evidence.                 *)
CompletedPassesAudit == status = "completed" => AuditPasses

(* One request does a bounded amount of work: at most one attempt per step *)
(* of the final plan plus one per repair, although a replacement gives its *)
(* new steps a fresh attempt budget.                                       *)
WorkIsBounded == work <= limits.steps + limits.revisions

(* No step is ever tried more often than the attempt budget, although      *)
(* complete_plan_step counts an attempt and checks no budget.              *)
WithinBudget == \A i \in 1..Len(steps) : steps[i].attempts <= AttemptBudget

(* The two together: neither a request nor one of its steps can go on.     *)
WorkEnds == WorkIsBounded /\ WithinBudget

(* While a request lasts, a completed step and its evidence stay where     *)
(* they are: repairs replace nothing that is done.                         *)
EvidencePreserved ==
  [][(Open /\ status' \notin {"idle", "required"}) =>
       \A i \in 1..Len(steps) :
         steps[i].status = "completed" => (i <= Len(steps') /\ steps'[i] = steps[i])]_planVars

(* A plan that failed, was completed or abandoned is never taken up again: *)
(* only the next request replaces it (and a closed plan may be abandoned). *)
ClosedStaysClosed ==
  [][(status \in {"completed", "failed", "abandoned"}) =>
       (\/ (status' \in {status, "abandoned"} /\ steps' = steps)
        \/ (status' \in {"idle", "required"} /\ work' = 0))]_planVars

=============================================================================
