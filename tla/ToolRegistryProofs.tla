-------------------------- MODULE ToolRegistryProofs --------------------------
(***************************************************************************)
(* The registry keeps what the plan and the confirmation manager promise,  *)
(* for all tools, limits and numbers of requests: their invariants carry   *)
(* over, since each of its steps is a step of theirs or leaves them alone. *)
(***************************************************************************)
EXTENDS ToolRegistry, PlanTrackerProofs

CP == INSTANCE ConfirmationProofs WITH Tools <- Gated

(* A required request has left the state without a plan, and every direct  *)
(* run of an action tool in it was recorded by the plan.                   *)
RunsAreRecorded ==
  /\ acted \in Nat
  /\ required => status # "idle" /\ acted <= work

BoundInv == PlanInv /\ RunsAreRecorded

(* The history of the runs has one count for each accepted request.        *)
RunsCounted ==
  runs \in Seq(Nat) /\ Len(runs) = Len(log) /\ RunsOncePerApproval

RegistryInv == BoundInv /\ CP!ConfInv /\ RunsCounted

-----------------------------------------------------------------------------

(* The manager of the registry is the one the proofs are about.            *)
LEMMA Assumed == CP!ConfirmationAssumption
BY RegistryAssumption
   DEF RegistryAssumption, Conf!ConfirmationAssumption, CP!ConfirmationAssumption,
       Conf!PendingAction, CP!PendingAction, Conf!Calls, CP!Calls

LEMMA OneManager ==
  /\ Conf!Cancel => CP!Cancel
  /\ Conf!Peek => CP!Peek
  /\ Conf!Tick => CP!Tick
  /\ Conf!ApproveNothing => CP!ApproveNothing
  /\ \A given : Conf!ApproveLive(given) => CP!ApproveLive(given)
  /\ \A given : Conf!RejectCode(given) => CP!RejectCode(given)
  /\ \A call : Conf!Request(call) => CP!Request(call)
BY DEF Conf!Cancel, CP!Cancel, Conf!Peek, CP!Peek, Conf!Tick, CP!Tick,
       Conf!ApproveNothing, CP!ApproveNothing, Conf!ApproveLive, CP!ApproveLive,
       Conf!RejectCode, CP!RejectCode, Conf!Request, CP!Request,
       Conf!CleanExpired, CP!CleanExpired, Conf!Live, CP!Live, Conf!Expired, CP!Expired,
       Conf!CleanLog, CP!CleanLog, Conf!Settle, CP!Settle, Conf!CodeAccepted, CP!CodeAccepted,
       Conf!NewEntry, CP!NewEntry, Conf!CodesFor, CP!CodesFor

(* A request begins with nothing done.                                     *)
LEMMA BeginKeeps ==
  ASSUME NEW need \in BOOLEAN, NEW lim \in Limits, BeginRequest(need, lim), acted' = 0
  PROVE  BoundInv'
<1>1. PlanInv'
  BY NoPlanKeeps DEF BeginRequest
<1> QED
  BY <1>1 DEF BoundInv, RunsAreRecorded, BeginRequest

(* What a tool's handler did is an action the tracker records.             *)
LEMMA HandlerRecords ==
  ASSUME NEW tool \in ActionTools, NEW via, Handler(tool, via)
  PROVE  RecordAction
BY DEF Handler, RecordAction

(* An action counts only where a step is being worked on, and is recorded  *)
(* there; elsewhere nothing changes.                                       *)
LEMMA RecordCounts ==
  ASSUME BoundInv, RecordAction
  PROVE  /\ required' = required /\ (status # "idle" => status' # "idle")
         /\ status = "active" => work' = work + 1
         /\ status # "active" => UNCHANGED planVars
BY DEF RecordAction, RecordVerified, RecordFailure, RecordIgnored, Advance, planVars

(* Planning tools count work and no direct run.                            *)
LEMMA PlanningCounts ==
  ASSUME BoundInv, PlanningTool
  PROVE  required' = required /\ status' # "idle" /\ work' >= work /\ work' \in Nat
<1> USE DEF BoundInv, PlanInv, PlanTypeOK
<1>1. /\ required' = required /\ status' # "idle"
  BY DEF PlanningTool, BeginPlan, RepairResume, RepairReplace, Repaired, CompleteStep, Advance,
         FailStep, AbandonPlan
<1>2. work' = work \/ work' = work + 1
  BY DEF PlanningTool, BeginPlan, RepairResume, RepairReplace, Repaired, CompleteStep,
         FailStep, AbandonPlan
<1> QED
  BY <1>1, <1>2

(* A tool call of either caller.                                           *)
LEMMA ExecuteKeeps ==
  ASSUME BoundInv, NEW next, Execute(next)
  PROVE  BoundInv'
<1> USE DEF BoundInv, RunsAreRecorded
<1>1. CASE Refused(next)
  <2>1. UNCHANGED <<planVars, acted>>
    BY <1>1 DEF Refused, ghosts
  <2> QED
    BY <2>1, StepKeeps DEF planVars
<1>2. ASSUME NEW tool \in ActionTools, Park(tool, next) PROVE BoundInv'
  <2>1. UNCHANGED <<planVars, acted>>
    BY <1>2 DEF Park
  <2> QED
    BY <2>1, StepKeeps DEF planVars
<1>3. ASSUME NEW tool \in ActionTools, RunDirectly(tool, next) PROVE BoundInv'
  <2>1. RecordAction /\ Precondition /\ acted' = IF required THEN acted + 1 ELSE acted
    BY <1>3, HandlerRecords DEF RunDirectly
  <2>2. PlanInv'
    BY <2>1, RecordActionKeeps
  <2>3. required => status = "active"
    BY <2>1 DEF Precondition, PlanInv, PlanTypeOK, PlanStatus
  <2>4. work \in Nat /\ acted \in Nat
    BY DEF PlanInv, PlanTypeOK
  <2> QED
    BY <2>1, <2>2, <2>3, <2>4, RecordCounts
<1> QED
  BY <1>1, <1>2, <1>3 DEF Execute

(* What a step of the registry does to the manager and to the history of   *)
(* the runs: nothing, an operation that approves nothing, or an approval,  *)
(* which runs the tool it approves.                                        *)
QuietOperation ==
  CP!Tick \/ CP!Peek \/ CP!Cancel \/ CP!ApproveNothing
    \/ \E given \in Codes \cup {None} : CP!RejectCode(given)

Nothing == UNCHANGED <<confVars, runs>>

Quiet == QuietOperation /\ runs' = runs

Asks ==
  /\ \E call \in CP!Calls : CP!Request(call)
  /\ runs' = IF Len(log') > Len(log) THEN Append(runs, 0) ELSE runs

Approves ==
  /\ \E given \in Codes \cup {None} : CP!ApproveLive(given)
  /\ runs' = [runs EXCEPT ![pending.id] = runs[pending.id] + 1]

LEMMA ManagerSteps == [Next]_vars => Nothing \/ Quiet \/ Asks \/ Approves
<1> SUFFICES ASSUME [Next]_vars PROVE Nothing \/ Quiet \/ Asks \/ Approves
  OBVIOUS
<1>1. ASSUME NEW next, Execute(next) PROVE Nothing \/ Quiet \/ Asks
  <2>1. CASE Refused(next)
    BY <2>1 DEF Refused, ghosts, Nothing
  <2>2. ASSUME NEW tool \in ActionTools, RunDirectly(tool, next) PROVE Nothing \/ Quiet
    BY <2>2, OneManager DEF RunDirectly, Nothing, Quiet, QuietOperation
  <2>3. ASSUME NEW tool \in ActionTools, Park(tool, next) PROVE Asks
    <3>1. PICK args \in Args : Conf!Request([tool |-> tool, args |-> args])
      BY <2>3 DEF Park
    <3>2. [tool |-> tool, args |-> args] \in CP!Calls
      BY <2>3 DEF Park, CP!Calls
    <3>3. CP!Request([tool |-> tool, args |-> args])
      BY <3>1, OneManager
    <3> QED
      BY <2>3, <3>2, <3>3 DEF Park, Asks
  <2> QED
    BY <1>1, <2>1, <2>2, <2>3 DEF Execute
<1>2. CASE FastExecute \/ AgentAction
  BY <1>1, <1>2 DEF FastExecute, AgentAction
<1>3. CASE UserText \/ AgentPrepare \/ AgentPlans \/ AgentDone \/ UNCHANGED vars
  BY <1>3 DEF UserText, AgentPrepare, AgentPlans, AgentDone, vars, ghosts, Nothing
<1>4. CASE CancelOrAsk \/ Tick
  BY <1>4, OneManager DEF CancelOrAsk, Tick, ghosts, Quiet, QuietOperation
<1>5. CASE Approve
  BY <1>5, OneManager DEF Approve, ghosts, Quiet, QuietOperation, Approves
<1> QED
  BY <1>2, <1>3, <1>4, <1>5 DEF Next

(* The registry drives the manager as the manager's specification says.    *)
LEMMA ManagerNext == [Next]_vars => [CP!ConfNext]_(CP!confVars)
BY ManagerSteps DEF Nothing, Quiet, QuietOperation, Asks, Approves, CP!ConfNext,
                    confVars, CP!confVars

LEMMA ManagerStep == CP!ConfInv /\ [Next]_vars => CP!ConfInv'
BY ManagerNext, Assumed, CP!ConfStep

(* Only a request lengthens the history.                                   *)
LEMMA QuietKeepsLength ==
  ASSUME CP!ConfInv, QuietOperation
  PROVE  Len(log') = Len(log)
<1>1. log \in Seq(CP!LogEntry) /\ Len(CP!CleanLog) = Len(log)
  BY Assumed, CP!CleanApprovesNothing DEF CP!ConfInv, CP!ConfTypeOK
<1>2. CASE CP!Tick \/ CP!Peek \/ CP!ApproveNothing
  BY <1>1, <1>2 DEF CP!Tick, CP!Peek, CP!ApproveNothing, CP!CleanExpired
<1>3. CASE CP!Cancel
  BY <1>1, <1>3 DEF CP!Cancel, CP!Settle
<1>4. CASE \E given \in Codes \cup {None} : CP!RejectCode(given)
  BY <1>1, <1>4 DEF CP!RejectCode
<1> QED
  BY <1>2, <1>3, <1>4 DEF QuietOperation

(* Each accepted request keeps its count of runs.                          *)
LEMMA RunsStep == CP!ConfInv /\ RunsCounted /\ [Next]_vars => RunsCounted'
<1> SUFFICES ASSUME CP!ConfInv, RunsCounted, [Next]_vars PROVE RunsCounted'
  OBVIOUS
<1> USE DEF RunsCounted, RunsOncePerApproval
<1>1. log \in Seq(CP!LogEntry) /\ log' \in Seq(CP!LogEntry)
  BY ManagerStep DEF CP!ConfInv, CP!ConfTypeOK
<1>2. CASE Nothing
  BY <1>2 DEF Nothing, confVars
<1>3. CASE Quiet
  <2>1. Len(log') = Len(log) /\ runs' = runs
    BY <1>3, QuietKeepsLength DEF Quiet
  <2>2. CP!SameApproved
    BY <1>3, Assumed, CP!OthersApproveNothing DEF Quiet, QuietOperation
  <2> QED
    BY <1>1, <2>1, <2>2 DEF CP!SameApproved
<1>4. CASE Asks
  <2>1. /\ CP!SameApproved
        /\ \/ Len(log') = Len(log)
           \/ Len(log') = Len(log) + 1 /\ log'[Len(log) + 1].outcome # "approved"
    BY <1>4, Assumed, CP!OthersApproveNothing DEF Asks
  <2>2. CASE Len(log') = Len(log)
    <3>1. runs' = runs
      BY <1>1, <1>4, <2>2 DEF Asks
    <3> QED
      BY <1>1, <2>1, <2>2, <3>1 DEF CP!SameApproved
  <2>3. CASE Len(log') = Len(log) + 1 /\ log'[Len(log) + 1].outcome # "approved"
    <3>1. runs' = Append(runs, 0)
      BY <1>1, <1>4, <2>3 DEF Asks
    <3>2. runs' \in Seq(Nat) /\ Len(runs') = Len(log')
      BY <1>1, <2>3, <3>1
    <3>3. ASSUME NEW i \in 1..Len(log')
          PROVE  runs'[i] = IF log'[i].outcome = "approved" THEN 1 ELSE 0
      <4>1. CASE i = Len(log) + 1
        BY <1>1, <2>3, <3>1, <4>1
      <4>2. CASE i \in 1..Len(log)
        BY <1>1, <2>1, <3>1, <4>2 DEF CP!SameApproved
      <4> QED
        BY <1>1, <2>3, <4>1, <4>2
    <3> QED
      BY <3>2, <3>3
  <2> QED
    BY <2>1, <2>2, <2>3
<1>5. CASE Approves
  <2>1. PICK given \in Codes \cup {None} : CP!ApproveLive(given)
    BY <1>5 DEF Approves
  <2>2. /\ pending.id \in DOMAIN log /\ log[pending.id].outcome = "open"
        /\ DOMAIN log' = DOMAIN log /\ log'[pending.id].outcome = "approved"
        /\ \A i \in DOMAIN log \ {pending.id} : log'[i] = log[i]
    BY <2>1, Assumed, CP!ApproveApproves
  <2>3. Len(log') = Len(log) /\ DOMAIN log = 1..Len(log)
    BY <1>1, <2>2
  <2>4. runs' = [runs EXCEPT ![pending.id] = 1] /\ runs' \in Seq(Nat) /\ Len(runs') = Len(log')
    <3>1. runs[pending.id] = 0
      BY <2>2, <2>3
    <3>2. runs' = [runs EXCEPT ![pending.id] = 1]
      BY <1>5, <3>1 DEF Approves
    <3> QED
      BY <2>2, <2>3, <3>2
  <2> QED
    BY <2>2, <2>3, <2>4
<1> QED
  BY <1>2, <1>3, <1>4, <1>5, ManagerSteps

(* What waits for an approval is a call of an action tool.                 *)
LEMMA ApprovedTool ==
  ASSUME CP!ConfInv, NEW given, Conf!ApproveLive(given)
  PROVE  pending.call.tool \in ActionTools
<1>1. pending # None
  BY OneManager DEF CP!ApproveLive, CP!Live
<1>2. pending \in CP!PendingAction
  BY <1>1 DEF CP!ConfInv, CP!ConfTypeOK
<1> QED
  BY <1>2, RegistryAssumption DEF CP!PendingAction, CP!Calls, RegistryAssumption

(* Every step of the registry keeps the bound.                             *)
LEMMA BoundStep == BoundInv /\ CP!ConfInv /\ [Next]_vars => BoundInv'
<1> SUFFICES ASSUME BoundInv, CP!ConfInv, [Next]_vars PROVE BoundInv'
  OBVIOUS
<1>1. CASE UserText \/ AgentPrepare
  BY <1>1, BeginKeeps, RegistryAssumption DEF UserText, AgentPrepare, RegistryAssumption
<1>2. CASE FastExecute \/ AgentAction
  BY <1>2, ExecuteKeeps DEF FastExecute, AgentAction
<1>3. CASE AgentPlans
  <2>1. PlanningTool /\ acted' = acted
    BY <1>3 DEF AgentPlans, ghosts
  <2>2. work \in Nat /\ acted \in Nat /\ (required => acted <= work)
    BY DEF BoundInv, RunsAreRecorded, PlanInv, PlanTypeOK
  <2> QED
    BY <2>1, <2>2, PlanningToolKeeps, PlanningCounts DEF BoundInv, RunsAreRecorded
<1>4. CASE Approve
  <2>1. acted' = acted
    BY <1>4 DEF Approve, ghosts
  <2>2. RecordAction \/ UNCHANGED planVars
    BY <1>4, ApprovedTool, HandlerRecords DEF Approve
  <2>3. PlanInv'
    BY <2>2, RecordActionKeeps, StepKeeps DEF BoundInv
  <2>4. work \in Nat /\ acted \in Nat
    BY DEF BoundInv, RunsAreRecorded, PlanInv, PlanTypeOK
  <2>5. CASE RecordAction
    BY <2>1, <2>3, <2>4, <2>5, RecordCounts DEF BoundInv, RunsAreRecorded, planVars
  <2>6. CASE UNCHANGED planVars
    BY <2>1, <2>3, <2>6 DEF BoundInv, RunsAreRecorded, planVars
  <2> QED
    BY <2>2, <2>5, <2>6
<1>5. CASE AgentDone \/ CancelOrAsk \/ Tick \/ UNCHANGED vars
  <2>1. UNCHANGED <<planVars, acted>>
    BY <1>5 DEF AgentDone, CancelOrAsk, Tick, vars, ghosts
  <2> QED
    BY <2>1, StepKeeps DEF BoundInv, RunsAreRecorded, planVars
<1> QED
  BY <1>1, <1>2, <1>3, <1>4, <1>5 DEF Next

(* The invariants of the plan, of the manager and of the history together  *)
(* hold in every reachable state.                                          *)
THEOREM RegistryInvariant == Spec => []RegistryInv
<1>1. Init => RegistryInv
  <2> SUFFICES ASSUME Init PROVE RegistryInv
    OBVIOUS
  <2>1. BoundInv
    BY InitHolds DEF Init, BoundInv, RunsAreRecorded, PlanInit
  <2>2. CP!ConfInv
    BY Assumed, CP!ConfInitInv DEF Init, Conf!ConfInit, CP!ConfInit
  <2>3. RunsCounted
    BY DEF Init, Conf!ConfInit, RunsCounted, RunsOncePerApproval
  <2> QED
    BY <2>1, <2>2, <2>3 DEF RegistryInv
<1>2. RegistryInv /\ [Next]_vars => RegistryInv'
  BY BoundStep, ManagerStep, RunsStep DEF RegistryInv
<1> QED
  BY <1>1, <1>2, PTL DEF Spec

(* Whatever is approved, repaired, replaced or refused: a required request *)
(* runs at most as many actions as its plan has steps and revisions        *)
(* (registry.py _validate_plan_precondition, tracker.py record_action).    *)
THEOREM ActionsBounded == Spec => []ActionsAreBounded
<1>1. BoundInv => ActionsAreBounded
  <2>1. ASSUME BoundInv, required PROVE acted <= limits.steps + limits.revisions
    <3>1. limits.steps \in Nat /\ limits.revisions \in Nat /\ work \in Nat /\ acted \in Nat
      BY <2>1, LimitTypes DEF BoundInv, RunsAreRecorded, PlanInv, PlanTypeOK
    <3>2. work <= limits.steps + limits.revisions
      BY <2>1, InvBoundsWork DEF BoundInv, WorkIsBounded
    <3> QED
      BY <2>1, <3>1, <3>2 DEF BoundInv, RunsAreRecorded
  <2> QED
    BY <2>1 DEF ActionsAreBounded
<1>2. RegistryInv => ActionsAreBounded
  BY <1>1 DEF RegistryInv
<1> QED
  BY <1>2, RegistryInvariant, PTL

(* An accepted request is executed exactly as often as it is approved:     *)
(* once or never, whatever else the callers do (registry.py                *)
(* handle_confirmation_command, manager.py approve).                       *)
THEOREM ApprovedRunsOnce == Spec => []RunsOncePerApproval
<1>1. RegistryInv => RunsOncePerApproval
  BY DEF RegistryInv, RunsCounted
<1> QED
  BY <1>1, RegistryInvariant, PTL

(* The registry implements the confirmation manager: each of its steps is  *)
(* one of the manager's or leaves the manager alone, so what is proved of  *)
(* the manager's specification holds of the manager inside the registry.   *)
THEOREM RegistryImplementsManager == Spec => CP!ConfSpec
<1>1. Init => CP!ConfInit
  BY DEF Init, Conf!ConfInit, CP!ConfInit
<1> QED
  BY <1>1, ManagerNext, PTL DEF Spec, CP!ConfSpec

(* The registry implements the plan tracker too: the tools' records, the   *)
(* requests' beginnings and the planning tools are its only steps on it.   *)
THEOREM RegistryImplementsTracker == Spec => PlanSpec
<1>1. CP!ConfInv /\ [Next]_vars => [PlanNext]_planVars
  <2> SUFFICES ASSUME CP!ConfInv, [Next]_vars PROVE RecordAction \/ PlanNext \/ UNCHANGED planVars
    BY DEF PlanNext
  <2>1. CASE UserText \/ AgentPrepare
    BY <2>1, RegistryAssumption DEF UserText, AgentPrepare, RegistryAssumption, PlanNext
  <2>2. ASSUME NEW next, Execute(next) PROVE RecordAction \/ UNCHANGED planVars
    <3>1. CASE Refused(next)
      BY <3>1 DEF Refused
    <3>2. CASE \E tool \in ActionTools : RunDirectly(tool, next) \/ Park(tool, next)
      BY <3>2, HandlerRecords DEF RunDirectly, Park
    <3> QED
      BY <2>2, <3>1, <3>2 DEF Execute
  <2>3. CASE FastExecute \/ AgentAction
    BY <2>2, <2>3 DEF FastExecute, AgentAction
  <2>4. CASE AgentPlans
    BY <2>4 DEF AgentPlans, PlanNext
  <2>5. CASE Approve
    BY <2>5, ApprovedTool, HandlerRecords DEF Approve
  <2>6. CASE AgentDone \/ CancelOrAsk \/ Tick \/ UNCHANGED vars
    BY <2>6 DEF AgentDone, CancelOrAsk, Tick, vars
  <2> QED
    BY <2>1, <2>3, <2>4, <2>5, <2>6 DEF Next
<1>2. Init => PlanInit
  BY DEF Init
<1>3. RegistryInv => CP!ConfInv
  BY DEF RegistryInv
<1> QED
  BY <1>1, <1>2, <1>3, RegistryInvariant, PTL DEF Spec, PlanSpec

=============================================================================
