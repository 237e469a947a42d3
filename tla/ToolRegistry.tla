---------------------------- MODULE ToolRegistry ----------------------------
(***************************************************************************)
(* The tool registry (src/src/tools/registry.py) joins the confirmation    *)
(* manager and the task plan: it refuses an action the plan does not       *)
(* allow, parks a gated tool until the user approves it, runs handlers and *)
(* records what they did as evidence.  Its callers are the fast path       *)
(* (src/src/fastpath/router.py), which handles the user's short commands,  *)
(* and the agent (src/src/llm/agent.py), which calls tools in rounds.      *)
(*                                                                         *)
(* Everything runs on the main thread: `turn' is the caller at work, and a *)
(* tool call is one action.  A handler's own effect is its outcome.        *)
(***************************************************************************)
EXTENDS PlanTracker

CONSTANTS
  Gated,        \* action tools with a confirmation requirement
  HighRisk,     \* the gated tools of risk HIGH
  Args, Ttl, Codes, MaxAttempts, MaxTime, MaxRequests,  \* see Confirmation
  Enabled,      \* confirmations.enabled
  FastLimits,   \* what match() of the fast path begins a request with
  AgentLimits,  \* the planning limits of the agent's configuration
  None          \* no pending action, no code

VARIABLES
  now, pending, log,  \* the confirmation manager
  turn,   \* who is calling tools: nobody, the fast path or the agent
  runs,   \* history: how often each accepted request has been executed
  acted,  \* history: direct runs of action tools in a required request
  last    \* history: the last run of an action tool

Conf == INSTANCE Confirmation WITH Tools <- Gated

ASSUME RegistryAssumption ==
  /\ Conf!ConfirmationAssumption
  /\ Gated \subseteq ActionTools
  /\ Enabled \in BOOLEAN
  /\ FastLimits \in Limits
  /\ AgentLimits \in Limits

confVars == <<now, pending, log>>
ghosts == <<runs, acted, last>>
vars == <<planVars, confVars, turn, ghosts>>

Runs == [tool : ActionTools \cup {NoTool}, via : {"nobody", "direct", "approval"},
         required : BOOLEAN, status : PlanStatus]

TypeOK ==
  /\ PlanTypeOK
  /\ Conf!ConfTypeOK
  /\ turn \in {"nobody", "fast", "agent"}
  /\ runs \in Seq(Nat) /\ Len(runs) = Len(log)
  /\ acted \in Nat
  /\ last \in Runs

Init ==
  /\ PlanInit
  /\ limits = FastLimits
  /\ Conf!ConfInit
  /\ turn = "nobody"
  /\ runs = <<>>
  /\ acted = 0
  /\ last = [tool |-> NoTool, via |-> "nobody", required |-> FALSE,
             status |-> "idle"]

-----------------------------------------------------------------------------

(* Mutant: only a missing plan stops an action.                            *)
PreconditionPlanned == required => status # "required"

(* _validate_plan_precondition: outside a required request every action is *)
(* allowed; inside one only while a step is being worked on.               *)
Precondition == required => status \notin {"required", "repairing", "failed",
                                           "abandoned", "completed"}

(* _execute_handler for an action tool: the handler runs, then the tracker *)
(* records the outcome.  While the plan waits for a repair record_action   *)
(* raises, and the exception leaves the registry after the effect.         *)
RecordRaises == status = "repairing"

Handler(tool, via) ==
  /\ \/ RecordVerified
     \/ \E failure \in Failures : RecordFailure(tool, failure)
     \/ RecordIgnored
  /\ last' = [tool |-> tool, via |-> via, required |-> required,
              status |-> status]

(* execute() of an action tool, for the caller that goes on with `next'.   *)
Refused(next) ==
  /\ ~Precondition
  /\ turn' = next
  /\ UNCHANGED <<planVars, confVars, ghosts>>

(* An exception ends the turn; the runtime's recovery cancels whatever     *)
(* still waits for an approval (runtime.py, _recover).                     *)
RunDirectly(tool, next) ==
  /\ Precondition
  /\ tool \notin Gated \/ ~Enabled
  /\ Handler(tool, "direct")
  /\ acted' = IF required THEN acted + 1 ELSE acted
  /\ UNCHANGED runs
  /\ IF RecordRaises
     THEN Conf!Cancel /\ turn' = "nobody"
     ELSE UNCHANGED confVars /\ turn' = next

Park(tool, next) ==
  /\ Precondition
  /\ tool \in Gated /\ Enabled
  /\ \E args \in Args : Conf!Request([tool |-> tool, args |-> args])
  /\ runs' = IF Len(log') > Len(log) THEN Append(runs, 0) ELSE runs
  /\ turn' = next
  /\ UNCHANGED <<planVars, acted, last>>

Execute(next) ==
  \/ Refused(next)
  \/ \E tool \in ActionTools : RunDirectly(tool, next) \/ Park(tool, next)

-----------------------------------------------------------------------------

(* A text that is no confirmation command: the fast path begins a request  *)
(* of its own, then runs one tool or hands the text to the agent, which    *)
(* begins the request again.                                               *)
UserText ==
  /\ turn = "nobody"
  /\ BeginRequest(FALSE, FastLimits)
  /\ acted' = 0
  /\ turn' = "fast"
  /\ UNCHANGED <<confVars, runs, last>>

FastExecute == turn = "fast" /\ Execute("nobody")

AgentPrepare ==
  /\ turn = "fast"
  /\ \E need \in BOOLEAN : BeginRequest(need, AgentLimits)
  /\ acted' = 0
  /\ turn' = "agent"
  /\ UNCHANGED <<confVars, runs, last>>

AgentAction == turn = "agent" /\ Execute("agent")

(* A planning tool runs as any other; the tracker's refusals are results.  *)
AgentPlans ==
  /\ turn = "agent"
  /\ PlanningTool
  /\ UNCHANGED <<confVars, turn, ghosts>>

AgentDone ==
  /\ turn = "agent"
  /\ turn' = "nobody"
  /\ UNCHANGED <<planVars, confVars, ghosts>>

(* The confirmation commands bypass begin_request: approve, cancel, status.*)
Approve ==
  /\ turn = "nobody"
  /\ \E given \in Codes \cup {None} :
       \/ /\ Conf!ApproveLive(given)
          /\ Handler(pending.call.tool, "approval")
          /\ runs' = [runs EXCEPT ![pending.id] = runs[pending.id] + 1]
          /\ UNCHANGED <<turn, acted>>
       \/ /\ Conf!RejectCode(given) \/ Conf!ApproveNothing
          /\ UNCHANGED <<planVars, turn, ghosts>>

CancelOrAsk ==
  /\ turn = "nobody"
  /\ Conf!Cancel \/ Conf!Peek
  /\ UNCHANGED <<planVars, turn, ghosts>>

Tick ==
  /\ Conf!Tick
  /\ UNCHANGED <<planVars, turn, ghosts>>

Next ==
  \/ UserText \/ FastExecute
  \/ AgentPrepare \/ AgentAction \/ AgentPlans \/ AgentDone
  \/ Approve \/ CancelOrAsk
  \/ Tick

Spec == Init /\ [][Next]_vars

-----------------------------------------------------------------------------

(* An accepted request is executed at most once, and exactly when its      *)
(* outcome is "approved": neither asking again, a wrong code, a new user   *)
(* request nor a failed plan executes it twice or loses the execution.     *)
RunsOncePerApproval ==
  \A i \in 1..Len(log) :
    runs[i] = IF log[i].outcome = "approved" THEN 1 ELSE 0

(* A required request runs a bounded number of actions on its own: the     *)
(* precondition and the repair budget together stop the agent's rounds.    *)
ActionsAreBounded ==
  required => acted <= limits.steps + limits.revisions

(* "The current plan step requires repair before another action tool."     *)
(* (tracker.py, record_action)                                             *)
NoActionWhileRepairing ==
  last.via # "nobody" => last.status # "repairing"

=============================================================================
