------------------------------ MODULE AgentTurn ------------------------------
(***************************************************************************)
(* One request to the language model (src/src/llm/agent.py ask, ask_stream *)
(* and the delegation of src/src/model_routing/router.py): rounds of a     *)
(* response and of the tools it calls, until a response calls none.  The   *)
(* text of a streamed response is heard while it arrives and taken back    *)
(* when it turns out to precede a tool call.                               *)
(*                                                                         *)
(* The model is external; it calls whatever it likes, except that it obeys *)
(* a forced tool choice.  The tools are those of ToolRegistry.             *)
(***************************************************************************)
EXTENDS Integers, Sequences

CONSTANTS
  MaxToolRounds,     \* max_tool_rounds
  MaxDelegations,    \* max_delegations_per_turn
  RoutingEnabled, AllowUserOverride, AllowAutomatic,  \* the routing configuration
  UseMemory,         \* use_memory: a turn continues the one before
  MaxCalls, MaxTurns \* bounds: calls in a response, turns

ASSUME AgentAssumption ==
  /\ MaxToolRounds \in Nat /\ MaxDelegations \in Nat \ {0} /\ MaxCalls \in Nat \ {0} /\ MaxTurns \in Nat
  /\ {RoutingEnabled, AllowUserOverride, AllowAutomatic, UseMemory} \subseteq BOOLEAN

Tiers == {"balanced", "strong"}
NoTier == "none"

VARIABLES
  ask,       \* where the turn is: idle, request, stream, execute, replied or failed
  round,     \* round_index
  streamed,  \* ask_stream rather than ask
  explicit,  \* the tier the user asked for
  delegations,   \* the delegations of the turn
  emitted, cancelled, seen,  \* of the round: emitted_text, cancelled_text, function_call_seen
  calls,     \* function calls still to be executed
  heard,     \* the rounds whose text reached the listener and was not taken back
  parent,    \* _previous_response_id: the turn it belongs to
  turns      \* turns so far

agentVars == <<ask, round, streamed, explicit, delegations, emitted, cancelled, seen, calls, heard,
               parent, turns>>
ofTurn    == <<streamed, explicit, parent, turns>>
ofRound   == <<emitted, cancelled, seen>>

AgentInit ==
  /\ ask = "idle" /\ round = 0 /\ streamed = FALSE /\ explicit = NoTier /\ delegations = <<>>
  /\ emitted = FALSE /\ cancelled = FALSE /\ seen = FALSE
  /\ calls = <<>> /\ heard = {} /\ parent = 0 /\ turns = 0

(* _prepare_request and begin_turn; a request is recognised only when the  *)
(* user may override.                                                      *)
BeginTurn(stream, asked) ==
  /\ ask \in {"idle", "replied", "failed"} /\ turns < MaxTurns
  /\ turns' = turns + 1 /\ streamed' = stream
  /\ explicit' = IF AllowUserOverride THEN asked ELSE NoTier
  /\ delegations' = <<>> /\ round' = 0 /\ calls' = <<>> /\ heard' = {}
  /\ ask' = "request"
  /\ UNCHANGED <<ofRound, parent>>

-----------------------------------------------------------------------------
(* Mutant: the choice is left to the model.                                *)
NeverForced == FALSE

(* forced_tool_choice: until a delegation was tried.                       *)
Forced == RoutingEnabled /\ explicit # NoTier /\ delegations = <<>>

(* _request_tools offers the delegation while there is budget for it.      *)
Offered == {"tool"} \cup IF RoutingEnabled /\ Len(delegations) < MaxDelegations
                         THEN {"delegate"} ELSE {}

(* What a response may call; a name that was not offered is refused later. *)
Responses(forced) ==
  IF forced THEN {<<"delegate">>}
  ELSE UNION {[1..n -> Offered] : n \in 0..MaxCalls}

(* The request is sent, or raises.                                         *)
SendRequest ==
  /\ ask = "request"
  /\ emitted' = FALSE /\ cancelled' = FALSE /\ seen' = FALSE
  /\ ask' \in {"stream", "failed"}
  /\ UNCHANGED <<round, delegations, calls, heard, ofTurn>>

-----------------------------------------------------------------------------
(* The events of a stream (_consume_response_stream).                      *)

(* Text after a function call of the same response is not passed on.       *)
TextDelta ==
  /\ ask = "stream" /\ streamed
  /\ IF seen THEN UNCHANGED <<emitted, heard>>
     ELSE emitted' = TRUE /\ heard' = heard \cup {round}
  /\ UNCHANGED <<ask, round, delegations, calls, cancelled, seen, ofTurn>>

FunctionEvent ==
  /\ ask = "stream" /\ streamed
  /\ seen' = TRUE
  /\ IF emitted /\ ~cancelled THEN cancelled' = TRUE /\ heard' = {}
     ELSE UNCHANGED <<cancelled, heard>>
  /\ UNCHANGED <<ask, round, delegations, calls, emitted, ofTurn>>

(* Mutant: text is not taken back at the end of a round.                   *)
TakenBackOnlyAtEvents(wasEmitted) == heard

TakenBack(wasEmitted) == IF wasEmitted THEN {} ELSE heard

(* The reply, from which a later turn goes on.                            *)
Replies ==
  /\ ask' = "replied" /\ parent' = IF UseMemory THEN turns ELSE parent
  /\ UNCHANGED calls

(* The calls are executed, unless it is one round too many.                *)
CallsTools(answer) ==
  /\ ask' = IF round < MaxToolRounds THEN "execute" ELSE "failed"
  /\ calls' = IF round < MaxToolRounds THEN answer ELSE <<>>
  /\ UNCHANGED parent

(* The streamed response is complete.  Without calls all of its text is    *)
(* passed on if none was; with calls what was heard of it is taken back.   *)
ResponseStreamed(answer) ==
  /\ ask = "stream" /\ streamed /\ (seen => answer # <<>>)
  /\ IF answer = <<>> THEN Replies /\ heard' = heard \cup {round}
     ELSE CallsTools(answer) /\ heard' = TakenBack(emitted)
  /\ UNCHANGED <<round, delegations, ofRound, streamed, explicit, turns>>

(* ask gets the response as a whole.                                       *)
ResponseReturned(answer) ==
  /\ ask = "stream" /\ ~streamed
  /\ IF answer = <<>> THEN Replies ELSE CallsTools(answer)
  /\ UNCHANGED <<round, delegations, heard, ofRound, streamed, explicit, turns>>

(* The stream reports an error, breaks off or ends without a response.     *)
ResponseFails ==
  /\ ask = "stream" /\ ask' = "failed"
  /\ UNCHANGED <<round, delegations, calls, heard, ofRound, ofTurn>>

-----------------------------------------------------------------------------
(* One call after the other (_execute_function_call); whatever it raises   *)
(* becomes its output.                                                     *)

(* The user's choice of a tier goes before the model's.                    *)
TierOf(tier) == IF explicit # NoTier THEN explicit ELSE tier

NextCall == calls' = Tail(calls) /\ UNCHANGED <<ask, round, heard, ofRound, ofTurn>>

ExecuteTool ==
  /\ ask = "execute" /\ calls # <<>> /\ Head(calls) = "tool"
  /\ NextCall /\ UNCHANGED delegations

(* delegate: a try counts whether or not the stronger model answers; whether *)
(* a failure is raised or reported makes no difference here.               *)
Delegate(tier, answers) ==
  /\ ask = "execute" /\ calls # <<>> /\ Head(calls) = "delegate"
  /\ Len(delegations) < MaxDelegations
  /\ explicit # NoTier \/ AllowAutomatic
  /\ delegations' = Append(delegations, [tier |-> TierOf(tier), success |-> answers])
  /\ NextCall

(* No budget, no automatic escalation, or arguments that are not accepted: *)
(* nothing is recorded.                                                    *)
DelegationRefused ==
  /\ ask = "execute" /\ calls # <<>> /\ Head(calls) = "delegate"
  /\ NextCall /\ UNCHANGED delegations

(* The listener of tool events raises, before a tool or after it: the      *)
(* runtime's does when its state machine refuses the tool.                 *)
ListenerRaises ==
  /\ ask = "execute"
  /\ ask' = "failed" /\ calls' = <<>>
  /\ UNCHANGED <<round, delegations, heard, ofRound, ofTurn>>

NextRound ==
  /\ ask = "execute" /\ calls = <<>>
  /\ round' = round + 1 /\ ask' = "request"
  /\ UNCHANGED <<delegations, calls, heard, ofRound, ofTurn>>

(* reset_conversation.                                                     *)
ResetConversation ==
  /\ ask \in {"idle", "replied", "failed"} /\ parent # 0
  /\ parent' = 0
  /\ UNCHANGED <<ask, round, streamed, explicit, delegations, ofRound, calls, heard, turns>>

AgentNext ==
  \/ \E stream \in BOOLEAN, asked \in Tiers \cup {NoTier} : BeginTurn(stream, asked)
  \/ SendRequest \/ TextDelta \/ FunctionEvent
  \/ \E answer \in Responses(Forced) : ResponseStreamed(answer) \/ ResponseReturned(answer)
  \/ ResponseFails \/ ExecuteTool \/ ListenerRaises
  \/ \E tier \in Tiers, answers \in BOOLEAN : Delegate(tier, answers)
  \/ DelegationRefused \/ NextRound \/ ResetConversation

AgentSpec == AgentInit /\ [][AgentNext]_agentVars

-----------------------------------------------------------------------------
(* What the listener has been given when the reply is there is text of the *)
(* last response and of no other: everything said before a tool call was   *)
(* taken back, although text and calls arrive in any order (llm/agent.py   *)
(* _consume_response_stream, ask_stream).                                  *)
HeardIsTheReply == ask = "replied" /\ streamed => heard = {round}

(* A reply to a user who asked for a stronger model comes only after that  *)
(* model was tried, and every delegation of the turn went to the tier that *)
(* was asked for, whatever the model chose (router.py forced_tool_choice,  *)
(* delegate; llm/agent.py _request_tool_choice).                           *)
ExplicitRequestHonoured ==
  /\ \A i \in DOMAIN delegations : explicit # NoTier => delegations[i].tier = explicit
  /\ ask = "replied" /\ RoutingEnabled /\ explicit # NoTier => delegations # <<>>

=============================================================================
