SPECIFICATION Spec
CONSTANTS
  click = click
  event = event
  ActionTools = {click, event}
  Failures = {stale, denied}
  Recoverable = {stale}
  Limits <- MCLimits
  NoTool = NoTool
  Gated = {event}
  HighRisk = {event}
  Args = {a1}
  Ttl <- MCTtl
  Codes = {c1}
  MaxAttempts = 2
  MaxTime = 2
  MaxRequests = 2
  Enabled = TRUE
  FastLimits <- MCFastLimits
  AgentLimits <- MCAgentLimits
  None = None
INVARIANT NoActionWhileRepairing
