SPECIFICATION AuthoritySpec
CONSTANTS
  note = note
  event = event
  Tools = {note, event}
  HighRisk = {event}
  Args = {a1, a2}
  Ttl <- MCTtl
  Codes = {c1, c2}
  MaxAttempts = 2
  None = None
  MaxTime = 3
  MaxRequests = 2
  ActionTools = {click, fill}
  Failures = {stale, denied}
  Recoverable = {stale}
  Limits <- MCLimits
  NoTool = NoTool
INVARIANTS
  ApprovedLegally
  OpenIsHeld
  StepsInOrder
  RepairIsPossible
  CompletedPassesAudit
  WorkEnds
PROPERTIES
  SettledOnce
  DeadlineFixed
  EvidencePreserved
  ClosedStaysClosed
