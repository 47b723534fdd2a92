CONSTANTS
  Sessions = {s1, s2}
  Inquiries = {i1}
  Handlers = {h1, h2}
  Deployments <- MCDeployments
  ReplayWindow = 0
  MaxTime = 1
  MaxEvents = 2
  MaxRestarts = 1
  None = None
  NoDoc = NoDoc
SPECIFICATION WebhookSpec
INVARIANTS
  VerifiedAsApproved
PROPERTIES
  DecisionArrives
CHECK_DEADLOCK FALSE
