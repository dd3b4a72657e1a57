SPECIFICATION FairSpec
CONSTANTS
  None = None
  Clients = {viewer, other}
  Workers = {w1, w2}
  Inputs = {i}
  Outputs = {o}
  Troubled = {other}
  MaxFaults = 1
  foreman = foreman
  viewer = viewer
  Account <- MCAccount
  Viewers <- MCViewers
INVARIANTS TypeOK EndToEnd FailsOnlyByFault
PROPERTIES PostedEnds ImplementsLifecycle
CHECK_DEADLOCK FALSE
