CONSTANTS
  Call = {c1, c2}
  Session = {s1, s2}
  None = None
  Status <- Reports
  MaxConcurrent = 1
  MaxRetained = 1
SPECIFICATION FairSpec
INVARIANTS TypeOK BridgedOnce AgentRests EndedCallsRest ShutdownEndsCalls
PROPERTIES NeverBackwards EveryCallEnds
CHECK_DEADLOCK FALSE
