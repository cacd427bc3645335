CONSTANTS
  a = a
  b = b
  p1 = p1
  p2 = p2
  p3 = p3
  p4 = p4
  p5 = p5
  x = x
  r1 = r1
  r2 = r2
  bad = bad
  v1 = v1
  v2 = v2
  act = act
  Scenario = {a, b}
  Slot = {x}
  Raw = {r1, r2}
  Value = {v1, v2}
  Transfer = transfer
  Action = {act, transfer}
  None = None
  Turn = {t1, t2, t3}
  Catalogs <- WorkflowCatalogs
  TopicLists <- WorkflowTopics
  ParamMaps <- WorkflowParams
  Intents = {"approve", "reject", "unknown"}
  Deliveries = {FALSE}
  HistoryLimit = 2
  PendingLimit = 1
  MaxUncertain = 2
  MaxInFlight = 1
SPECIFICATION Spec
PROPERTIES SimulatedAsPreviewed
CHECK_DEADLOCK FALSE
