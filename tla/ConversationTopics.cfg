CONSTANTS
  a = a
  b = b
  p1 = p1
  p2 = p2
  p3 = p3
  p4 = p4
  p5 = p5
  x = x
  r1 = r1
  r2 = r2
  bad = bad
  v1 = v1
  v2 = v2
  act = act
  Scenario = {a, b, p1}
  Slot = {x}
  Raw = {r1}
  Value = {v1}
  Transfer = transfer
  Action = {transfer}
  None = None
  Turn = {t1, t2}
  Catalogs <- EditedTopics
  TopicLists <- WorkflowTopics
  ParamMaps <- NoParams
  Intents = {"unknown"}
  Deliveries = {TRUE, FALSE}
  HistoryLimit = 3
  PendingLimit = 1
  MaxUncertain = 2
  MaxInFlight = 2
SPECIFICATION FairSpec
INVARIANTS TopicsOK
PROPERTIES TopicsKept EveryTurnEnds
CHECK_DEADLOCK FALSE
