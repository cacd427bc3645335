CONSTANTS
  a = a
  b = b
  p1 = p1
  p2 = p2
  p3 = p3
  p4 = p4
  p5 = p5
  x = x
  r1 = r1
  r2 = r2
  bad = bad
  v1 = v1
  v2 = v2
  act = act
  Scenario = {a, b, p1, p2, p3, p4, p5}
  Slot = {x}
  Raw = {r1}
  Value = {v1}
  Transfer = transfer
  Action = {transfer}
  None = None
  Turn = {t1, t2}
  Catalogs <- TopicCatalogs
  TopicLists <- FiveTopics
  ParamMaps <- NoParams
  Intents = {"unknown"}
  Deliveries = {FALSE}
  HistoryLimit = 4
  PendingLimit = 5
  MaxUncertain = 2
  MaxInFlight = 1
SPECIFICATION Spec
PROPERTIES LeftTopicIsPending
CHECK_DEADLOCK FALSE
