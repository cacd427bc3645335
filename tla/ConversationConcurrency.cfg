CONSTANTS
  a = a
  b = b
  p1 = p1
  p2 = p2
  p3 = p3
  p4 = p4
  p5 = p5
  x = x
  r1 = r1
  r2 = r2
  bad = bad
  v1 = v1
  v2 = v2
  act = act
  Scenario = {a}
  Slot = {x}
  Raw = {r1}
  Value = {v1}
  Transfer = transfer
  Action = {transfer}
  None = None
  Turn = {t1, t2, t3}
  Catalogs <- PlainCatalogs
  TopicLists <- NoTopics
  ParamMaps <- NoParams
  Intents = {"unknown"}
  Deliveries = {TRUE, FALSE}
  HistoryLimit = 3
  PendingLimit = 1
  MaxUncertain = 2
  MaxInFlight = 2
SPECIFICATION Spec
INVARIANTS HistoryIsTrue
PROPERTIES NoLostUpdate InterruptedStaysUnheard
SYMMETRY TurnSymmetry
CHECK_DEADLOCK FALSE
