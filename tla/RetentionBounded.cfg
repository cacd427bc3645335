CONSTANTS
  Call = {c1, c2}
  Session = {s1}
  None = None
  Status <- Reports
  MaxConcurrent = 2
  MaxRetained = 1
SPECIFICATION Spec
INVARIANTS RetentionBounded
CHECK_DEADLOCK FALSE
