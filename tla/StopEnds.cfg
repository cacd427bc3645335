CONSTANTS
  MaxRequests = 2
SPECIFICATION RunnerFairSpec
PROPERTIES StopEnds
CHECK_DEADLOCK FALSE
