CONSTANTS
  Key = {k1}
  Report = {"ringing", "connected", "completed"}
  MaxStarts = 1
  MaxLines = 1
  MaxCloses = 0
SPECIFICATION OutboundSpec
INVARIANTS CallbackEndsCall
CHECK_DEADLOCK FALSE
