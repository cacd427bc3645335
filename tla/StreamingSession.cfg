CONSTANTS
  Turn = {t1, t2}
  None = None
  MaxTurns = 2
  QueueSize = 2
  MinAudio = 1
  MaxAudio = 2
  MaxChunks = 1
  MaxMessages = 5
  Messages <- Everything
SPECIFICATION FairSpec
INVARIANTS TypeOK AskedOnce HeardWasPlayed NoOrphanDelivery
PROPERTIES AudioIntact NothingAfterInterrupt CommittedIsForwarded EveryTaskEnds
CHECK_DEADLOCK FALSE
