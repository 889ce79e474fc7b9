\* Does a stop return after the encoder has failed?
SPECIFICATION FairSpec
CONSTANTS
  max_queue_size_ = 2
  PeriodBlocks = 1
  FrameBlocks = 1
  Failures = {"encode"}
  MaxPeriods = 2
  MaxSessions = 1
PROPERTY StopReturns
CHECK_DEADLOCK FALSE
