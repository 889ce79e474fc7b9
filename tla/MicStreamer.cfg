\* Two sessions, every failure, a queue of two periods: it overflows, and a
\* stop leaves periods in it for the next session. A frame and a period are of
\* different lengths, so that the cache keeps a rest.
SPECIFICATION FairSpec
CONSTANTS
  max_queue_size_ = 2
  PeriodBlocks = 2
  FrameBlocks = 3
  Failures = {"open", "init", "read", "encode"}
  MaxPeriods = 3
  MaxSessions = 2
INVARIANTS
  TypeOK
  QueuesHoldNewest
  OpenWhileUsed
  NoMissedNotify
PROPERTIES
  InCaptureOrder
  EveryPeriodServed
  CleanStopReturns
\* After an encoder failure a stop may hang: see MicStreamerHang.cfg.
CHECK_DEADLOCK FALSE
