\* The ARM target: stores and loads are reordered. The positions, the threads
\* and the shutdown do not depend on the order.
SPECIFICATION FairSpec
CONSTANTS
  RING_BUFFER_FRAMES = 4
  PeriodFrames = 1
  StartFrames = 2
  MaxPacket = 2
  MaxSamples = 7
  Ordered = FALSE
INVARIANTS
  TypeOK
  PositionsAgree
  ThreadGoneBeforeFree
PROPERTIES
  BufferedIsPlayed
  ShutdownCompletes
