\* The ARM target: does the playback thread copy the samples received?
SPECIFICATION Spec
CONSTANTS
  RING_BUFFER_FRAMES = 5
  PeriodFrames = 1
  StartFrames = 2
  MaxPacket = 2
  MaxSamples = 8
  Ordered = FALSE
INVARIANT PlayedInOrder
