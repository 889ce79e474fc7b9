\* A machine that keeps program order: what is played is what was received.
\* Six slots, periods of two, packets of up to three samples: 14 samples wrap
\* both positions twice.
SPECIFICATION FairSpec
CONSTANTS
  RING_BUFFER_FRAMES = 6
  PeriodFrames = 2
  StartFrames = 4
  MaxPacket = 3
  MaxSamples = 14
  Ordered = TRUE
INVARIANT PlayedInOrder
PROPERTY ImplementsFifo
