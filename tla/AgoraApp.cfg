\* Two runs of the program: the first may be killed and leave its agent behind.
CONSTANTS
  Interval = 2
  MaxTime = 5
  MaxRuns = 2
SPECIFICATION Spec
INVARIANTS TypeOK Released LeavesAgent Paced
PROPERTY StopEnds
CHECK_DEADLOCK FALSE
