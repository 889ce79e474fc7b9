\* One message and one signal are enough for the two threads to meet.
SPECIFICATION Spec
CONSTANTS
  MaxMessages = 1
  MaxSignals = 1
  MaxLosses = 1
INVARIANT SafeExit
\* A program that has ended stops.
CHECK_DEADLOCK FALSE
