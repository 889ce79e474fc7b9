\* Three commands, two signals at any point of init, run and stop, and a lost
\* connection.
SPECIFICATION FairSpec
CONSTANTS
  MaxCommands = 3
  MaxSignals = 2
  MaxLosses = 1
INVARIANTS
  TypeOK
  FollowsCommands
  QuietOnceStopped
  NoMissedNotify
PROPERTIES
  EveryCommandServed
  SignalEndsNode
\* An idle node waits for messages and signals, and a finished one stops.
CHECK_DEADLOCK FALSE
