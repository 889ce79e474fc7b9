\* Does a node whose connection was found again hear its commands?
SPECIFICATION FairSpec
CONSTANTS
  MaxCommands = 1
  MaxSignals = 0
  MaxLosses = 1
PROPERTY HearsAgain
\* An idle node waits for messages and signals.
CHECK_DEADLOCK FALSE
