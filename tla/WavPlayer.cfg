\* Three commands over two formats, files that cannot be played, devices that
\* do not open, and the end of the player at any time.
SPECIFICATION FairSpec
CONSTANTS
  Formats = {"stereo48k", "mono16k"}
  MaxCommands = 3
INVARIANTS
  TypeOK
  LoadedMeansReady
  NoMissedNotify
PROPERTIES
  WaitingPlayStarts
  CloseReturns
