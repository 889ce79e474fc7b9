\* Does every play start?
SPECIFICATION FairSpec
CONSTANTS
  Formats = {"stereo48k"}
  MaxCommands = 2
PROPERTY PlayStarts
