SPECIFICATION FairSpec
CONSTANTS
  command = command scan = scan
  f1 = f1 f2 = f2
  NoTask = NoTask NoFolder = NoFolder
  Daemon = Daemon
  Commands <- MCCommands
  Scans <- MCScans
  Folders <- OneFolder
  Interval = 2
  MayPanic = FALSE
  MaxRestarts = 0
PROPERTIES FailuresSpaced
