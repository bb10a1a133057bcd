SPECIFICATION FairSpec
CONSTANTS
  command = command scan = scan
  f1 = f1 f2 = f2
  NoTask = NoTask NoFolder = NoFolder
  Daemon = Daemon
  Commands <- MCCommands
  Scans <- MCScans
  Folders <- TwoFolders
  Interval = 2
  MayPanic = TRUE
  MaxRestarts = 1
INVARIANTS GateExclusive StopReachesItsOwn PausedLeftAlone
PROPERTIES AttemptsSpaced GateReleased ScheduleServed
