SPECIFICATION Spec
CONSTANTS
  Size = 4
  Block = 2
  QuickLimit = 3
  MaxRecords = 3
  MaxOutput = 9
  MaxResults = 9
  FirstRead = 1
  MaxCandidate = 3
  MaxReads = 9
  Sources <- MCSources
  Damage <- Undamaged
  Modes <- DriveMode
INVARIANTS CompleteMeansAll
CHECK_DEADLOCK FALSE
