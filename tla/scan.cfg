SPECIFICATION Spec
CONSTANTS
  Size = 4
  Block = 3
  QuickLimit = 3
  MaxRecords = 3
  MaxOutput = 5
  MaxResults = 3
  FirstRead = 1
  MaxCandidate = 3
  MaxReads = 6
  Sources <- MCSources
  Damage <- SomeDamage
  Modes <- AllModes
INVARIANTS BudgetKept NothingTwice SoundMeansAll
PROPERTIES ScanEnds
CHECK_DEADLOCK FALSE
