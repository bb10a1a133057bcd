SPECIFICATION FairSpec
CONSTANTS
  a = a b = b w = w
  small = small large = large
  NoFile = NoFile
  Folders = {f1, f2}
  Paths = {p1}
  Contents <- MCContents
  Objects <- MCObjects
  ChunksOf <- MCChunksOf
  WholeOf <- MCWholeOf
  BytesOf <- MCBytesOf
  Policies <- TwoPolicies
  LegacyTrees <- NoLegacy
  MaxSnapshots = 2
  MaxFaults = 1
  ClockMayRegress = TRUE
INVARIANTS PointsBacked ProtectedHasPoint
PROPERTIES PausePersists WithinBudget PointsSpec OperationsEnd
