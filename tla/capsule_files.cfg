SPECIFICATION Spec
CONSTANTS
  a = a b = b w = w
  small = small large = large
  NoFile = NoFile
  Folders = {f1}
  Paths = {p1, p2}
  Contents <- MCContents
  Objects <- MCObjects
  ChunksOf <- MCChunksOf
  WholeOf <- MCWholeOf
  BytesOf <- MCBytesOf
  Policies <- KeepTwo
  LegacyTrees <- SomeLegacy
  MaxSnapshots = 3
  MaxFaults = 1
  ClockMayRegress = FALSE
INVARIANTS ResultVerified
PROPERTIES CleanupComplete ForgetsOlder RetentionExact
