SPECIFICATION Spec
CONSTANTS
  a = a b = b z = z
  Blocks <- MCBlocks
  Source <- MCSource
  Zero = z
  Chunk = 2
  Limits <- MCLimits
  Unlimited = Unlimited
  Images <- MCImages
  NoMark = NoMark Torn = Torn
  MaxTrouble = 2
  c1 = c1 c2 = c2
  Callers <- MCCallers
  NoCaller = NoCaller
  Text = Text Binary = Binary
  PipeSize = 2
  MaxCalls = 4
  MaxNoise = 1
  p = p q = q x = x y = y
  Width = 3
  Paths <- MCPaths
  Letters <- MCLetters
  Logs <- MCLogs
  Panic = Panic
  MaxRows = 5
  MaxHarm = 1
  Base = 16
  Nibble = 4
  WordBytes = 2
  MaxExtract = 6
  WordTop = 32
  Containers = {27, 31} Stco = 29 Co64 = 30
  Signatures <- MCSignatures
  Mp4Types = {26, 27, 28}
  Overlap = 2
  MaxLength = 16
  MinLength = 3
  NoTable = NoTable
  MinEntry = 128
  MaxTable = 1024
  SectorBytes = 512
  Samples <- MCSamples
  Unread = Unread
  NoContent = NoContent Unreadable = Unreadable
CHECK_DEADLOCK FALSE
INVARIANTS NeverCrashes
