SPECIFICATION Spec
CONSTANTS
  f = f g = g x = x y = y z = z
  Files <- MCFiles
  Blocks <- MCBlocks
  Magic <- MCMagic
  Manifests <- SomePoints
  Forms <- AllForms
  Legacy = Legacy
  Absent = Absent Irregular = Irregular Undecodable = Undecodable
  Nothing = Nothing Mine = Mine Torn = Torn
  NoFile = NoFile NoObject = NoObject
  MaxFaults = 2
INVARIANTS DestExact DeliveredWhole AuditExact
