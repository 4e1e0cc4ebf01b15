SPECIFICATION Spec
CONSTANTS
  Modulus = 64
  Kilo = 2
  WordSize = 2
  Byte = 2
  DefaultLength = 1
  MAXARGS = 2
  LongMod = 1048576
  IntMod = 65536
  ShortMod = 256
  PtrDigits = 5
  UnitBits = 2
  Thousand = 10
  MaxText = 4
  MaxLine = 5
  MaxName = 4
  MaxString = 3
  Table <- MCTable
  Symbols <- MCSymbols
  Values <- MCValues
  Objects <- MCObjects
  Gate <- MCGate
  Sources <- MCSources
INVARIANTS   StringsAgree   RewritesAgree ConfigurationKept RebuildComplete 
