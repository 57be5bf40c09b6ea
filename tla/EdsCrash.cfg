SPECIFICATION SpecCrash
CONSTANTS
  EdsStart = 1
  EdsEnd = 12
  FormatMax = 4
  ByteMax = 7
  Magic1 = 5
  Magic2 = 6
  Typen = {1}
  Groessen = {0, 3}
  Werte = {2}
INVARIANTS MagicHeisstFormatiert
