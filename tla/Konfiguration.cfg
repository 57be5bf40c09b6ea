SPECIFICATION KFair
CONSTANTS
  EdsStart = 2
  EdsEnd = 14
  FormatMax = 4
  ByteMax = 7
  Magic1 = 4
  Magic2 = 6
  Typen <- MCTypen
  Groessen <- MCGroessen
  Werte <- MCWerte
  Bekannt <- MCBekannt
  ConfigSize <- MCConfigSize
  MaxPdevice = 9
INVARIANTS TypeOK KetteHeil
PROPERTIES LaedtAlle HaeltBloecke WirdFertig
