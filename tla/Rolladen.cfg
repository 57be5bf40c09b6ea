SPECIFICATION FairSpec
CONSTANTS
  Laufzeit = 16
  MaxRekalib = 14
  Taster = 1
  Gruppen <- MCGruppen
  Busgruppen <- MCBusgruppen
  SetPositionen <- MCSetPositionen
  DefPositionen <- MCDefPositionen
  DirPause = 4
  PowerPause = 2
INVARIANTS BefehlPasst PositionInGrenzen
PROPERTIES SchontRelais FaehrtUndSteht
