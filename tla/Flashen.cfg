SPECIFICATION FairSpec
CONSTANTS
  Bloecke = 2
  Zeilen = 2
  ProZeile = 2
  Versuche = 2
  Versionen <- MCVersionen
  Neue <- MCNeue
  MaxStoerung = 2
  MaxBefehle = 1
INVARIANTS ErfolgHeisstGleich SpringtRichtig BootetNurGanzes
PROPERTIES KommtZumEnde
CHECK_DEADLOCK FALSE
