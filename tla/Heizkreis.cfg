CONSTANTS
  k <- MCk
  BYTE = 5
  TAKT = 1
  HEIZSTOP = 6
  BEDARF = 2
  VERZUG = 4
  PFLEGE = 5
  REED = 2
  INTERVALL = 3
  MAX_ANZ_HEIZUNGEN = 3
  EINSCHALT_SCHWELLE = 10
  AUSSCHALT_SCHWELLE = 5
  Befehle <- MCBefehle
  Temperaturen <- MCTemperaturen
  Uhrzeiten <- MCUhrzeiten
  uhr0 <- Werktag
  Zonen <- MCZonen
  Zone = 1
  zone0 <- Nachts
  temps0 <- MCtemps
  Andere = {2, 3}
  Raten = {0, 60, 100}
  Gruppe = 1
  Start = {4}
  Vorraete <- MCVorraete
SPECIFICATION Spec
INVARIANT FensterOffenZu
PROPERTIES Regelt PumpeFolgt
