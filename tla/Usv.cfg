\* Short times in the proportions of the code: the rest on the battery is
\* shorter than the time before switching back.
SPECIFICATION UsvFairSpec
CONSTANTS
  T_BAT = 6
  T_NETZ = 2
  ZURUECK = 3
  TAKT = 4
PROPERTIES PrelltNicht WartetAufNetz VersorgungKommt
