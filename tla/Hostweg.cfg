CONSTANTS
  Programme <- MCProgramme
  Niemand = "niemand"
  MAX_PEERS = 2
  TIMEOUT = 1
  MaxSocket = 2
  hid = "hcanhid"
  KapHi = 8
  KapHost = 8
  MaxCan = 1
  Kunden <- MCKunden
  MAX_PEER = 1
  Zufall = {0}
  Vorraete <- MCVorraete
  MehrAlsEins = FALSE
SPECIFICATION HostwegSpec
INVARIANTS Unverfaelscht HoechstensEinmal EigeneAdresse
PROPERTY WiederAngemeldet
