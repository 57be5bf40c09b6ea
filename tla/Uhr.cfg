SPECIFICATION UhrSpec
CONSTANTS
  SEK = 8
  MIN = 2
  STD = 3
  WOCHE = 2
  Monate = 2
  Tage <- MCTageKurz
  Jahre <- MCJahre
  Wrap = 32
  ByteMax = 2
  Echtzeiten <- MCEchtzeitenWenige
INVARIANTS UhrTypeOK
PROPERTIES SynchronBleibt
