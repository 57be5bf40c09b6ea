SPECIFICATION FairSpec
CONSTANTS
  Boards <- MCBoards
  level <- MClevel
  takeover_time <- MCtakeover
  interval <- MCinterval
  ByteMax = 6
  MaxStoerung = 3
INVARIANTS EinMaster ZeitImTakt
PROPERTIES ZeitKommt
CHECK_DEADLOCK FALSE
