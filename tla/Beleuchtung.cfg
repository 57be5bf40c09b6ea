CONSTANTS
  Boards <- MCBoards
  Zonen = {"flur", "zimmer"}
  Ports = {"lampe", "luefter"}
  geraete <- MCgeraete
  zone <- MCzone
  port <- MCport
  Eingaben <- MCEingaben
  MaxEingaben = 3
  MaxVerlust = 1
  EXT_TIMERINIT = 3
  EXT_SEC_COUNTER_MAX = 3
SPECIFICATION FairSpec
INVARIANTS Einig
PROPERTIES GehtVonSelbstAus
