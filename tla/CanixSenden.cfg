SPECIFICATION Spec
CONSTANTS
  Frames <- MCFrames
  Leer = 0
  dst <- MCdst
  proto <- MCproto
  srv <- MCsrv
  MAX_FRAME_CALLBACKS = 3
  cb_dst <- MCcb_dst
  cb_proto <- MCcb_proto
  cb_srv <- MCcb_srv
INVARIANTS NieUeberschrieben LokalZugestellt
CHECK_DEADLOCK FALSE
