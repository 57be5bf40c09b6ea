\* Three frames that come again and again, two slots, so that frames are lost,
\* overrun, overtake each other, starve one another and arrive during a sleep;
\* one idle callback among empty places.
SPECIFICATION FairSpec
CONSTANTS
  Leer = Leer
  Frames = {f1, f2, f3}
  CANIX_QUEUE_SIZE = 2
  MAX_IDLE_CALLBACKS = 3
  IdleCallbacks = {0}
  Teiler = 3
  Dauern = {1, 2}
INVARIANTS GenauEinOrt LiestNieLeer NichtReentrant
PROPERTIES SchlaeftAus WirdZugestellt
