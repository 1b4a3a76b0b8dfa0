SPECIFICATION Spec
CONSTANTS
  Modes <- AllModes
  Request = 2
  Reply = 2
  Lane = 1
\* A session ends.
CHECK_DEADLOCK FALSE
INVARIANTS InOrder AllArrives CountedOnce
PROPERTIES UserGoneReachesDest DestGoneReachesUser AllReleased
