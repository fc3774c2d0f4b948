SPECIFICATION FairSpec
CONSTANTS
  KEY_BUF_SIZE = 3
  PhysKey <- MCPhysKey
  MAX_STROKES = 3
  KBUF = 2
  ReadLen <- MCReadLen
INVARIANTS TypeOK ReaderNeverEmptyHanded ModifiersFollowKeys LineFits
PROPERTIES RingIsFifo EnterEndsRead KeysArrive
CHECK_DEADLOCK FALSE
