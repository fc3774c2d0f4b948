SPECIFICATION MouseSpec
CONSTANTS
  MOUSE_QUEUE_SIZE = 3
  g_screen_w = 3
  g_screen_h = 2
  Delta <- MCDelta
  Held <- MCHeld
  MAX_PACKETS = 3
  MAX_LOST = 1
INVARIANTS MouseTypeOK FramesAligned
PROPERTIES QueueIsFifo SampleCatchesUp
