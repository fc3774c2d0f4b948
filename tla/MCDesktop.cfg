SPECIFICATION Spec
CONSTANTS
  NONE = NONE
  TERMINAL = TERMINAL
  ABOUT = ABOUT
  CALCULATOR = CALCULATOR
  App = {TERMINAL, ABOUT, CALCULATOR}
  OkButton = {ABOUT}
  Size <- MCSize
  Menu <- MCMenu
  Icons <- MCIcons
  MAX_WINDOWS = 2
  Point <- MCPoint
  FrameTicks = {32}
VIEW MCView
INVARIANTS WindowsOnScreen DragHoldsFront
PROPERTIES ClickHitsTopmost
