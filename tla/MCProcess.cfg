SPECIFICATION Spec
VIEW MCView
CONSTANTS
  MOD = 256
  E32_RUNTIME_MAX = 104
  PAGE = 16
  ImageSizes = {20, 98}
  Codes = {0, 1}
  Errors <- MCErrors
  Requests = {0, 8, 20, 249}
  Value = {"v"}
  MaxLive = 3
INVARIANT DataKept
PROPERTY StatusIsOwn
CHECK_DEADLOCK FALSE
