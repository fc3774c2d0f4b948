SPECIFICATION Spec
CONSTANTS
  total_clusters = 3
  SLOTS = 2
  SECTOR = 2
  MAX_OPEN_FILES = 2
  Path <- MCPath
  Strings <- MCStrings
  Spelling <- MCSpelling
  Counts <- MCCounts
  Seeks <- MCSeeks
  Dirs <- MCDirs
  Premade <- MCPremade
  PowerCuts = TRUE
VIEW MCView
INVARIANTS TypeOK ChainsSound
PROPERTIES CallsLeakNothing ImplementsFileStore PowerCutsContained
CHECK_DEADLOCK FALSE
