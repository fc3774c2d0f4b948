SPECIFICATION Spec
CONSTANTS
  total_clusters = 5
  SLOTS = 3
  SECTOR = 2
  MAX_OPEN_FILES = 1
  Path <- MCPath
  Strings <- MCStrings
  Spelling <- MCSpelling
  Counts <- MCCounts
  Seeks <- MCSeeks
  Dirs <- MCDirs
  Premade <- MCPremade
  PowerCuts = TRUE
VIEW MCView
PROPERTIES ClustersAccounted ImplementsFileStore PowerCutsContained
CHECK_DEADLOCK FALSE
