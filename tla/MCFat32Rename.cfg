SPECIFICATION Spec
CONSTANTS
  total_clusters = 4
  SLOTS = 3
  SECTOR = 2
  MAX_OPEN_FILES = 1
  Path <- MCPath
  Strings <- MCStrings
  Spelling <- MCSpelling
  Counts <- MCCounts
  Seeks <- MCSeeks
  Dirs <- MCDirs
  Premade <- MCPremade
  PowerCuts = FALSE
VIEW MCView
PROPERTY FailedRenameKeepsFile
