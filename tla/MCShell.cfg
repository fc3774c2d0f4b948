SPECIFICATION Spec
CONSTANTS
  MAX_ENV_VARS = 16
  SHELL_MAX_VARS = 1
  SHELL_MAX_ALIASES = 7
  SHELL_SCRIPT_DEPTH = 2
  MAX_OPEN_FILES = 3
  VarOf <- MCVarOf
  LineOf <- MCLineOf
  NFiles <- MCNFiles
  EntryOf <- MCEntryOf
  Typed <- MCTyped
  Clicked <- MCClicked
  Quiet = {"ls", "clear", "echo"}
  Reader = {"cat"}
  Scripts = {"a.sh", "b.sh"}
  Programs = {"p.e32"}
  ProgramFiles <- MCProgramFiles
  Codes <- MCCodes
  Trees <- MCTrees
  Caps = {13, 15}
  MaxLines = 3
INVARIANT FramesHoldAll
PROPERTIES PackageSafe LinesReturn
