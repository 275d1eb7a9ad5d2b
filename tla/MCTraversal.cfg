\* Calls that name a file by a path with a .. in it.
SPECIFICATION Spec
CONSTANTS
  Paths <- MCPaths
  Lexical <- MCLexical
  NoFile = "no file"
  FirstDisk <- MCDisk
  Sensitive = {"key"}
  Config = {"package.json"}
  Calls <- MCCalls
  Rules <- MCRules
  Defaults <- MCDefaults
  MaxEdits = 3
  Script <- MCScript
  Tokens = {}
  Openings <- NoCommand
  MaxTokens = 0
CHECK_DEADLOCK FALSE
INVARIANTS
  TraversalCaught
