\* Commands typed token by token while the policy files are edited.
SPECIFICATION Spec
CONSTANTS
  Paths <- MCPaths
  Lexical <- MCLexical
  NoFile = "no file"
  FirstDisk <- MCDisk
  Sensitive = {"key"}
  Config = {"package.json"}
  Calls <- MCCalls
  Rules <- MCRules
  Defaults <- MCDefaults
  MaxEdits = 3
  Script <- MCScript
  Tokens <- MCTokens
  Openings <- MCOpenings
  MaxTokens = 3
CHECK_DEADLOCK FALSE
INVARIANTS
  NamesDoNotMatter
  ParserSound
  DangerousStopped
PROPERTIES
  RulesMonotone
