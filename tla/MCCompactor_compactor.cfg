SPECIFICATION Spec
CONSTANTS
  ContextWindow = 1000
  ReserveTokens = 100
  RetainLastMsg = 1
  CharWidth = 3
  SystemSize = 300
  PromptSizes = {210}
  ReplySizes = {30, 240}
  ToolSizes = {255, 1002, 3000}
  ArgSizes = {0, 40}
  Usages <- ReportedUsages
  MaxMessages = 5
CHECK_DEADLOCK FALSE
INVARIANTS
  TypeOK
  ReadingsArePaired
  OverfullRequestsShrink
  OnlyBulkIsLost
