SPECIFICATION FairSpec
CONSTANTS
  c1 = c1
  c2 = c2
  c3 = c3
  bash = bash
  reader = reader
  x = x
  y = y
  NoChat = NoChat
  Calls = {c1, c2, c3}
  Tools = {bash, reader}
  ToolOf <- WithReader
  ReadOnly = {reader}
  Chats = {x}
  ChatOf <- OneChat
  Approver = "terminal"
  Commands = {}
  Numbers = {}
  Lines = 3
  Resets = 1
INVARIANTS
  NothingRunsUnasked
  LinesAnswerTheirPrompt
PROPERTY CallsAreSettled
