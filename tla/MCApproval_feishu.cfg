SPECIFICATION FairSpec
CONSTANTS
  c1 = c1
  c2 = c2
  c3 = c3
  bash = bash
  reader = reader
  x = x
  y = y
  NoChat = NoChat
  Calls = {c1, c2}
  Tools = {bash, reader}
  ToolOf <- SameTool
  ReadOnly = {reader}
  Chats = {x, y}
  ChatOf <- TwoChats
  Approver = "feishu"
  Commands = {m1, m2}
  Numbers = {1, 2, 3}
  Lines = 0
  Resets = 1
INVARIANTS
  TypeOK
  RunsOnlyWithConsent
  RejectionIsFinal
  DeliveryNeverBlocks
  NoLeakedRequest
  RecordedDecisionPrevails
PROPERTY CallsAreSettled
