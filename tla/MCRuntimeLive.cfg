CONSTANTS
  a = a
  b = b
  c = c
  Actor = {a, b}
  Root = {a, b}
  Trapping = {b}
  Reason = {"Normal", "Kill", "Error"}
  Capacity = 2
  RuntimeReserve = 1
  Unbounded = 1000
  MaxCalls = 2
SPECIFICATION FairSpec
CHECK_DEADLOCK FALSE
PROPERTIES
  WatchersHear
  LinkedGo
  MailTaken
