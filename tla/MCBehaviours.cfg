CONSTANTS
  t = t
  q = q
  j = j
  Token = {t}
  Ref = {q}
  Job = {j}
  Capacity = 2
  RuntimeReserve = 0
  Unbounded = 1000
  MaxTasks = 2
  MaxMail = 1
  Behaviour = {"gen_statem"}
  Phase = {0, 1}
  MaxMessages = 1
  MaxReplies = 1
SPECIFICATION Spec
CHECK_DEADLOCK FALSE
INVARIANTS
  WaitIsBounded
  JobsHeardOnce
  HeardOnce
PROPERTIES
  CallsKeepPromise
