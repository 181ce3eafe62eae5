CONSTANTS
  Name = {n1, n2}
  NoName = none
  MaxLive = 2
  MaxSpawns = 5
SPECIFICATION DirectorySpec
CHECK_DEADLOCK FALSE
INVARIANTS
  IdsNameOneActor
  LiveCounted
  NamesAgree
  SlotsAccounted
