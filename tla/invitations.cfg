SPECIFICATION Spec
CONSTANTS
  Requests = {r1, r2}
  MaxInvites = 4
INVARIANTS
  ActiveIsBounded
  LatestWorks
  UsesAreBounded
PROPERTY
  NoneRevives
CHECK_DEADLOCK FALSE
