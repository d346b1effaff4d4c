SPECIFICATION FairSpec
CONSTANTS
  Email = {e1, e2}
  Requests = {r1, r2}
  MaxSignIns = 1
  Faults = {"owner", "database", "helper", "assign"}
INVARIANTS
  UsersServeTheirTenant
  AnsweredOwnerHasPortal
  NoOwnerInHalfMadeTenant
PROPERTIES
  ImplementsPortal
  AttemptsEndInAssignment
CHECK_DEADLOCK FALSE
