SPECIFICATION Spec
CONSTANTS
  SuperAdmins = {s}
  Owners = {o}
  Readers = {}
  Clones = {c}
  Nobody = Nobody
  Accepting = {s, c}
  Granted = {s, o}
  Slots = {1, 2}
  MaxTokens = 2
  MaxExpired = 1
  Faults = {"lost", "profile"}
INVARIANTS
  OpenToHeldAccount
  ImpersonationIsLogged
  WaitsForAnAnswer
PROPERTIES
  OpensSignedIn
CHECK_DEADLOCK FALSE
