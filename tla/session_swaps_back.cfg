SPECIFICATION Spec
CONSTANTS
  SuperAdmins = {s}
  Owners = {o}
  Readers = {}
  Clones = {c}
  Nobody = Nobody
  Accepting = {s, c}
  Granted = {s, o}
  Slots = {1, 2}
  MaxTokens = 2
  MaxExpired = 1
  Faults = {"lost", "profile"}
PROPERTIES
  SwapsBackToSuperAdmin
CHECK_DEADLOCK FALSE
