SPECIFICATION Spec
CONSTANTS
  Email = {e1, e2}
  Foreign = {}
  Requests = {r1, r2}
  Ops = {"create", "update", "deactivate", "reactivate"}
  Bundles = {}
  MaxUserCount = 3
  MaxRows = 3
  MaxDay = 1
  MaxTags = 1
  MaxByHand = 1
PROPERTY
  OnlyReactivationActivates
CHECK_DEADLOCK FALSE
