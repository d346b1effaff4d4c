SPECIFICATION Spec
CONSTANTS
  Email = {e1, e2, e3}
  Foreign = {}
  Requests = {r1, r2}
  Ops = {"create", "update", "patch", "deactivate", "reactivate", "delete", "supportPatch"}
  Bundles = {{"on"}, {"hide"}}
  MaxUserCount = 2
  MaxRows = 3
  MaxDay = 1
  MaxTags = 1
  MaxByHand = 1
INVARIANTS
  OvershootIsBounded
  DeletedGivesUpAddress
  OwnerStaysIn
SYMMETRY Symmetry
CHECK_DEADLOCK FALSE
