SPECIFICATION ViewerSpec
CONSTANTS
  LastPlace = 3
  LocationOf <- MCLocationOf
  Openings = 2
  MaxPosts = 2
INVARIANTS
  QuietSavesLast
  ReopensWhereLeft
PROPERTIES
  OverlayEnds
CHECK_DEADLOCK FALSE
