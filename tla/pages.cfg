SPECIFICATION Spec
CONSTANTS
  Books = {1, 2, 3, 4}
  Title <- MCTitle
  PageSize = 2
  Files = {1, 2}
  Genres = {1, 2}
  Ages = {2, 3}
  DefaultAge = 3
  MaxLists = 2
  MaxJobs = 2
  Values = {1, 2}
  Kept <- MCKept
  MaxBooks = 2
  MaxSaves = 2
  MaxOthers = 1
  Rows = {1}
  MaxLoads = 2
  MaxWrites = 2
  MaxCalls = 3
INVARIANTS
  NothingIsHidden
  ShownOnceInOrder
  ImportsWhatRowsShow
  OneJobPerVisit
  OneBookPerForm
  SavedAsShown
  ShownIsSaved
PROPERTY
  ListingEnds
CHECK_DEADLOCK FALSE
