SPECIFICATION FairSpec
CONSTANTS
  MaxFiles = 3
  Faults = {"remote", "insert", "database", "crash"}
INVARIANTS
  SuccessIsReadable
  VisibleBookHasItsFile
  NoDuplicateWithoutLostReply
  CountWithinTotal
  NoRowLeftInTracker
PROPERTIES
  ImplementsImportJob
  EveryJobEnds
CHECK_DEADLOCK FALSE
