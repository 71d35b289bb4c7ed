CONSTANTS
  Entry = {e1, e2}
  Collector = {col}
  Archiver = {arc}
  Nobody = nobody
  None = none
  MaxGeneration = 4
  MaxCrashes = 1
  MaxFaults = 1
SPECIFICATION StoreSpec
INVARIANTS IndexSurvives CorruptOnlyAtBirth
PROPERTIES CompleteIsEarned ImplementsLedger
