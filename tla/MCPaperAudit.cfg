CONSTANTS
  Precision = 100000
  InitialCash = 200000
  MaxOrder = 100000
  MinOrder = 50000
  CashReserve = 50000
  FeePart = 400
  SlippagePart = 2000
  Price = {6, 7}
  MaxDay = 3
  MaxFaults = 0
SPECIFICATION PaperSpec
INVARIANTS AuditAccepts
CHECK_DEADLOCK FALSE
