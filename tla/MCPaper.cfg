CONSTANTS
  Precision = 100000
  InitialCash = 200000
  MaxOrder = 100000
  MinOrder = 50000
  CashReserve = 50000
  FeePart = 400
  SlippagePart = 2000
  Price = {1, 4}
  MaxDay = 5
  MaxFaults = 2
SPECIFICATION PaperFairSpec
INVARIANTS VerifiesWhenSettled
PROPERTIES BookGrows EveryDayIsDecided
