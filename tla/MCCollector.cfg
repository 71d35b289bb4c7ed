SPECIFICATION FairCollectorSpec
CONSTANTS
    Producers = {bithumb, binance}
    bithumb = bithumb
    binance = binance
    None = None
    QueueMax = 2
    LastHour = 3
    MaxEvents = 4
    MaxFaults = 1
    MaxSetbacks = 1
    MaxSignals = 1
INVARIANT CollectorTypeOK NothingAcceptedIsLost ActiveHoursAreJournalled PassMeansWhole
PROPERTY ImplementsHourLog StopEndsOrHangs
CHECK_DEADLOCK FALSE
