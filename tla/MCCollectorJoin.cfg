SPECIFICATION FairCollectorSpec
CONSTANTS
    Producers = {bithumb, binance}
    bithumb = bithumb
    binance = binance
    None = None
    QueueMax = 2
    LastHour = 2
    MaxEvents = 2
    MaxFaults = 1
    MaxSetbacks = 0
    MaxSignals = 0
PROPERTY StopEnds
CHECK_DEADLOCK FALSE
