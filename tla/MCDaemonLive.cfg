CONSTANTS
    Daemons = {d1}
    Markets = {m1}
    Ids = {i1}
    None = None
    Lot = 1
    EntryPolicies = {0}
    HeldPolicies = {0}
    HeldVolumes = {0, 1}
    MaxEntries = 2
    MaxCrashes = 1
    MaxReadFaults = 1
    ManualSales = TRUE
SPECIFICATION FairDaemonSpec
PROPERTIES PendingIsSettled PositionIsWatched
