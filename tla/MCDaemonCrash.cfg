CONSTANTS
    Daemons = {d1}
    Markets = {m1, m2}
    Ids = {i1, i2}
    None = None
    Lot = 2
    EntryPolicies = {0}
    HeldPolicies = {1}
    HeldVolumes = {0, 2}
    MaxEntries = 2
    MaxCrashes = 1
    MaxReadFaults = 0
    ManualSales = FALSE
SPECIFICATION DaemonSpec
SYMMETRY Symmetry
INVARIANTS DaemonTypeOK ManagesWhatItHolds LossRestsFirst LockIsEarned EveryTradeIsScored
PROPERTIES UsesExecutor
