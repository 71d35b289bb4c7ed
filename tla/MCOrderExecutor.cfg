CONSTANTS
    Daemons = {d1, d2}
    Markets = {m1, m2}
    Ids = {i1, i2, i3}
    None = None
    Lot = 2
    EntryPolicies = {0}
    HeldPolicies = {1}
    HeldVolumes = {0, 2}
SPECIFICATION Spec
SYMMETRY Symmetry
INVARIANTS
    SingleDaemon
    NoOrphanOrder
    PositionMatchesExchange
    LedgerMatchesExchange
PROPERTIES
    ClearedOnlyWhenSettled
    ImplementsLifecycle
