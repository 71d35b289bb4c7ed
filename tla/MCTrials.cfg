CONSTANTS
    p1 = p1
    p2 = p2
    t1 = t1
    t2 = t2
    t3 = t3
    Processes = {p1, p2}
    Trials = {t1, t2, t3}
    None = None
    FamilyOf <- MCFamilyOf
    Mine <- MCMine
    FamilyBudget = 1
    CycleBudget = 2
    EarlyStates = 1
    QuietStart = TRUE
    FaultyWrites = {"newLedger", "newReservations", "reconciled", "aborting", "clear",
                    "update", "record"}
    MaxFaults = 1
    MaxCrashes = 2
SPECIFICATION TrialSpec
INVARIANTS
    TrialTypeOK
    RecoveryAccepts
    HoldoutReadOnce
    ReadyIsSettled
PROPERTY
    ImplementsTrialBook
    ResultsAreKept
