CONSTANTS
    Workers = {w1, w2}
    Contents = {c1, c2}
    None = None
    Ops = {"finalize", "finalizeClean", "verify", "restore", "cleanup"}
    RaceWinners = {c1, c2}
    Remanifest = FALSE
    MaxRewrites = 1
    MaxFaults = 1
    MaxCrashes = 1
SPECIFICATION ArchiveSpec
SYMMETRY Symmetry
INVARIANTS
    RestorableWhenGone
    EligibleIsRestorable
    StagesAreTrue
PROPERTY
    CleanedIsKept
