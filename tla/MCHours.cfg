SPECIFICATION FairHoursSpec
CONSTANTS
    scheduler = scheduler
    operator = operator
    LastHour = 2
    LastFeed = 2
    Runners = {scheduler, operator}
    Scheduler = scheduler
    None = None
    Seen = {"zero", "some"}
    Partial = {2}
    MaxManual = 1
    MaxFaults = 1
    MaxCrashes = 1
PROPERTY PassIsEarned CompletedStays HourCompletes
CHECK_DEADLOCK FALSE
