SPECIFICATION FairHoursSpec
CONSTANTS
    scheduler = scheduler
    operator = operator
    LastHour = 2
    LastFeed = 1
    Runners = {scheduler, operator}
    Scheduler = scheduler
    None = None
    Seen = {"zero", "some"}
    Partial = {1}
    MaxManual = 0
    MaxFaults = 0
    MaxCrashes = 0
PROPERTY EveryHourIsTried
CHECK_DEADLOCK FALSE
