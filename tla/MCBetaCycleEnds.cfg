SPECIFICATION PartsSpec
CONSTANTS
    Lots = 1
    TargetVolume = 2
    MaxRounds = 1
    MaxEmptyRounds = 1
    RecoveryAttempts = 1
    DustAllowed = FALSE
    Paced = TRUE
    Stoppable = FALSE
    MaxFaults = 1
    Levels = {x, y}
    MaxUpdates = 3
    BookMaxAge = 1
    MaxChanges = 3
    MaxLag = 1
    StreamAge = 1
    CopyAge = 1
    RequestTicks = 1
    RestInterval = 1
    Tracked = {b, e}
    StaleAfter = 2
    PollInterval = 1
    Retention = 1
    MaxWall = 2
    MaxTime = 2
    Burst = 1
    PageSize = 1
    MaxWindow = 2
    Overlap = 1
    Occasions = {}
    Servers = {"loop", "manual"}
CHECK_DEADLOCK FALSE
INVARIANT TypedAndContiguous
INVARIANT StreamsAreTrue
PROPERTY SettlesInTheEnd
