SPECIFICATION AuditSpec
CONSTANTS
    Runs = {1, 2}
    Horizon = 1
    MaxDeaths = 1
    Nothing = Nothing
INVARIANT IsolatedFromLaterRuns
CHECK_DEADLOCK FALSE
