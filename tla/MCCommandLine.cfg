SPECIFICATION CommandSpec
CONSTANTS
    Runners = {first, second}
    Target = 2
    Round = 1
    MaxRuns = 2
    Attempts = 2
    VolumeTarget = 2
    RoundQuote = 2
    RecoveryAttempts = 2
    MaxEmptyRounds = 0
    DemoTarget = 4
    DemoFills = 4
    DemoRounds = 2
    Executors = {e1, e2}
    Recoverers = {r1, r2}
    ClosingAttempts = 2
    Terminals = {t1, t2}
    Previews = {c1, c2}
CHECK_DEADLOCK FALSE
INVARIANT OneOwner
INVARIANT VerdictsAreTrue
INVARIANT StartsAreSafe
PROPERTY CommandsEnd
