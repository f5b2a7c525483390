SPECIFICATION WalletSpec
CONSTANTS
    A = A
    B = B
    Wallets = {A, B}
    Outside = outside
    Starting <- Funds
    FirstTransfers <- FirstOf
    OtherTransfers <- OthersOf
    GasReserve = 1
    g = g
    Groups = {g}
    MaxIndex = 1
    MaxStamp = 2
    Foreign = {far}
    MaxEntries = 1
    MaxChanges = 1
    Versions = 4
    BatchSize = 2
    Passwords = {"p", "q"}
    Callers = {a, b}
    FailureLimit = 2
    LockedMeanwhile = FALSE
    c1 = c1
    c2 = c2
    c3 = c3
    Readers = {c1, c2, c3}
    Asks <- AsksOf
    MaxConcurrency = 2
    MinInterval = 1
    Window = 3
    WindowLimit = 2
    RateLimitCooldown = 2
    MaxCooldown = 3
    ReadAttempts = 2
    Looks = 2
    MaxAsks = 1
CHECK_DEADLOCK FALSE
INVARIANT PlansHold
INVARIANT BooksAreWhole
 
PROPERTY WalletServes
