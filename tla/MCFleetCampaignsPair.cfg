SPECIFICATION PartsSpec
CONSTANTS
    c1 = c1
    c2 = c2
    a1 = a1
    a2 = a2
    k1 = k1
    Campaigns = {c1, c2}
    Accounts = {a1, a2}
    AccountOf <- TwoAccounts
    Keys = {k1}
    KeyOf <- OneKey
    Requests = {r1, r2}
    MaxActive = 1
    MaxRestarts = 0
    Expirable = {}
    Meddled = {}
    MaxRounds = 1
    Overlap = {}
    Free = Free
    Runs = {1, 2}
    Horizon = 1
    MaxDeaths = 1
    Nothing = Nothing
SYMMETRY Threads
CHECK_DEADLOCK FALSE
INVARIANT TypedOneOpener
INVARIANT SessionsAreOwn
PROPERTY ConfirmationSpentOnce
