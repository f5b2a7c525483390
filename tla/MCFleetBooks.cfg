SPECIFICATION PartsSpec
CONSTANTS
    c1 = c1
    a1 = a1
    a2 = a2
    k1 = k1
    h1 = h1
    h2 = h2
    s1 = s1
    s2 = s2
    s3 = s3
    k2 = k2
    k3 = k3
    Campaigns = {c1}
    Accounts = {a1, a2}
    AccountOf <- OneCampaign
    Keys = {k1}
    KeyOf <- OneKey
    Requests = {r1, r2}
    MaxActive = 1
    MaxRestarts = 1
    Expirable = {c1}
    Meddled = {k1}
    MaxRounds = 1
    Overlap = {}
    Free = Free
    Holders = {h1, h2}
    HolderOf <- Users
    Strategies = {s1, s2, s3}
    MakerOf <- Makers
    Later = {s2}
    Secrets = {k2, k3}
    MaxVersion = 2
    MaxReboots = 1
    MaxCalls = 3
    MaxBusy = 2
    Stormy = {h1}
    Window = 2
    Limit = 1
    MaxTime = 2
    MaxLines = 2
    MaxClears = 1
    Batch = 2
    ShownMax = 2
    Executions = 2
    MaxLength = 2
    MaxCuts = 1
    Nothing = Nothing
    NoLine = NoLine
    Absent = Absent
CHECK_DEADLOCK FALSE
 
 
PROPERTY FleetSettles
