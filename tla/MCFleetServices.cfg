SPECIFICATION Spec
CONSTANTS
    t1 = t1
    t2 = t2
    k1 = k1
    k2 = k2
    p1 = p1
    p2 = p2
    m1 = m1
    MaxCycles = 2
    Target = 96
    Rounds <- OneRound
    HandLeg = 16
    MaxHands = 1
    Leasers = {t1, t2}
    LeaseKeys = {k1, k2}
    MaxOpens = 3
    Producers = {p1, p2}
    Monitored = {m1}
    CampaignOf <- OneMonitored
    LowBatch = 1
    MaxEvents = 3
CHECK_DEADLOCK FALSE
INVARIANT ServicesAreSound
INVARIANT UnverifiedStandsStill
PROPERTY TypedAndWithinTarget
PROPERTY NoEventComesBack
PROPERTY NobodyIsStuck
