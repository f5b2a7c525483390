SPECIFICATION PartsSpec
CONSTANTS
    Lots = 1
    TargetVolume = 4
    MaxRounds = 2
    MaxEmptyRounds = 1
    RecoveryAttempts = 1
    DustAllowed = FALSE
    Paced = FALSE
    Stoppable = FALSE
    MaxFaults = 1
    Betas <- TwoRatios
    MaxAge = 2
    Quotes <- MidPrices
    Targets = {700}
    PerRound = 500
    LegLimit = 201
    Policies = {0, 3}
    MaxAuto = 4
    Buffer <- SixFifths
    Available = {50, 150, 400}
    Settings <- Accounts
    Before <- Leftover
    MaxCycles = 2
 
INVARIANT OpenBarrier
INVARIANT NeverInflated
INVARIANT OneMarketClose
INVARIANT KnownVerdict
INVARIANT ExactLegs
