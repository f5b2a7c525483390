SPECIFICATION Spec
CONSTANTS
    Target = 1
    MaxOrders = 2
    MaxRequotes = 1
    MaxSkips = 1
    MaxReadErrors = 2
    MaxVerify = 2
    BulkCleanup = TRUE
    ReportsAbsence = TRUE
    AssuresPostOnly = FALSE
    StaleOrders = TRUE
    StalePositions = TRUE
PROPERTIES
    LegEnds
    ImplementsLane
INVARIANTS
    OneWorkingOrder
    CleanLeavesNothing
    LegIsExact
