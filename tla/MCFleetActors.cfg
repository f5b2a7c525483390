SPECIFICATION Spec
CONSTANTS
    a1 = a1
    a2 = a2
    p1 = p1
    Actors = {a1, a2}
    Proxies = {p1}
    ProxyOf <- OneProxy
    Rate = Rate
    MaxNormal = 2
    Lots = 1
    Target = 3
    Tolerance = 0
    MaxRounds <- TwoAndOne
    Stoppable = {a1}
CHECK_DEADLOCK FALSE
INVARIANT VolumeCountedOnce
INVARIANT TypedSlots
PROPERTY ActorsMoveOn
