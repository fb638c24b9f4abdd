CONSTANTS
    c1 = c1
    c2 = c2
    r1 = r1
    alice = alice
    p1 = p1
    None = None
    Keys <- MCKeys
    Users = {alice}
    HostOf <- MCHostOf
    LowerName <- MCLowerName
    Gpus = {0, 1}
    PlanIds = {p1}
    PlanRows <- MCPlanRows
    Sightings <- MCSightings
    Runs = {c1, c2}
    Readers = {r1}
    Threshold = 1
    Horizon = 2
SYMMETRY Interchangeable
CHECK_DEADLOCK FALSE
SPECIFICATION SeededSpec
INVARIANTS
    TypeOK
    FreshMeansObserved
    ShownAsFreshIsRecent
    PlannedIsNotBlamed
    MatchedHasPlan
