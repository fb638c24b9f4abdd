CONSTANTS
    r1 = r1
    r2 = r2
    r3 = r3
    None = None
    Requests = {r1, r2, r3}
    Pool = 2
    TTL = 2
    Threshold = 2
    Silences = {0, 3}
    Delay = 2
    Horizon = 3
CHECK_DEADLOCK FALSE
SPECIFICATION Spec
INVARIANTS
    TypeOK
    RefreshesCollapse
PROPERTIES
    AnswersRecent
    AnswersNeverGoBack
    CardTellsTheTruth
    EveryRequestAnswered
