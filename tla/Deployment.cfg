CONSTANTS
    a = a
    b = b
    c = c
    None = None
    Damaged = Damaged
    Ids = {a, b, c}
    NewPlans = {c}
    FirstFiles <- MCFirstFiles
    Kills = 2
    Scripts = 2
CHECK_DEADLOCK FALSE
SPECIFICATION Spec
INVARIANTS
    TypeOK
    NothingLost
    ServesWholeSchema
    StuckOnlyByCut
PROPERTY ServesAgain
