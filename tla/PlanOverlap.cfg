CONSTANTS
    r1 = r1
    r2 = r2
    r3 = r3
    r4 = r4
    alice = alice
    root = root
    gpu1 = gpu1
    box1 = box1
    box2 = box2
    None = None
    Unset = Unset
    Requests = {r1, r2, r3, r4}
    Users = {alice}
    Admins = {}
    Servers = {box1}
    Titles = {"a"}
    Gpus = {gpu1}
    PlanCreates <- NoCreates
    PlanUpdates <- Reschedules
CHECK_DEADLOCK FALSE
SPECIFICATION SeededSpec
INVARIANTS
    RowsValidWindow
    RowsExplainedByAudits
PROPERTY CancelFinalOnceQuiet
