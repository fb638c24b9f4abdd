CONSTANTS
    r1 = r1
    r2 = r2
    r3 = r3
    r4 = r4
    alice = alice
    root = root
    gpu1 = gpu1
    box1 = box1
    box2 = box2
    None = None
    Unset = Unset
    Requests = {r1, r2, r3}
    Users = {alice}
    Admins = {}
    Servers = {box1}
    Titles = {"a"}
    Gpus = {gpu1}
    PlanCreates <- MCCreates
    PlanUpdates <- Reschedules
SYMMETRY Interchangeable
CHECK_DEADLOCK FALSE
SPECIFICATION SteadySpec
PROPERTY CancelKeepsFirst
