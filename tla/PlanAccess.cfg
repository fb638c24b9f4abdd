CONSTANTS
    r1 = r1
    r2 = r2
    r3 = r3
    r4 = r4
    alice = alice
    root = root
    gpu1 = gpu1
    box1 = box1
    box2 = box2
    None = None
    Unset = Unset
    Requests = {r1, r2}
    Users = {alice, root}
    Admins = {root}
    Servers = {box1, box2}
    Titles = {"a"}
    Gpus = {gpu1}
    PlanCreates <- MCCreates
    PlanUpdates <- AllUpdates
SYMMETRY Interchangeable
SPECIFICATION Spec
INVARIANTS
    TypeOK
    RowsOnEnabledServers
    AnswersAudited
PROPERTY ChangesAuditedAndAllowed
