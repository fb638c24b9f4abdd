CONSTANTS
    r1 = r1
    r2 = r2
    r3 = r3
    r4 = r4
    root = root
    alice = alice
    gpu1 = gpu1
    box1 = box1
    box2 = box2
    None = None
    Unset = Unset
    Requests = {r1, r2, r3}
    Users = {alice, root}
    Admins = {root}
    Servers = {box1, box2}
    Titles = {"a"}
    Gpus = {gpu1}
    PlanCreates <- MCCreates
    PlanUpdates <- AllUpdates
    Seeds = {root, alice}
    FirstUsers <- DirectoryAtFirst
    Names = {"root", "alice", "bob"}
    Patches <- UserPatches
    TTL = 1
    Horizon = 1
CHECK_DEADLOCK FALSE
SPECIFICATION SerialSpec
PROPERTIES
    SerialKeepsContract
    SerialKeepsAccounts
