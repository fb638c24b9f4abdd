CONSTANTS
    r1 = r1
    r2 = r2
    r3 = r3
    r4 = r4
    root = root
    alice = alice
    None = None
    Requests = {r1, r2, r3}
    Seeds = {root, alice}
    FirstUsers <- MCFirstUsers
    Names = {"root", "alice"}
    Patches <- Rename
    TTL = 1
    Horizon = 0
CHECK_DEADLOCK FALSE
SPECIFICATION LoggedInSpec
PROPERTIES
    RotationsKept
