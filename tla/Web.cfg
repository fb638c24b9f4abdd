CONSTANTS
    v1 = v1
    v2 = v2
    root = root
    alice = alice
    bob = bob
    desk = desk
    laptop = laptop
    box1 = box1
    box2 = box2
    p1 = p1
    p2 = p2
    None = None
    Unset = Unset
    Visits = {v1, v2}
    Browsers = {desk, laptop}
    Users = {root, alice, bob}
    FirstUsers <- MCFirstUsers
    FirstLogins <- MCFirstLogins
    FirstServers = {box1}
    NewServers = {box2}
    FirstPlans <- MCFirstPlans
    Pages <- AllPages
    Edits <- MCEdits
    NewWindow <- MCNewWindow
    SummerStart = 1
    SummerEnd = 3
    Saving = 1
SYMMETRY Interchangeable
CHECK_DEADLOCK FALSE
SPECIFICATION Spec
INVARIANTS
    TypeOK
    PageTellsTheTruth
    CallsAsTheVisitor
    NobodyWithoutPassword
    OpenSessionsExplained
    ScheduleShowsWhatStood
PROPERTY PlansChangeAsTyped
