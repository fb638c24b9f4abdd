CONSTANTS
    p1 = p1
    p2 = p2
    p3 = p3
    None = None
    PlanIds = {p1, p2, p3}
    Tables <- MCTables
    Capacities <- MCCapacities
SPECIFICATION Spec
INVARIANTS TypeOK CapacityReported DevicesReported ReportsMaximal
