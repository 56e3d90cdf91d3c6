CONSTANTS
    Threads = {1, 2}
    Roots = {1}
    Vars = {x}
    Locks = {1, 2}
    Values = {v0, v1}
    NoValue = NoValue
    MaxEvents = 6
SPECIFICATION TraceSpec
INVARIANTS TypeOK PrevMapsExact LockRegionsDisjoint LockRegionsComplete COPsExact
SYMMETRY Symmetry
CHECK_DEADLOCK FALSE
