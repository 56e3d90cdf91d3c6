CONSTANTS
    Threads = {1, 2, 3}
    Roots = {1, 2, 3}
    x = x
    y = y
    z = z
    v0 = v0
    v1 = v1
    Vars = {x, y, z}
    Locks = {1, 2}
    Values = {v0, v1}
    NoValue = NoValue
    MaxEvents = 11
    EIDs = {1, 2, 3, 4, 5, 6, 7, 8, 9, 10, 11}
    SmallLength = 0
    Programs = {}
    OrderedPrograms = {}
    Traces <- NestedLocks
SPECIFICATION LoggerSpec
CONSTRAINT Scenarios
INVARIANTS WitnessLocksLegal
CHECK_DEADLOCK FALSE
