CONSTANTS
    Threads = {1, 2, 3}
    Roots = {1, 2, 3}
    x = x
    y = y
    z = z
    v0 = v0
    v1 = v1
    Vars = {x, y, z}
    Locks = {1}
    Values = {v0, v1}
    NoValue = NoValue
    MaxEvents = 10
    EIDs = {1, 2, 3, 4, 5, 6, 7, 8, 9, 10}
    SmallLength = 0
    Programs = {}
    OrderedPrograms <- ThreeThreadPrograms
    Traces <- WitnessTraces
SPECIFICATION LoggerSpec
CONSTRAINT Scenarios
INVARIANTS PhiSound RacesAreReal WitnessIsReal
CHECK_DEADLOCK FALSE
