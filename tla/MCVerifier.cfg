CONSTANTS
    Threads = {1, 2}
    Roots = {1, 2}
    Vars = {x}
    Locks = {1}
    Values = {v0, v1}
    NoValue = NoValue
    MaxEvents = 5
SPECIFICATION VerifierSpec
INVARIANT VerifierExact
PROPERTY ReplayIsExecution
SYMMETRY Symmetry
CHECK_DEADLOCK FALSE
