CONSTANTS
    Threads = {1, 2}
    Roots = {1, 2}
    x = x
    y = y
    v0 = v0
    v1 = v1
    Vars = {x}
    Locks = {1, 2}
    Values = {v0, v1}
    NoValue = NoValue
    MaxEvents = 6
    EIDs = {1, 2, 3, 4, 5, 6}
    Programs <- LockedPrograms
SPECIFICATION Spec
CONSTRAINT Scripted
INVARIANT CommonLockFound
CHECK_DEADLOCK FALSE
