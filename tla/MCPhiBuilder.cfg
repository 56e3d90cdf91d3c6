CONSTANTS
    r1 = r1
    r2 = r2
    r3 = r3
    Reads = {r1, r2, r3}
    MaxCalls = 2
    Events = {1, 2, 3, 4, 5}
    MaxWrites = 4
SPECIFICATION PartsSpec
INVARIANTS PhiTypeOK SlotsMatch OnStackOnce BuildsNeeded FilterExact
PROPERTIES Ends
CHECK_DEADLOCK FALSE
