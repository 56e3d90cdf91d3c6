CONSTANTS
    EIDs = {1, 2, 3, 4}
    MaxRelations = 3
SPECIFICATION FairSpec
INVARIANTS TypeOK LoopInv
PROPERTIES ImplementsBuilder BuildReturns
CHECK_DEADLOCK FALSE
