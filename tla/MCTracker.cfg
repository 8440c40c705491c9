SPECIFICATION Spec
CONSTANTS
    MaxBlock = 3
    MaxTicks = 1
    MaxSaveFaults = 1
    MaxRestarts = 1
    MaxReorgs = 1
INVARIANTS
    TypeOK
    BroadcastIsPersisted
    TiersAreTrue
PROPERTIES
    TiersNeverGoBackwards
