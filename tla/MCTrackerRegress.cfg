SPECIFICATION Spec
CONSTANTS
    MaxBlock = 2
    MaxTicks = 2
    MaxSaveFaults = 1
    MaxRestarts = 1
    MaxReorgs = 1
PROPERTIES
    TiersNeverGoBackwards
