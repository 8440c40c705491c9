SPECIFICATION Spec
CONSTANTS
    c1 = c1
    Curve = {c1}
    maxAttempts = 2
    MaxRpcFaults = 2
    MaxBricks = 1
    MaxCrashes = 1
INVARIANTS
    TypeOK
    ResultTruthful
PROPERTIES
    QuietWhileCooling
    KeeperGraduates
