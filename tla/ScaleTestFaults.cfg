SPECIFICATION FairSpec
CONSTANTS
    Scenarios <- SmallScenarios
    MaxReplicas = 2
    Leftovers = {0, 2}
    Faults <- EveryFault
INVARIANTS
    TypeOK
    MeasuredAtSize
    NoneSkipped
PROPERTY Ends
