SPECIFICATION FairSpec
CONSTANTS
    Loadbots = {l1, l2}
    Webservers = {w1}
    Scenarios <- TwoScenarios
    MaxReplicas = 2
    Iterations = 2
    Attempts = 2
    MaxDeaths = 1
    Faults <- AllFaults
INVARIANTS
    TypeOK
    EveryAnswerOnce
    OwnMeasurements
    MeasuredAtSize
PROPERTY Ends
