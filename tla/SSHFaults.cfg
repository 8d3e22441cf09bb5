SPECIFICATION FairSpec
CONSTANTS
    HandshakeAttempts = 2
    MaxCalls = 2
    Targets <- BothTargets
    Faults <- AllFaults
    Bastion = TRUE
INVARIANTS
    TypeOK
    LiveClientAtStart
    FailedConnectLeavesNothingOpen
    AuthFailuresBounded
PROPERTIES
    ImplementsRemoteCall
    CallReturns
