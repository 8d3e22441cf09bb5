SPECIFICATION FairSpec
CONSTANTS
    HandshakeAttempts = 1
    MaxCalls = 1
    Targets <- OnlyRemote
    Faults <- AllFaults
    Bastion = FALSE
PROPERTY HandfulOfTimes
