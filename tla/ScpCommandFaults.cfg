CONSTANTS
    n1 = n1
    n2 = n2
    n3 = n3
    Turns <- ThreeTurns
    Here = {n2}
    Faults <- AllFaults
SPECIFICATION MCFairSpec
INVARIANTS TypeOK FinishedIsDone
PROPERTIES FilesKept EveryTurnReported
