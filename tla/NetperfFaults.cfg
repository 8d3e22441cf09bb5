SPECIFICATION FairSpec
CONSTANTS
    m1 = m1
    m2 = m2
    none = none
    Masters <- TwoMasters
    Locals <- NoneOrSecond
    workerCount = 2
    MaxRuns = 2
    MaxFaults = 2
INVARIANTS
    TypeOK
    ResultsWhole
    LeftBehind
PROPERTY RunsEnd
