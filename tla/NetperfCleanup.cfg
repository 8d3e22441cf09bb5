SPECIFICATION Spec
CONSTANTS
    m1 = m1
    m2 = m2
    none = none
    Masters <- TwoMasters
    Locals <- NoneOrSecond
    workerCount = 2
    MaxRuns = 1
    MaxFaults = 0
INVARIANT TestPodsDeleted
