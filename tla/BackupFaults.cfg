CONSTANTS
    n1 = n1
    n2 = n2
    none = none
    Nodes <- TwoNodes
    Locals <- NoneOrSecond
    Runs = {r1, r2}
    Overlap = TRUE
    Faults <- AllFaults
SPECIFICATION FairSpec
INVARIANTS TypeOK ReportedIsOwn ArchiveDeleted
PROPERTY RunsEnd
