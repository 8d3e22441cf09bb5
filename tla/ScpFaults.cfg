CONSTANTS
    Names <- AllNames
    FirstWord <- Words
    Kinds <- AllKinds
    Plans <- Walks
    Faults <- AllFaults
SPECIFICATION FairSpec
INVARIANTS TypeOK OkMeansStored RefusalNoticed
PROPERTIES KeptOnceStored Returns
