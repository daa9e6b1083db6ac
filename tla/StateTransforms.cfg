SPECIFICATION FairSpec
CONSTANTS
    None = None
    Keys = {"k1", "k2"}
    Setups <- MCSetups
    Programs <- MCPrograms
    MaxFaults = 2
CHECK_DEADLOCK FALSE
INVARIANTS
    TypeOK
    SeesWhatWasReturned
    OutputsSealed
PROPERTIES
    OnlyOldWorkersFail
    EveryRunEnds
