SPECIFICATION FairSpec
CONSTANTS
    MaxEdits = 2
    MaxFaults = 2
INVARIANT
    TypeOK
PROPERTIES
    HealthyIsFiltered
    RollbackKeepsPaths
    EventuallyFiltered
