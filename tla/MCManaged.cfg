SPECIFICATION FairSpec
CONSTANTS
    Rounds = 2
    MaxEdits = 2
    MaxFaults = 2
INVARIANTS
    TypeOK
    EditsKept
    NoWriteWar
PROPERTIES
    HealthyRepaired
    RollbackReturns
    EventuallyManaged
