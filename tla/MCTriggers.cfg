SPECIFICATION FairSpec
CONSTANTS
    Attempts = 4
    MaxDrifts = 3
    MaxFaults = 5
INVARIANT
    TypeOK
PROPERTIES
    DriftRepaired
    EventsHeardAgain
    SelfTriggeringEnds
