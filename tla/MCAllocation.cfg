SPECIFICATION FairSpec
CHECK_DEADLOCK FALSE
CONSTANTS
    Opened = Opened
    LANs = 1
    TablePool = {100, 101}
    BasePool <- Pool
    RouterPref = 40
    RouterRecovery = TRUE
    Unset = Opened
    Configs <- AnyConfig
    OthersMay <- Rivals
    MaxMeddling = 3
INVARIANTS
    TypeOK
    IdentityAgrees
    NoOrphans
PROPERTIES
    ResourcesStable
    EventuallyServed
