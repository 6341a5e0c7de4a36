SPECIFICATION FairSpec
CHECK_DEADLOCK FALSE
CONSTANTS
    Opened = Opened
    LANs = 1
    TablePool = {100, 101}
    BasePool <- Pool
    RouterPref = 40
    RouterRecovery = TRUE
    Unset = Opened
    Configs <- OpenOnly
    OthersMay <- NoRivals
    MaxMeddling = 0
PROPERTIES
    FreshStartServed
