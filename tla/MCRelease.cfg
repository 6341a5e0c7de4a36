SPECIFICATION FairSpec
CONSTANTS
    None = None
    Good = Good
    Better = Better
    Broken = Broken
    Old = Old
    Releases <- AllReleases
    Sound <- Serving
    Supporting <- Capable
    MaxFaults = 2
INVARIANTS
    TypeOK
    UpgradeHonest
    VerifiedUnlessJoined
PROPERTY
    Recovers
