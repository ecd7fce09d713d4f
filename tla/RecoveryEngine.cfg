SPECIFICATION FairSpec
CONSTANTS
    Kinds = {process, proxy}
    CrashLoopKinds = {process}
    None = None
    MaxAttempts = 2
    GiveUpAfter = 2
    MaxAnnounce = 1
INVARIANTS
    TypeOK
    NoDoubleScheduling
    AttemptFlagTracksWorker
    NothingArmedWhileSuppressed
    AttemptsBounded
    StreakEngagesGuard
PROPERTIES
    FloodKeepsSchedule
    ArmedIncidentLeaves
    ShutdownEndsWorker
