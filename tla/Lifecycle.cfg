SPECIFICATION FairSpec
CONSTANT MaxHelpers = 1
INVARIANTS
    TypeOK
    LockedSweepsExclude
    StopClaimTracksWorker
PROPERTY TeardownsEnd
