SPECIFICATION DashSpec
CONSTANTS
    Kinds = {process, proxy}
    CrashLoopKinds = {process}
    RestartKinds = {process}
    Process = process
    None = None
    MaxAttempts = 2
    GiveUpAfter = 2
    MaxAnnounce = 1
INVARIANTS
    DashInvariant
    
