SPECIFICATION Spec
CONSTANTS
    Sessions = {s1, s2}
    None = None
    MaxFaults = 1
    Overlap = FALSE
    Gap = FALSE
INVARIANTS
    TypeOK
PROPERTIES
    RetiredOnlyWhenClean
    
    CrashSweptOrMarked
CHECK_DEADLOCK FALSE
