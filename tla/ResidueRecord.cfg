SPECIFICATION FairSpec
CONSTANTS
    Resolvers = {d4, d6}
    Preset = {}
    None = None
    MaxLive = 1
    MaxFaults = 1
    MaxEnds = 2
    SetFails = FALSE
    Overlap = FALSE

    
PROPERTIES
    RecordOutlivesTemplate
    
CHECK_DEADLOCK FALSE
