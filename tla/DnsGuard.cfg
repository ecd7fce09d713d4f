SPECIFICATION Spec
CONSTANTS
    Helpers = {h1, h2}
    Sweepers = {d1}
    None = None
    MaxFaults = 2
    MaxWipes = 1
    Overlap = FALSE

    
PROPERTIES
    
    GuardKept
CHECK_DEADLOCK FALSE
