SPECIFICATION Spec
CONSTANTS
    Entries = {e1}
    Answers = {a1, a2}
    Gateways = {g1, g2}
    Country = Country
    None = None
    MaxKeys = 3
    MaxRoams = 2
    MaxTurns = 1
    MaxSteals = 1
    MaxFaults = 2
    Perils = {}
INVARIANT BypassInvariant
PROPERTIES
    NoGapOnMove
    SettlesAsListed
CHECK_DEADLOCK FALSE
