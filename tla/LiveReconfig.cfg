SPECIFICATION LiveSpec
CONSTANTS
    Servers = {s1, s2}
    First = s1
    Resolvers = {d1, d2}
    None = None
    Torn = Torn
    Writers = {"keys", "worker", "telemetry"}
    MaxOps = 2
    MaxFlips = 1
    MaxSteals = 1
    MaxFaults = 1
INVARIANT LiveTypeOK
PROPERTIES
    SwitchKeepsRoutes
    FileIsApplied
    EndpointsHealed
CHECK_DEADLOCK FALSE
