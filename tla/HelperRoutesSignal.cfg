SPECIFICATION Spec
CONSTANTS
    Country = {c1, c2}
    Injected = {c1, w1}
    Server = server
    Gateways = {g1, g2}
    MaxRoams = 1
    MaxSwitches = 1
    MaxFaults = 0
    Perils = {}
INVARIANT SignalCleansUp
CHECK_DEADLOCK FALSE
