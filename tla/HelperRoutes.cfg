SPECIFICATION Spec
CONSTANTS
    Country = {c1, c2}
    Injected = {c1, w1}
    Server = server
    Gateways = {g1, g2}
    MaxRoams = 2
    MaxSwitches = 1
    MaxFaults = 2
    Perils = {}

    
PROPERTIES
    RepointNoGap
    EndsDirect
CHECK_DEADLOCK FALSE
