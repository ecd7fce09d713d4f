SPECIFICATION Spec
CONSTANTS
    r1 = r1
    r2 = r2
    r3 = r3
    d1 = d1
    d2 = d2
    wifi = wifi
    eth = eth
    Routes <- MCRoutes
    Dest <- MCDest
    Iface <- MCIface
    Metrics = {1, 2}
    Plans <- MCPlans
    Plannable <- Fresh
    DeletesMayFail = FALSE
    ProbesMayFail = FALSE
INVARIANTS
    TransactionInvariant
PROPERTY AllOrNothing
