SPECIFICATION FairSpec
CONSTANTS
    Retries = 2
    DnsCycles = 3
    MaxPipe = 2
    MaxRestarts = 1
    MaxShocks = 2
INVARIANT MonitorTypeOK
PROPERTIES  DisplayFollowsPath
