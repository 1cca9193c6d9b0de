SPECIFICATION Spec
CONSTANTS
    None = None
    Addrs = {a1, a2}
    Retry = 1
    Interval = 1
    MaxDelay = 2
    Keepalive = 1
    ServerTimeout = 2
    Grace = 3
    RekeyTimeout = 4
    RekeyAfter = 4
    ClientTimeout = 4
    OldAnswersFail = TRUE
    MaxFaults = 2
    MaxRekeys = 1
INVARIANTS ConfirmedIsCurrent  
PROPERTIES  StaysConnected
