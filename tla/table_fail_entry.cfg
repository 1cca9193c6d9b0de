SPECIFICATION Spec
CONSTANTS
    Slots = {s1, s2}
    NoSlot = NoSlot
    AutoIds = {}
    ManualIds = {}
    NoId = NoId
    Peers = {p}
    NoPeer = NoPeer
    a1 = a1
    a2 = a2
    a3 = a3
    Addrs = {a1, a2}
    NoAddr = NoAddr
    TunnelIp = NoAddr
    g = g
    k = k
    Keys = {g}
    NoKey = NoKey
    Locked = Locked
    Configs <- PlainConfigs
    Tcp = TRUE
    ClientTimeout = 2
    Grace = 1
    RekeyAfter = 1
    PoolHold = 0
    PreauthTimeout = 1
    PreauthGrace = 1
    PreauthMax = 32
    MaxNow = 1
PROPERTIES FailKeepsEntry
