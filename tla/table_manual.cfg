SPECIFICATION Spec
CONSTANTS
    Slots = {s1, s2}
    NoSlot = NoSlot
    AutoIds = {A}
    ManualIds = {M}
    NoId = NoId
    Peers = {p, q}
    NoPeer = NoPeer
    a1 = a1
    a2 = a2
    a3 = a3
    Addrs = {a1, a2}
    NoAddr = NoAddr
    TunnelIp = NoAddr
    g = g
    k = k
    Keys = {g, k}
    NoKey = NoKey
    Locked = Locked
    Configs <- KeyConfigs
    Tcp = FALSE
    ClientTimeout = 0
    Grace = 0
    RekeyAfter = 1
    PoolHold = 0
    PreauthTimeout = 1
    PreauthGrace = 1
    PreauthMax = 32
    MaxNow = 1
INVARIANTS AddressHeldOnce SessionKeyListed
