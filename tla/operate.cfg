SPECIFICATION Spec
CONSTANTS
    Conns = {k1, k2}
    States = {A, B}
    FirstState = A
    ControlTimeout = 1
    WaitMax = 1
    AnyState = AnyState
    Files <- FilesDef
    Passwords = {"p1", "p2", "p3"}
    Bad = "bad"
    NoText = "none"
    CliPsks = {"none", "p1"}
    TunConfigs <- TunConfigsDef
    NoDevice = NoDevice
    MaxTrouble = 3
    MaxOffers = 3
    Hosts = {s1, s2}
    SockPaths = {"x", "y"}
    Default = "default"
    DefaultAt = "x"
    Off = "none"
    Simultaneous = FALSE
    MaxInodes = 3
    Paths = {1, 2}
    Prints = {A, B}
    NoPrint = NoPrint
    WaitSecs = 1
    Spare = 1
    MaxEvents = 2
    MaxBusy = 1
    Staying = {"camex"}
    NetTun = "net"
    Given = "given"
    NoIface = "none"
    MaxDeviceTrouble = 1
INVARIANTS WaitTold SocketReachable ReloadAtomic NothingLeft TunnelMatches LeftAsFound
PROPERTIES SlotsComeFree  NoSpin TunnelConverges
\* A part whose bounds are used up has nothing to do
CHECK_DEADLOCK FALSE
