SPECIFICATION PathSpec
CONSTANTS
    Hosts = {s1, s2}
    SockPaths = {"x", "y"}
    Default = "default"
    DefaultAt = "x"
    Off = "none"
    Simultaneous = TRUE
    MaxInodes = 3
INVARIANT RemovesChecked
CHECK_DEADLOCK FALSE
