SPECIFICATION TablesSpec
CONSTANTS
    Hashes = {0, 1, 3}
    IdxSlots = {0, 1}
    MinBuckets = 2
    MaxBuckets = 16
    Ips = {i1, i2, i3}
    NoIp = NoIp
    ClientSlots = {0, 1}
    Crowd = 3
    LeaseIds = {c1, c2}
    LeaseIps = {i1, i2, i3}
    FirstCap = 1
    LeaseMin = 1
    LeaseLimit = 2
    LeaseSlack = 0
    SourceAddrs = {"a1", "a2", "b1", "b2"}
    Net <- NetDef
    LiveAt = {"b2"}
    Keys = 2
    Handshakes = 8
    Trials = 8
    KnownPerSec = 1
    Probes = 3
    Words = 3
    Bits = 2
    RejectAfter = 14
INVARIANTS FindExact LookupExact LeaseLookupExact RekeyServed NewcomerServed
INVARIANTS ReceivedRejected FreshAccepted
PROPERTIES SlotImplements LeasesKept
\* The counters of a session are bounded
CHECK_DEADLOCK FALSE
