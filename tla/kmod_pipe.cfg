SPECIFICATION FairSpec
CONSTANTS
    Users = {u1, u2}
    NoUser = NoUser
    Readers = {r1, r2}
    Packets = {p1, p2}
    NoPacket = NoPacket
    QueueLimit = 3
INVARIANTS CountExact CarrierWhileOpen
PROPERTIES PipeSpec NoLostWakeup
