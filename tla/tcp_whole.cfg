SPECIFICATION Spec
CONSTANTS
    Fds = {f1}
    NoFd = NoFd
    Slots = {t1}
    Header = 2
    BodyLens = {1, 2}
    MaxFrames = 2
    MaxConns = 2
INVARIANTS FrameWhole
CHECK_DEADLOCK FALSE
