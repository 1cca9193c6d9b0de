SPECIFICATION Spec
CONSTANTS
    Fds = {f1, f2}
    NoFd = NoFd
    Slots = {t1}
    Header = 2
    BodyLens = {1, 2}
    MaxFrames = 2
    MaxConns = 2
INVARIANTS InStep FramesInOrder
PROPERTIES AcceptedArrives
CHECK_DEADLOCK FALSE
