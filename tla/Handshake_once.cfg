CONSTANTS
    Attempts = {1}
    Handlers = {h1, h2}
    NoTail = {}
    SumZero = {}
    FirstZero = {}
    ReplayWindow = 1
    PurgeAge = 1
    Timeout = 0
    MaxTime = 0
SPECIFICATION Spec
INVARIANTS SynOpensOneSession
CHECK_DEADLOCK FALSE
