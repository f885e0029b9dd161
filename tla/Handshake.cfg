CONSTANTS
    Attempts = {1, 2}
    Handlers = {h1, h2, h3}
    NoTail = {2}
    SumZero = {2}
    FirstZero = {2}
    ReplayWindow = 1
    PurgeAge = 1
    Timeout = 1
    MaxTime = 2
SPECIFICATION FairSpec
INVARIANTS AckSequencesDistinct ConnectedIsBacked
PROPERTIES ReplayCheckSound HandshakeEnds ImplementsRendezvous
CHECK_DEADLOCK FALSE
