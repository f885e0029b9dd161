CONSTANTS
    Callers = {u1, u2}
    Free = free
    MaxPackets = 3
    MaxTimeouts = 2
SPECIFICATION FairSpec
INVARIANTS  ReadLossBounded
PROPERTIES StopEnds RestartIsDeaf TunnelListens ImplementsLifecycle
CHECK_DEADLOCK FALSE
