CONSTANTS
    Conns = {c1, c2}
    None = none
SPECIFICATION FairSpec
INVARIANTS RegistryConsistent SessionsLast
PROPERTIES StopDrains LockReleased GoneAreCollected
CHECK_DEADLOCK FALSE
