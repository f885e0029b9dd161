CONSTANTS
    Addrs = {a1, a2}
    MaxDatagrams = 3
    Capacity = 1
SPECIFICATION FairSpec
INVARIANTS Accounted PacedIntact PanicNeedsStop
PROPERTIES QueueDrains
CHECK_DEADLOCK FALSE
