SPECIFICATION Spec
CONSTANTS
    MaxClients = 2
    MaxDevices = 2
    MaxReaders = 2
INVARIANTS AtRest ReadersAwaited DevicesOwned CrashNeedsTeardown
PROPERTIES StopReturns
CHECK_DEADLOCK FALSE
