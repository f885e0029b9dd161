CONSTANTS
    Modes = {"vk", "ozon", "rutube", "webrtc", "quic", "browser"}
    KnownModes = {"vk", "ozon", "rutube", "webrtc", "quic", "browser"}
    VK = "vk"
    Browser = "browser"
    DayModes <- const_Day
    NightModes <- const_Night
    Zero = "webrtc"
    Loose = {"vk", "ozon"}
    Header <- const_Header
    Decoy = {"webrtc"}
    Fatal = {"quic"}
    Exposed = {"ozon"}
    ClientPools <- const_ClientPools
    NewPools <- const_NewPools
    DomainModes = {"vk"}
    Intervals = {1}
    MaxTime = 0
    MaxFlight = 1
SPECIFICATION Untimed
INVARIANTS TunnelAgrees CleanDelivery CrashNeedsMove OnlyConfiguredModes
CHECK_DEADLOCK FALSE
