CONSTANTS
    Modes = {"vk", "ozon", "rutube", "webrtc", "quic", "browser"}
    KnownModes = {"vk", "ozon", "rutube", "webrtc", "quic", "browser"}
    VK = "vk"
    Browser = "browser"
    DayModes <- const_Day
    NightModes <- const_Night
    Zero = "webrtc"
    Loose = {"vk", "ozon"}
    Header <- const_Header
    Decoy = {"webrtc"}
    Fatal = {"quic"}
    Exposed = {"ozon"}
    ClientPools <- const_TwoModes
    NewPools <- const_None
    DomainModes = {"vk"}
    Intervals = {1}
    MaxTime = 3
    MaxFlight = 1
SPECIFICATION FairSpec
PROPERTIES TimerRotates
CHECK_DEADLOCK FALSE
