CONSTANTS
    Modes = {"vk", "webrtc", "browser", "other"}
    KnownModes = {"vk", "webrtc", "browser"}
    VK = "vk"
    Browser = "browser"
    DayModes <- const_Day
    NightModes <- const_Night
    Pools <- const_Pools
    DomainModes = {"vk", "webrtc", "browser"}
    Intervals = {0, 1}
    MaxTime = 3
    MaxPool = 3
SPECIFICATION Spec
INVARIANTS TypeOK MaskMatchesMode RotationCoversPool
PROPERTIES HandedMaskFresh
