SPECIFICATION MaskerSpec
CONSTANTS
    Lengths = {0, 1, 4, 5, 19, 20, 1399, 1400, 65526, 65527, 65535}
    Bytes = {0, 1, 2, 31, 32, 63, 64, 255}
    CertLen = 1024
    TextLen = 141
    Half = 1048576
    Paddings = {0, 65535}
    Sizes = {0, 4, 5, 11, 12, 13, 14, 16, 17, 18, 20, 21, 24, 26, 34, 35, 37, 39, 40, 50, 77, 79, 80, 1400}
    Says = {0, 4, 8, 20, 48862, 983012, 983020, 1048551, 1048552, 1048575, 1048576, 2097151}
INVARIANTS RoundTrip SwallowsNine PanicsKnown
CHECK_DEADLOCK FALSE
