CONSTANTS
    Requests = {r1, r2}
    Passwords = {p1, p2}
    Lavas = {l1, l2}
    MaxRequests = 5
    MaxSecond = 1
SYMMETRY Symmetry
SPECIFICATION Spec
INVARIANTS SpentTokensGone UnracedIsSerial StatusFollowsEvents
PROPERTIES VerifiedKept
CHECK_DEADLOCK FALSE
