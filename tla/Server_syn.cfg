CONSTANTS
    Conns = {c1}
    None = none
SPECIFICATION FairSpec
PROPERTIES SynAnswered
CHECK_DEADLOCK FALSE
