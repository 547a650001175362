SPECIFICATION FairSpec
CONSTANTS
    NULL = NULL
    Bufs = {b1}
    in_token_num = 1
    RTW_RECVURB_NR = 2
    PoolSize = 2
    RingRoom = 2
    NR_RECVFRAME = 1
    MaxAgg = 2
    MaxErrs = 1
    MaxStarts = 1
PROPERTIES TokensComeBack
CHECK_DEADLOCK FALSE
