SPECIFICATION Spec
CONSTANTS
    NULL = NULL
    Bufs = {b1, b2}
    in_token_num = 2
    RTW_RECVURB_NR = 3
    PoolSize = 2
    RingRoom = 1
    NR_RECVFRAME = 1
    MaxAgg = 2
    MaxErrs = 1
    MaxStarts = 2
SYMMETRY MCSymmetry
INVARIANTS TypeOK BufPlaces UrbsBack TokensKept RxServesPend
CHECK_DEADLOCK FALSE
