SPECIFICATION Spec
CONSTANTS
    NULL = NULL
    NTids = 1
    SEQ_MODULO = 16
    BufSize = 4
    Pkts = {p, q, r}
    RingRoom = 1
    FirstN = 14
    MaxN = 18
    MaxSkip = 3
    MaxStarts = 1
    MaxBars = 1
SYMMETRY MCSymmetry
INVARIANTS TypeOK PktPlaces Window
PROPERTIES InOrder
