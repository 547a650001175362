SPECIFICATION FairSpec
CONSTANTS
    NULL = NULL
    NTids = 2
    SEQ_MODULO = 8
    BufSize = 2
    Pkts = {p, q}
    RingRoom = 1
    FirstN = 8
    MaxN = 7
    MaxSkip = 1
    MaxStarts = 2
    MaxBars = 0
INVARIANTS PktPlaces TimerOffUnlessReopened
PROPERTIES HeldIsReleased
