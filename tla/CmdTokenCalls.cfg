SPECIFICATION Spec
CONSTANTS
    NULL = NULL
    Clients = {a, b}
    MAX_CMD_REQ_NUM = 1
    SMP = TRUE
    MaxAdds = 3
    MaxCancels = 1
    MayStop = FALSE
SYMMETRY MCSymmetry
INVARIANTS SlotPlaces Exclusive
PROPERTY NextAfterAbortMsg
