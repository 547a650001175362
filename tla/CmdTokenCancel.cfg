SPECIFICATION FairSpec
CONSTANTS
    NULL = NULL
    Clients = {a, b}
    MAX_CMD_REQ_NUM = 2
    SMP = FALSE
    MaxAdds = 2
    MaxCancels = 1
    MayStop = FALSE
PROPERTY CancelIsTold
CHECK_DEADLOCK FALSE
