SPECIFICATION FairSpec
CONSTANTS
    NULL = NULL
    Clients = {a, b}
    MAX_CMD_REQ_NUM = 2
    SMP = FALSE
    MaxAdds = 2
    MaxCancels = 0
    MayStop = TRUE
INVARIANT Exclusive
PROPERTIES FgTokenSpec ExitTellsAll Served StopCompletes
CHECK_DEADLOCK FALSE
