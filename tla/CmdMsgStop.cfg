SPECIFICATION FairSpec
CONSTANTS
  s1 = s1
  s2 = s2
  role = role
  mdry = mdry
  IO = IO
  CTRL = CTRL
  NULL = NULL
  Senders = {s1}
  Modules <- BothModules
  module_q <- ModuleQ
  Src <- SameSrc
  Notify <- ToAll
  Opts <- HoldOpts
  ExclMdl = CTRL
  MAX_PHL_MSG_NUM = 1
  SMP = FALSE
  MaxSends = 2
  MaxCancels = 0
  MaxHolds = 0
  MaxPends = 1
  MaxMixed = 0
  MayStop = TRUE
INVARIANT CompletedOnce
PROPERTY FedOnce
PROPERTY StopCompletes
PROPERTY Completes
CHECK_DEADLOCK FALSE
