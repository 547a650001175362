SPECIFICATION Spec
CONSTANTS
  s1 = s1
  s2 = s2
  role = role
  mdry = mdry
  IO = IO
  CTRL = CTRL
  NULL = NULL
  Senders = {s1, s2}
  Modules <- BothModules
  module_q <- ModuleQ
  Src <- SameSrc
  Notify <- ToAll
  Opts <- MixOpts
  ExclMdl = CTRL
  MAX_PHL_MSG_NUM = 2
  SMP = FALSE
  MaxSends = 2
  MaxCancels = 1
  MaxHolds = 1
  MaxPends = 1
  MaxMixed = 0
  MayStop = FALSE
INVARIANT TypeOK
INVARIANT MsgPlaces
INVARIANT CompletedOnce
INVARIANT WakeupsCover
INVARIANT NoStaleHold
PROPERTY OkMeansTaken
PROPERTY PostAfterPre
