CONSTANTS
  m = m
  a = a
  b = b
  Main = m
  Threads = {m, a, b}
  Idle = idle
  NULL = NULL
  Levels = 2
  Base <- MCBase
  UserSigs = {6, 7}
  SaMasks <- MCSaMasks
  MaxNest = 2
  MAX_CLEANUP_HANDLERS = 1
  Roles <- MCRoles
SPECIFICATION LSpec
INVARIANTS JoinerKnown MaskRestored
PROPERTIES SignalsKept JoinServed SigwaitServed
CHECK_DEADLOCK FALSE
