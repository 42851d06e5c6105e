CONSTANTS
  waiter = waiter
  poster = poster
  third = third
  Threads = {waiter, poster, third}
  Idle = idle
  NULL = NULL
  Levels = 3
  Base <- MCBase
  SEM_VALUE_MAX = 2
  InitValues = {0, 1}
  Roles <- MCRoles
SPECIFICATION SSpec
INVARIANTS NeverNegative BlockedAreLinked
PROPERTIES Counts WaitServed
CHECK_DEADLOCK FALSE
