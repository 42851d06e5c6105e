CONSTANTS
  low = low
  high1 = high1
  high2 = high2
  Threads = {low,high1,high2}
  Idle = idle
  NULL = NULL
  Levels = 3
  Base <- MCBase
  MaxDepth = 2
  Roles <- MCRoles
SPECIFICATION MSpec
INVARIANTS MutualExclusion WaitersKnown CeilingExact ReleaseAtomic HighestRuns
CHECK_DEADLOCK FALSE
