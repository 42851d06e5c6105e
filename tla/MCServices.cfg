CONSTANTS
  cx = cx
  cy = cy
  Clients = {cx, cy}
  MAX_FILES = 4
  Devs = {"console", "root", "test", "uart"}
  Length <- MCLength
  Chunks = {1, 2}
  Uses <- MCUses
  PoolSize = 588
  MAX_LOG2_SLI = 5
  FLI_OFFSET = 7
  REAL_FLI = 3
  Requests = {0, 140, 260}
  MaxLive = 3
  SYSTEM_MEMORY_SIZE = 8388608
  CONFIG_KDYNAMIC_MEMORY = 2097152
  UserSize = 1048576
  L4_PAGESIZE = 4096
  Callers = {1, 2, 3}
  Calls <- MCCalls
  HandlerCalls <- MCHandlerCalls
  Bytes = 5
  Chars = {0, 1, 2}
  LongBits = 6
  ShortBits = 4
  CharBits = 3
  LongLongBits = 8
  Formats <- MCFormats
  LastDay = 11330
  Jump <- MCJump
  Seconds = {0, 45296, 86399}
  Input <- MCInput
  FILE_BUFFER_SIZE = 4
  Tasks = {1, 2}
  IdleTask = 1
  NSECS_PER_USEC = 2
  USECS_PER_SEC = 2
  Long = 8
  Periods = {1, 5}
  LastTime = 5
  MaxCalls = 2
  Wrap = 4
  Counts = {0, 1, 2}
  LastTick = 9
SPECIFICATION MCSpec
INVARIANTS FdsExclusive ReadsInOrder TlsfSound AllocationsKept RegionsDisjoint
INVARIANTS CallsServed StringsRight FormatsRight
INVARIANTS CalendarRight TimesRight TimerServed ClockNear StartsWhole
CHECK_DEADLOCK FALSE
