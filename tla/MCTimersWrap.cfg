CONSTANTS
  Threads = {t1, t2}
  Idle = idle
  MAX_TIMERS = 3
  Word = 8
  TicksPer = 2
  NsecPer = 3
  MaxTicks = 5
  Delays = {3}
  Intervals = {2}
  SignalWakes = FALSE
  SharedTimers = FALSE
SPECIFICATION Spec
SYMMETRY ThreadSymmetry
PROPERTIES SleepExact
CHECK_DEADLOCK FALSE
