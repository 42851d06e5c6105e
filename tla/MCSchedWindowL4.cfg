CONSTANTS
  Threads = {boot, t1, t2, t3}
  NULL = NULL
  Width = 2
  Boot = boot
  MAX_KERN_THREADS = 3
  Params = {1}
  DeleteStates = {"SUSPENDED"}
  CliMasks = FALSE
SPECIFICATION WSpec
PROPERTIES IdleLast
CHECK_DEADLOCK FALSE
