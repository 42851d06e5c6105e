CONSTANTS
  Threads = {boot, t1, t2, t3}
  NULL = NULL
  Width = 2
  Boot = boot
  MAX_KERN_THREADS = 3
  Params = {1, 3}
  DeleteStates = {"READY", "SUSPENDED"}
SPECIFICATION Spec
PROPERTIES IdleLast
CHECK_DEADLOCK FALSE
