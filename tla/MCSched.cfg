CONSTANTS
  Threads = {boot, t1, t2, t3}
  NULL = NULL
  Width = 2
  Boot = boot
  MAX_KERN_THREADS = 2
  Params = {1, 2}
  DeleteStates = {"READY", "SUSPENDED"}
SPECIFICATION Spec
SYMMETRY AppSymmetry
INVARIANTS StructSound RunnerReady KStackExact
PROPERTIES DispatchOptimal DeferredNotLost IdleLast ImplementsReadyQueue
CHECK_DEADLOCK FALSE
