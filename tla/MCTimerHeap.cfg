CONSTANTS
  Count = 8
  Removable = {7, 8}
SPECIFICATION HSpec
INVARIANTS HEAP_check_min
