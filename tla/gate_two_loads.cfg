SPECIFICATION SafetySpec
CONSTANTS
  l1 = l1
  l2 = l2
  l3 = l3
  Loads = {l1, l2}
  MayStop = FALSE
INVARIANT LoadsExclude
CHECK_DEADLOCK FALSE
