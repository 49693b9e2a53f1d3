SPECIFICATION Spec
CONSTANTS
  l1 = l1
  l2 = l2
  l3 = l3
  Loads = {l1, l2, l3}
  MayStop = TRUE
INVARIANTS
  GateInv
  NoLostWakeup
  LoopAfterLoad
  SuccessIsReady
PROPERTIES
  LoopStarts
  LoopingStops
CHECK_DEADLOCK FALSE
