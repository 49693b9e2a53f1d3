SPECIFICATION Spec
CONSTANTS
  OptionLists <- UpToFour
  Env <- EnvValues
INVARIANTS
  LastParallelWins
  ParallelBatches
  ParamsInv
CHECK_DEADLOCK FALSE
