SPECIFICATION BackendSpec
CONSTANTS
  s1 = s1
  e1 = e1
  m1 = m1
  l1 = l1
  l2 = l2
  NumSlots = 1
  SlotStream <- Streaming
  QueryTypes = {"EMBEDDING"}
  MaxTokens = 1
  MaxCancels = 0
  MaxTasks = 3
  StreamCalls = {s1}
  PredictCalls = {}
  EmbeddingCalls = {e1}
  MetricsCalls = {m1}
  Attempts <- TwoAttempts
INVARIANTS
  BackendInv
  CallsHaveModel
  NoStrandedCaller
PROPERTIES
  EveryCallReturns
  BacklogServed
CHECK_DEADLOCK FALSE
