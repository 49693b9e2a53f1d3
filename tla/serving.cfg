SPECIFICATION SafetySpec
CONSTANTS
  s1 = s1
  s2 = s2
  s3 = s3
  p1 = p1
  p2 = p2
  e1 = e1
  NumSlots = 2
  SlotStream <- Streaming
  QueryTypes = {}
  MaxTokens = 1
  MaxCancels = 1
  MaxTasks = 3
  StreamCalls = {s1, s2, s3}
  PredictCalls = {}
  EmbeddingCalls = {}
  MetricsCalls = {}
SYMMETRY StreamSymmetry
INVARIANTS
  ServingInv
  OneHolder
  PlacesInv
PROPERTY AbandonedIdsStayQuiet
CHECK_DEADLOCK FALSE
