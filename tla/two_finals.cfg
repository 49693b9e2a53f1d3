SPECIFICATION SafetySpec
CONSTANTS
  s1 = s1
  s2 = s2
  s3 = s3
  p1 = p1
  p2 = p2
  e1 = e1
  NumSlots = 1
  SlotStream <- Streaming
  QueryTypes = {}
  MaxTokens = 2
  MaxCancels = 0
  MaxTasks = 1
  StreamCalls = {s1}
  PredictCalls = {}
  EmbeddingCalls = {}
  MetricsCalls = {}
INVARIANT OneFinalResponse
CHECK_DEADLOCK FALSE
