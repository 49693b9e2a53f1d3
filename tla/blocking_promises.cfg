SPECIFICATION Spec
CONSTANTS
  s1 = s1
  s2 = s2
  s3 = s3
  p1 = p1
  p2 = p2
  e1 = e1
  NumSlots = 1
  SlotStream <- Collecting
  QueryTypes = {}
  MaxTokens = 2
  MaxCancels = 1
  MaxTasks = 2
  StreamCalls = {}
  PredictCalls = {p1, p2}
  EmbeddingCalls = {}
  MetricsCalls = {}
INVARIANTS
  BlockingReplyComplete
  DeliveryInv
  NoStuckSlot
PROPERTY KeepsPromises
CHECK_DEADLOCK FALSE
