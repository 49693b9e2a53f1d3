SPECIFICATION Spec
CONSTANTS
  Handlers <- AllHandlers
  Contents <- SmallTexts
  Images <- UpToTwoImages
  Options <- ToolsOrReasoning
  MaxMessages = 2
  MaxReloads = 1
INVARIANTS
  ImagesMarked
  TextModelUntouched
  EarlierTurnsUntouched
  NullOnlyAfterReload
  TemplateSeesRequest
  ReasoningAgrees
  ChatInv
CHECK_DEADLOCK FALSE
