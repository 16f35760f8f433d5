SPECIFICATION Spec
CONSTANTS
  MaxFrames = 5
  MaxBlocks = 2
  MaxClosures = 2
INVARIANT CapacityOK
INVARIANT HandlersMatchFrames
INVARIANT HandlerFound
PROPERTY OuterHandlersStay
PROPERTY ExnActionsRun
CHECK_DEADLOCK FALSE
