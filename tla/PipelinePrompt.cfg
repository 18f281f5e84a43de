CONSTANTS
  NumFrames = 2
  DoAstrometry = TRUE
  DoPhotometry = TRUE
  camA = camA
  camB = camB
  Camera = {camA}
  CameraOf <- MCCameraOf
  Ending = {}
  Spurious = {}
SPECIFICATION PromptSpec
CHECK_DEADLOCK FALSE
INVARIANTS HandsOnItsFrame DeliveredIsGood
PROPERTY IsFrameLine
