CONSTANTS
  NumFrames = 2
  DoAstrometry = TRUE
  DoPhotometry = TRUE
  camA = camA
  camB = camB
  Camera = {camA}
  CameraOf <- MCCameraOf
  Ending = {}
  Spurious = {}
SPECIFICATION Spec
CHECK_DEADLOCK FALSE
INVARIANT HandsOnItsFrame
