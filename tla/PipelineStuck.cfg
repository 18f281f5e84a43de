CONSTANTS
  NumFrames = 2
  DoAstrometry = TRUE
  DoPhotometry = FALSE
  camA = camA
  camB = camB
  Camera = {camA}
  CameraOf <- MCCameraOf
  Ending = {"over"}
  Spurious = {}
SPECIFICATION FairSpec
CHECK_DEADLOCK FALSE
PROPERTY BatchEnds
