CONSTANTS
  NumFrames = 1
  DoAstrometry = TRUE
  DoPhotometry = TRUE
  camA = camA
  camB = camB
  Camera = {camA}
  CameraOf <- MCCameraOf
  Ending = {"signal"}
  Spurious = {}
SPECIFICATION FairSpec
CHECK_DEADLOCK FALSE
PROPERTY EveryFrameSettles
