CONSTANTS
  NumFrames = 3
  DoAstrometry = TRUE
  DoPhotometry = FALSE
  camA = camA
  camB = camB
  Camera = {camA}
  CameraOf <- MCCameraOf
  Ending = {}
  Spurious = {}
SPECIFICATION TimelyFairSpec
CHECK_DEADLOCK FALSE
PROPERTY EveryFrameSettles
