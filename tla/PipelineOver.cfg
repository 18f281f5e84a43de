CONSTANTS
  NumFrames = 2
  DoAstrometry = TRUE
  DoPhotometry = TRUE
  camA = camA
  camB = camB
  Camera = {camA}
  CameraOf <- MCCameraOf
  Ending = {"over"}
  Spurious = {}
SPECIFICATION TimelySpec
CHECK_DEADLOCK FALSE
INVARIANT IsOverMeansFinished
