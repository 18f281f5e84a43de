CONSTANTS
  NumFrames = 2
  DoAstrometry = TRUE
  DoPhotometry = FALSE
  camA = camA
  camB = camB
  Camera = {camA, camB}
  CameraOf <- MCCameraOf
  Ending = {"over", "signal"}
  Spurious = {"reduct"}
SPECIFICATION Spec
CHECK_DEADLOCK FALSE
INVARIANTS TypeOK OneAtATime RunsItsFrame StartHasWork
PROPERTY NoStartAfterStop
