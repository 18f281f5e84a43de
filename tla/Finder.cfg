SPECIFICATION FairSpec
CONSTANTS
  NumFrames = 4
  MaxFno = 1
  MinFrame = 3
  Ending = {"over", "signal"}
INVARIANTS TypeOK NeighboursOnly ObjectsInOneSequence GoneHasTaken
PROPERTIES EveryFrameTaken EverySequenceCloses DestroyReturns
CHECK_DEADLOCK FALSE
