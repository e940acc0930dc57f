SPECIFICATION FairSpec
CONSTANTS
  MaxLoops = 3
  MayGiveUp = TRUE
INVARIANT SuccessorWaits
PROPERTIES StoppedLoopsEnd StopEnds
CHECK_DEADLOCK FALSE
