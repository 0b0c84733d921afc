CONSTANTS
  QueueSize = 2
  End = End
  WorldSize = 3
  MaxClips = 5
  PartsPerClip = 2
SPECIFICATION FairSpec
INVARIANTS FramesInOrder HeldWhileSent FinishedIsComplete AbortLeavesNothing
PROPERTIES EveryOutputEnds
CHECK_DEADLOCK FALSE
