SPECIFICATION FairSpec
CONSTANTS
  MaxEpoch = 5
  MaxPoints = 3
  Raises = TRUE
INVARIANTS
  CompletionIsReached
PROPERTIES
  RobotFollowsCommands
  PlaybackEnds
CHECK_DEADLOCK FALSE
