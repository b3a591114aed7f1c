CONSTANTS
  Reactive = {"mpc"}
  FirstPlanner = "mpc"
  MaxGoals = 2
  MaxServices = 1
  Nothing = Nothing
SPECIFICATION FairSpec
INVARIANTS
  CapturesRunAlone
  CapturesAreGuarded
  StoppedWhenFree
PROPERTIES
  GoalsAdvance
  LiveGoalTaken
  CancelFreesSlot
CHECK_DEADLOCK FALSE
