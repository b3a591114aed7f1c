SPECIFICATION FairSpec
CONSTANTS
  Tasks <- MCTasks
  Keys = {1, 2}
  MaxOutputs = 1
INVARIANTS
  TaskTypeOK
  SolutionsAreChains
  FallbacksCommits
  NothingWithheld
  FailureIsReal
PROPERTIES
  PlanEndsUnlessStarved
CHECK_DEADLOCK FALSE
