SPECIFICATION FairSpec
CONSTANTS
  Executes = {e1}
  Previews = {}
  Batches = {}
  Planners = {classic}
  FirstPlanner = classic
  NoPlanner = NoPlanner
  Targets = {t1}
  Home = Home
  Midway = Midway
  UseCudaGraph = TRUE
  Cancels = FALSE
  MaxSends = 1
  MaxTags = 0
  MaxClients = 1
  Verdicts = {"aborted"}
  Rejections = FALSE
  ServerLoss = FALSE
  Fractions = {}
  Trajectories <- MCTrajectories
  Nothing = Nothing
  Strategies = {joint_pose}
  FirstStrategy = joint_pose
PROPERTIES
  FailureEndsExecution
CHECK_DEADLOCK FALSE
