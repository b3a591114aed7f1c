SPECIFICATION FairSpec
CONSTANTS
  Executes = {e1, e2}
  Previews = {v1}
  Batches = {}
  Planners = {classic}
  FirstPlanner = classic
  NoPlanner = NoPlanner
  Targets = {t1, t2}
  Home = Home
  Midway = Midway
  UseCudaGraph = TRUE
  Cancels = FALSE
  MaxSends = 2
  MaxTags = 0
  MaxClients = 1
  Verdicts = {"succeeded"}
  Rejections = FALSE
  ServerLoss = TRUE
  Fractions = {"partial"}
  Trajectories <- MCTrajectories
  Nothing = Nothing
  Strategies = {joint_pose}
  FirstStrategy = joint_pose
INVARIANTS
  ExecutedIsRequested
PROPERTIES
  EverySlotIsFreed
CHECK_DEADLOCK FALSE
