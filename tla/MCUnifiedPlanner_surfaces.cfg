SPECIFICATION Spec
CONSTANTS
  Executes = {e1}
  Previews = {v1}
  Batches = {b1}
  Planners = {classic, jointspace}
  FirstPlanner = classic
  NoPlanner = NoPlanner
  Targets = {t1}
  Home = Home
  Midway = Midway
  UseCudaGraph = TRUE
  Cancels = FALSE
  MaxSends = 1
  MaxTags = 0
  MaxClients = 2
  Verdicts = {"succeeded"}
  Rejections = FALSE
  ServerLoss = FALSE
  Fractions = {"partial"}
  Trajectories <- MCTrajectories
  Nothing = Nothing
  Strategies = {joint_pose, joint_speed}
  FirstStrategy = joint_pose
INVARIANTS
  EpochNamesPlan
SYMMETRY Interchangeable
CHECK_DEADLOCK FALSE
