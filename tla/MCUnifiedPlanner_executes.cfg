SPECIFICATION Spec
CONSTANTS
  Executes = {e1, e2}
  Previews = {}
  Batches = {}
  Planners = {classic}
  FirstPlanner = classic
  NoPlanner = NoPlanner
  Targets = {t1}
  Home = Home
  Midway = Midway
  UseCudaGraph = TRUE
  Cancels = TRUE
  MaxSends = 2
  MaxTags = 0
  MaxClients = 1
  Verdicts = {"succeeded", "aborted"}
  Rejections = TRUE
  ServerLoss = TRUE
  Fractions = {"full"}
  Trajectories <- MCTrajectories
  Nothing = Nothing
  Strategies = {joint_pose}
  FirstStrategy = joint_pose
INVARIANTS
  SuccessIsEarned
  IdleWhenFree
PROPERTIES
  ImplementsSlot
CONSTRAINT
  Unraced
SYMMETRY Interchangeable
CHECK_DEADLOCK FALSE
