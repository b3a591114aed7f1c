SPECIFICATION FairProducerSpec
CONSTANTS
  MaxSends = 2
  MaxTags = 3
  MaxClients = 2
  Verdicts = {"succeeded", "aborted"}
  Rejections = TRUE
  ServerLoss = FALSE
  Fractions = {}
  Trajectories = {t1, t2}
  Nothing = Nothing
  Strategies = {joint_pose, joint_speed}
  FirstStrategy = joint_pose
  Producers = {p1, p2}
  MaxEpoch = 2
INVARIANTS
  NeverAnothersTrajectory
  TrackingIsCurrent
  StopMissesOnlyUnacknowledged
PROPERTIES
  ActiveSendGetsVerdict
CHECK_DEADLOCK FALSE
