SPECIFICATION Spec
CONSTANTS
  Goals = {"regrasp"}
  Program <- MCRegrasp
  Planners = {"joint"}
  Objects = {"part"}
  LinkNames = {}
  KnownLinks = {}
  FirstPlanner = "joint"
  FirstObjects = {"part"}
  MaxLate = 1
  Nothing = Nothing
INVARIANTS
  MotionSeesPlannedScene
CHECK_DEADLOCK FALSE
