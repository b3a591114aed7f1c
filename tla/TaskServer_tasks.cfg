SPECIFICATION FairSpec
CONSTANTS
  Goals = {"prepare", "pick"}
  Program <- MCProgram
  Planners = {"joint", "pose"}
  Objects = {"tray", "part"}
  LinkNames = {"hand", "arm", "ghost"}
  KnownLinks = {"hand", "arm"}
  FirstPlanner = "pose"
  FirstObjects = {"part"}
  MaxLate = 1
  Nothing = Nothing
INVARIANTS
  TaskServerTypeOK
  ContactsAreRestored
  SolvedAsAsked
  SuccessIsDriven
  MotionSeesScene
  MirrorIsTrue
PROPERTIES
  TasksSettle
CHECK_DEADLOCK FALSE
