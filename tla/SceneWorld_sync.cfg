SPECIFICATION Spec
CONSTANTS
  Objects = {box, wall}
  WorldFile = {box, wall}
  Reactive = {}
  FirstSolver = "motion"
  MaxScans = 2
  MaxCopies = 1
  Nothing = Nothing
INVARIANTS
  WorldInSync
  PayloadIsInert
  NoOutdatedMap
SYMMETRY Interchangeable
CHECK_DEADLOCK FALSE
