SPECIFICATION FairSpec
CONSTANTS
  arm = arm
  hand = hand
  box = box
  bag = bag
  here = here
  there = there
  cone = cone
  Groups <- MCGroups
  Objects <- MCObjects
  Carriable <- MCObjects
  Shapes <- MCShapes
  Unsupported <- MCUnsupported
  Converted <- MCConverted
  MaxShapes = 1
  MaxFaults = 2
  Nothing = Nothing
CONSTRAINT
  Bounded
INVARIANTS
  KnownIsServed
  PlanSeesScene
  AttachedIsHeld
PROPERTIES
  MirrorBackIsIdle
  ObstaclesGetThrough
