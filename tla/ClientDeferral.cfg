CONSTANTS
  r1 = r1
  r2 = r2
  r3 = r3
  Resource <- ThreeResources
SPECIFICATION Spec
INVARIANTS
  TypeOK
  PassedMeansAllDone
  OneVerdict
  AnsweredWhenDone
  SlotCleared
CHECK_DEADLOCK FALSE
