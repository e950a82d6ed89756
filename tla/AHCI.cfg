SPECIFICATION Spec
CONSTANTS
  Sectors = {s1, s2}
  Values = {v1, v2}
  Garbage = Garbage
  Callers = {c1}
  SpinBound = 2
INVARIANT TypeOK
PROPERTIES
  StructuresMoveWhileStopped CommandIsStable
  ImplementsDisk DriverGoesOn
CHECK_DEADLOCK FALSE
