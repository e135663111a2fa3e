SPECIFICATION Spec
CONSTANTS
  p1 = p1
  p2 = p2
  p3 = p3
  User = {p1, p2, p3}
  Programs <- Few
  Sem = {s1}
  VirtNodes = 2
  MaxDelay = 2
  MaxVal = 1
  MaxLate = 1
  NONE = NONE
INVARIANTS
  OneWakeUp
  ValueCounts
PROPERTIES
  AstrayOnlyOverGap
  NeverEarly
  DelayEnds
