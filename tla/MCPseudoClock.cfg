\* Charging and timer setting; a tick every two and a half quanta.
SPECIFICATION Spec
CONSTANTS
  Proc = {p1, p2, p3}
  NULL = NULL
  QUANTUM = 2
  INTERVALTIME = 5
  MaxMask = 1
  MaxSince = 12
  Forever = 99
SYMMETRY ProcSymmetry
CHECK_DEADLOCK FALSE
INVARIANTS
  ChargedExactly
  TimerInTime
PROPERTIES
  TickNotEarly
