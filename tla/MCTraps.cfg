\* Two process blocks, so that one is used again after its process died.
SPECIFICATION TrapSpec
CONSTANTS
  PCB = {p1, p2}
  UserSem = {mutex}
  DevSem = {disk}
  Clock = clock
  NULL = NULL
  MaxInit = 0
  MaxVal = 1
  MaxDebt = 1
SYMMETRY PCBSymmetry
INVARIANTS
  TrapTypeOK
PROPERTIES
  ImplementsNucleus
  UserModeContained
  AnswerIsFound
