\* What freePcb's comment says of the blocks it is given.
SPECIFICATION Spec
CONSTANTS
  PCB = {p1, p2, p3}
  UserSem = {mutex}
  DevSem = {disk}
  Clock = clock
  NULL = NULL
  sem = mutex
  MaxInit = 1
  MaxVal = 1
  MaxDebt = 3
INVARIANT FreedIsUnused
