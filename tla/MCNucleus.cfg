\* The nucleus: three process blocks, one semaphore of theirs, one device and
\* the clock.  No symmetry: the last two properties are liveness properties.
SPECIFICATION FairSpec
CONSTANTS
  PCB = {p1, p2, p3}
  UserSem = {mutex}
  DevSem = {disk}
  Clock = clock
  NULL = NULL
  sem = mutex
  MaxInit = 1
  MaxVal = 1
  MaxDebt = 3
INVARIANTS
  TypeOK
  OnePlace
  Counts
  SemaphoreCount
  NoFault
  StopsOnlyWhenStuck
  ProcessTree
PROPERTIES
  ImplementsSemaphore
  EventuallyRuns
  DeathEnds
