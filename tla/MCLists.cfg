\* Each structure at its own size, one at a time.
SPECIFICATION Spec
CONSTANTS
  Blocks = {p1, p2, p3, p4}
  Queue = {freeList, readyQ, blockedQ}
  pcbList_h = freeList
  Family = {p1, p2, p3, p4, p5}
  Sleepers = {p1, p2, p3}
  Addr = {1, 2, 3, 4}
  Sem = {1, 2}
  VirtNodes = 3
  Time = {1, 2, 3}
  DelayNodes = 3
  ProcID = {1, 2}
  Nil = Nil
SYMMETRY Symmetry
CHECK_DEADLOCK FALSE
INVARIANTS
  TypeOK
  Woven
  Sorted
  NoLeak
PROPERTIES
  QueuesAreFifo
  TreeIsLists
  SemdsAreQueues
  VirtsAreWaiters
  DelaysAreListed
