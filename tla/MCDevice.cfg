\* disk and term are used as phase 3 uses them, with interrupts masked, and
\* console as print in p2test.c uses it, without.  No symmetry: Answered is a
\* liveness property.  A terminal that interrupts for ever ends at MaxVal: no
\* deadlock check.
SPECIFICATION FairSpec
CONSTANTS
  Proc = {p1, p2}
  Disk = {disk}
  Terminal = {term, console}
  NULL = NULL
  Console = {console}
  MaxVal = 1
CHECK_DEADLOCK FALSE
INVARIANTS
  NoLostWakeup
  Balanced
PROPERTIES
  OwnStatus
  Answered
