\* What interrupts.c says happens in every case.  The terminal is used as
\* print in p2test.c uses it, with interrupts on.
SPECIFICATION Spec
CONSTANTS
  Proc = {p1}
  Disk = {disk}
  Terminal = {console}
  NULL = NULL
  Console = {console}
  MaxVal = 2
PROPERTIES
  InEveryCase
