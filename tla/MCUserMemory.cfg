SPECIFICATION Spec
CONSTANTS
  MAXUSERPROC = 2
  SWAPSIZE = 2
  Page <- Used
  TapeBlocks <- Tapes
  Shared = {}
  Disk = {2}
  Programs <- Few
INVARIANTS
  FramesAgree
  Coherent
  BuffersAreOwn
PROPERTIES
  FaultServed
  DeathIsJoined
