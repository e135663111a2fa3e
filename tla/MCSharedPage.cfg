INIT Init
NEXT Next
CONSTANTS
  MAXUSERPROC = 2
  SWAPSIZE = 2
  Page <- Used
  TapeBlocks <- Tapes
  Shared = {0}
  Disk = {2}
  Programs <- Few
INVARIANT SharedIsCoherent
