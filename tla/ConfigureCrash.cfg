CONSTANTS
  Procs = {p, q}
  Names = {n1, n2, n3}
  Original = original
  Foreign = {x}
  None = None
  MaxFaults = 2
SPECIFICATION FairSpec
INVARIANT NothingIsLost
INVARIANT SourceIsKept
PROPERTY Converges
CHECK_DEADLOCK FALSE
