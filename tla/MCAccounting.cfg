SPECIFICATION Spec
CONSTANTS
  None = None
  Cpus = {c1, c2}
  Gpus <- MCGpus
  Names = {tesla}
  Hosts <- MCHosts
  MaxCount = 1
CHECK_DEADLOCK FALSE
INVARIANTS TypeOK PeaksAreMaxima TimeIsCovered ResultLoads
