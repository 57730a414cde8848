CONSTANTS
  c1 = c1
  c2 = c2
  c3 = c3
  NoCPU = NoCPU
  CPUs <- MCCPUs
  BSP <- MCBSP
SPECIFICATION FairSpec
INVARIANT LockIsSafe
PROPERTIES ImplementsMutex BootEnds OwnerLeaves
CHECK_DEADLOCK FALSE
