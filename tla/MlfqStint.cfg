CONSTANTS
  c1 = c1
  c2 = c2
  e1 = e1
  e2 = e2
  e3 = e3
  CPUs <- OneCpu
  Envs <- TwoEnvs
  None = None
  Machines <- MachineOf2
  NBOOT = 1
  NQUEUES = 2
  MLFQ_BASE_TIMER = 2
  MLFQ_BOOST_AMNT = 4
  CPU_TIME_HALT = 1
  MLFQ_SCHED = TRUE
  Calls = {"other"}
  LIBRARY = TRUE
SPECIFICATION Spec
PROPERTY TimeInQueueAccumulates
CHECK_DEADLOCK FALSE
