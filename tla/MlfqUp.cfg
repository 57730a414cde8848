CONSTANTS
  c1 = c1
  c2 = c2
  e1 = e1
  e2 = e2
  e3 = e3
  CPUs <- OneCpu
  Envs <- ThreeEnvs
  None = None
  Machines <- MachineOf3
  NBOOT = 3
  NQUEUES = 4
  MLFQ_BASE_TIMER = 2
  MLFQ_BOOST_AMNT = 4
  CPU_TIME_HALT = 1
  MLFQ_SCHED = TRUE
  Calls = {"other", "yield", "fault"}
  LIBRARY = TRUE
SPECIFICATION FairSpec
INVARIANT Preemptible
PROPERTIES  NoStarvation
CHECK_DEADLOCK FALSE
