CONSTANTS
  Proc <- MCProc
  Pipe <- MCPipe
  NFD = 6
  CAP = 1
  None = None
  NUL = NUL
  Commands <- MCCommands
  Lines <- Pipelines
  LINES = 1
  Failing = {"pipe", "dup2", "fork", "fork_left", "fork_right"}
  FAILURES = 1
SPECIFICATION MCSpec
INVARIANTS DescriptorsRight WaitsRight LineMeansWhatItSays
PROPERTY ComesBack
CHECK_DEADLOCK FALSE
