CONSTANTS
  None = None
  EOF = EOF
  NARGS = 3
  Lengths <- MCLengths
  FAILURES = 2
SPECIFICATION MCSpec
INVARIANTS NumbersGetThrough XargsIsRight SearchIsRight DescriptorsClosed
PROPERTY AllEnd
CHECK_DEADLOCK FALSE
