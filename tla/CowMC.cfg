CONSTANTS
  None = None
  Page <- MCPage
  Env <- MCEnv
  VA <- MCVA
  Table <- MCTable
  TableOf <- MCTableOf
  Perm <- MCPerm
  Value <- MCValue
  Text <- MCText
  Data <- MCData
  Stack = "stack"
  UxStack = "uxstack"
  Pftemp = "PFTEMP"
  Utemp = "UTEMP"
  Order <- MCOrder
  NFORK = 2
SPECIFICATION MCSpec
INVARIANT SharingIsSafe
PROPERTIES MemoriesArePrivate StoresAndForksEnd
CHECK_DEADLOCK FALSE
