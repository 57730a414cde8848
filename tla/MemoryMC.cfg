CONSTANTS
  None = None
  NoVA = NoVA
  v1 = v1
  v2 = v2
  t1 = t1
  e1 = e1
  p1 = p1
  p2 = p2
  p3 = p3
  p4 = p4
  p5 = p5
  p6 = p6
  Page = {p1, p2, p3, p4, p5, p6}
  Env = {e1, e2}
  CPU = {c1, c2}
  VA <- MCVA
  Table = {t1}
  TableOf <- OneTable
  Image <- OnePage
  Perm = {"r", "w"}
  KEPT = {0, 1}
  LIBRARY = TRUE
SPECIFICATION MCSpec
SYMMETRY Symmetry
INVARIANTS PagesCounted SpacesSound TlbsCoherent BootPagesApart
PROPERTIES MemoryIsPrivate MemoryComesBack KernelMapRight
CHECK_DEADLOCK FALSE
