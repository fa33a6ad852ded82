SPECIFICATION Spec
CONSTANTS
  httpd = httpd
  console = console
  u0 = u0
  p0 = p0
  u1 = u1
  p1 = p1
  Empty = Empty
  Tasks = {httpd, console}
  Pairs <- MCPairs
  Config <- MCConfig
  First = {httpd, console}
SYMMETRY TaskSymmetry
INVARIANT Linearizable
CHECK_DEADLOCK FALSE
