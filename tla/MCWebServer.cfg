SPECIFICATION Spec
CONSTANTS
  index = index
  status = status
  any = any
  h1 = h1
  h2 = h2
  old = old
  new = new
  Keys = {index, status, any}
  Wild = {any}
  Handlers = {h1, h2}
  Creds = {old, new}
  Nobody = Nobody
  MaxHandlers = 2
SYMMETRY AnySymmetry
INVARIANTS
  TypeOK
  Protected
  NoDeadRead
  RegisteredFound
PROPERTY KeepsTable
