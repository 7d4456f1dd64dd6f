SPECIFICATION CowSpec
CONSTANTS
  Pointer = {x, y, z}
  Object = {o1, o2, o3, o4}
  Value = {u, v, w}
  NULL = NULL
  Nothing = Nothing
INVARIANTS TypeOK CountsOwners
PROPERTY Independent
