SPECIFICATION Spec
CONSTANTS
  k1 = k1
  k2 = k2
  k3 = k3
  Keys = {k1, k2}
  Values = {v1}
  Filters = {{k1}, {k2}, {k1, k2}}
  NoKey = NoKey
  MaxSlots = 2
  WritesFail = TRUE
INVARIANT TypeOK
PROPERTY SavedIsKept
