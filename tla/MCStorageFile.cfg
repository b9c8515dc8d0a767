SPECIFICATION Spec
CONSTANTS
  k1 = k1
  k2 = k2
  k3 = k3
  Keys = {k1, k2, k3}
  Values = {v1, v2}
  Filters <- MCFilters
  NoKey = NoKey
  MaxSlots = 4
  WritesFail = FALSE
INVARIANTS UniqueKeys FileIsBounded
PROPERTY StoreSpec
