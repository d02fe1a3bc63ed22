CONSTANTS
  Name = {n1, n2}
  Value = {v1, v2}
  NoAccount = NoAccount
  Broken = Broken
  NoOne = NoOne
SPECIFICATION SSpec
SYMMETRY Symmetry
INVARIANTS
  STypeOK
  ConfirmedIsKept
  FileFollowsMemory
  EveryAccountHasRow
  NoRowLeftBehind
