CONSTANTS
  Conn = {c1, c2}
  Name = {n1, n2, n3}
  Password = {p1, p2}
  LegacyName = {n1}
  MaxAttempts = 2
  NoName = NoName
  NoAccount = NoAccount
SPECIFICATION Spec
SYMMETRY Symmetry
INVARIANTS
  TypeOK
  UniqueNames
  AuthedHasAccount
PROPERTIES
  NoAccountLost
  ChangedByOwner
  ImplementsDirectory
